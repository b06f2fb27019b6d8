---------------------------- MODULE AtomicEntity ----------------------------
(***************************************************************************)
(* What a caller may rely on: one entity, without locks, transactions,     *)
(* snapshots or scheduler passes.  Every write happens in one step on the  *)
(* tables of that moment, every refusal is justified by the tables of the  *)
(* moment it is decided, and the actions of a write leave the process once *)
(* or never.  What a write or a refusal may be is left to the constants,   *)
(* which TransitionCoreAtomic gives from the engine.                       *)
(***************************************************************************)
EXTENDS Naturals, Sequences

CONSTANTS
  Clients, Timers,         \* who writes: requests, and engines firing timeouts
  Events, Stores, NoEntity,
  NewEntity(_),            \* NewEntity(now): the row a first request creates
  EventSteps(_, _, _, _),  \* (entity, history, event, now): [entity, history] after it
  TimeoutSteps(_, _, _, _),\* (entity, history, then, now): those after a timeout due then
  Refusals(_, _, _)        \* (entity, history, event): the answers that write nothing

VARIABLES
  entity,    \* the row, or NoEntity
  history,   \* the committed rows of `transitions`
  handed,    \* rows whose actions were handed to dispatch
  clock,
  status,    \* of each client: "idle", "asked" or "served"
  question,  \* the event a client asked about
  answer,    \* the last answer a client got
  owed       \* the row whose actions a writer still has to hand over, or 0

tables == <<entity, history>>
avars  == <<tables, handed, clock, status, question, answer, owed>>

Init ==
  /\ \E s \in Stores : entity = s.entity /\ history = s.history
  /\ handed = {}
  /\ clock = 1
  /\ status = [c \in Clients |-> "idle"]
  /\ question \in [Clients -> Events]
  /\ answer = [c \in Clients |-> "none"]
  /\ owed = [w \in Clients \union Timers |-> 0]

Tick ==
  /\ clock' = clock + 1
  /\ UNCHANGED <<tables, handed, status, question, answer, owed>>

Ask(c, ev) ==
  /\ status[c] = "idle"
  /\ status' = [status EXCEPT ![c] = "asked"]
  /\ question' = [question EXCEPT ![c] = ev]
  /\ answer' = [answer EXCEPT ![c] = "none"]
  /\ UNCHANGED <<tables, handed, clock, owed>>

\* Only an asked client creates the row, and only while there is none.
Create(c) ==
  /\ status[c] = "asked"
  /\ entity = NoEntity
  /\ entity' = NewEntity(clock)
  /\ UNCHANGED <<history, handed, clock, status, question, answer, owed>>

\* One whole write, on the tables as they are.
Write(w, steps) ==
  /\ entity # NoEntity
  /\ owed[w] = 0
  /\ \E new \in steps : entity' = new.entity /\ history' = new.history
  /\ owed' = [owed EXCEPT ![w] = Len(history) + 1]
  /\ UNCHANGED <<handed, clock, question, answer>>

Serve(c) ==
  /\ status[c] = "asked"
  /\ Write(c, EventSteps(entity, history, question[c], clock))
  /\ status' = [status EXCEPT ![c] = "served"]

\* A timeout that was due at some time up to now.
Expire(t) ==
  /\ \E then \in 0..clock : Write(t, TimeoutSteps(entity, history, then, clock))
  /\ UNCHANGED status

\* No client is told of a conflict, or of a refusal that was only once true.
Refuse(c) ==
  /\ status[c] = "asked"
  /\ status' = [status EXCEPT ![c] = "idle"]
  /\ \E a \in Refusals(entity, history, question[c]) : answer' = [answer EXCEPT ![c] = a]
  /\ UNCHANGED <<tables, handed, clock, question, owed>>

\* The actions of a write leave once: no row is handed over again.
HandOver(w) ==
  /\ owed[w] \notin handed \union {0}
  /\ handed' = handed \union {owed[w]}

\* Every served client is told so; its actions go to dispatch or into the answer.
Finish(c) ==
  /\ status[c] = "served"
  /\ IF question[c].dispatch THEN HandOver(c) ELSE UNCHANGED handed
  /\ owed' = [owed EXCEPT ![c] = 0]
  /\ status' = [status EXCEPT ![c] = "idle"]
  /\ answer' = [answer EXCEPT ![c] = "applied"]
  /\ UNCHANGED <<tables, clock, question>>

FinishTimeout(t) ==
  /\ HandOver(t)
  /\ owed' = [owed EXCEPT ![t] = 0]
  /\ UNCHANGED <<tables, clock, status, question, answer>>

\* A process stops: what it wrote stays, what it owed is lost.
Lose(w) ==
  /\ owed' = [owed EXCEPT ![w] = 0]
  /\ IF w \in Clients
     THEN /\ status' = [status EXCEPT ![w] = "idle"]
          /\ answer' = [answer EXCEPT ![w] = "none"]
     ELSE UNCHANGED <<status, answer>>
  /\ UNCHANGED <<tables, handed, clock, question>>

Next ==
  \/ Tick
  \/ \E c \in Clients :
       \/ \E ev \in Events : Ask(c, ev)
       \/ Create(c) \/ Serve(c) \/ Refuse(c) \/ Finish(c)
  \/ \E t \in Timers : Expire(t) \/ FinishTimeout(t)
  \/ \E w \in Clients \union Timers : Lose(w)

Spec == Init /\ [][Next]_avars
=============================================================================
