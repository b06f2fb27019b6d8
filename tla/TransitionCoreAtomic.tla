------------------------ MODULE TransitionCoreAtomic ------------------------
(***************************************************************************)
(* TransitionCore seen as an AtomicEntity: which moment of a request or a  *)
(* pass is its one atomic step, and what the engine makes of that step.    *)
(***************************************************************************)
EXTENDS TransitionCore

\* The tables after write_entity has gone through.
AfterWrite(e, rows, spec, now) ==
  LET new == Rows(spec, e.version + 1, now)
  IN [entity  |-> Written(e, spec.states, spec.context, Entered(new, Len(rows) + 1), now),
      history |-> rows \o new]

EventSteps(e, rows, ev, now) ==
  {AfterWrite(e, rows, spec, now) :
     spec \in {x \in UNION {EventWrites(e, ev, t) : t \in MatchOf(e, ev)} :
                 Dedup(rows, ev) = "new"}}

DueTimers(e, then) ==
  {i \in DOMAIN Machine.transitions : IsTimeout(i) /\ StillDue(e, Machine.transitions[i], then)}

TimeoutSteps(e, rows, then, now) ==
  {AfterWrite(e, rows, spec, now) :
     spec \in UNION {TimeoutWrites(e, Machine.transitions[i], then) : i \in DueTimers(e, then)}}

\* Any statement may find the database locked; every other refusal says
\* something about the tables.
Refusals(e, rows, ev) ==
  {"locked"} \union
  IF e = NoEntity THEN {"not_found"}
  ELSE IF Dedup(rows, ev) # "new" THEN {Dedup(rows, ev)}
  ELSE IF MatchOf(e, ev) = {} THEN {"no_transition"} ELSE {}

\* A client has asked from its request to its commit, and is served from its
\* commit to its answer.
StatusOf(p) ==
  CASE phase[p] = "idle"     -> "idle"
    [] phase[p] = "dispatch" -> "served"
    [] OTHER                 -> "asked"

Atomic == INSTANCE AtomicEntity WITH
  Clients  <- Requests,
  Timers   <- Schedulers,
  handed   <- {i \in DOMAIN sent : sent[i] > 0},
  status   <- [p \in Requests |-> StatusOf(p)],
  question <- request,
  answer   <- [p \in Requests |-> reply[p]],
  owed     <- batch

\* Every request and every timeout takes effect at one moment, its COMMIT, on
\* the tables of that moment and not on those it loaded or its pass selected
\* it from; every refusal is true when it is decided; and the actions of a
\* write leave after it, once or, where a process crashes, never.
ImplementsAtomic == Atomic!Spec
=============================================================================
