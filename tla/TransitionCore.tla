--------------------------- MODULE TransitionCore ---------------------------
(***************************************************************************)
(* One entity of one machine, with every process that may write it: API    *)
(* requests (POST .../evaluate and .../transition) and the timeout         *)
(* schedulers of several replicas, over one SQLite database.               *)
(*                                                                         *)
(* A worker's write runs in a BEGIN IMMEDIATE transaction.  It is two      *)
(* steps here: taking the write lock and reading the row (BeginTx,         *)
(* BeginFire), and the evaluation with all of its writes and the COMMIT.   *)
(* Between the two other workers run, their attempts to write are refused  *)
(* ("database is locked"), and the worker may crash, which rolls back.     *)
(* What precedes the transaction (loading or creating the row, the         *)
(* scheduler's candidate query and its clock reading) and what follows it  *)
(* (dispatching the actions) are steps of their own.                       *)
(***************************************************************************)
EXTENDS RegionEngine

CONSTANTS
  Machine,       \* the machine definition (see RegionEngine)
  Requests,      \* workers serving API requests
  Schedulers,    \* timeout schedulers, one per replica
  NoOne,         \* the write lock is free
  Events,        \* events clients submit: [type, ts, params, dispatch]
  Stores,        \* what the database may hold at first: [entity, history]
  MaxClock,      \* bound on the clock
  MaxSubmits,    \* bound on the number of requests
  MaxCrashes     \* bound on the number of crashes

Workers == Requests \union Schedulers
Regions == DOMAIN Machine.initial
NoEntity == [version |-> 0]

\* A row of `entities` that exists at time `now`, with the region instances its
\* readers see.
IsEntity(e, now) ==
  /\ e.version \in Nat \ {0}
  /\ DOMAIN e.states = Regions
  /\ e.created_at \in 0..now
  /\ e.updated_at \in 0..now
  /\ LET entries == EffectiveEntries(Machine, e)
     IN \A r \in Regions : /\ entries[r].state = e.states[r]
                           /\ entries[r].seq \in 1..e.version
                           /\ entries[r].entered_at \in 0..now

\* A request and a scheduler are different tasks.
ASSUME WorkersAssumption == Requests \intersect Schedulers = {} /\ NoOne \notin Workers

ASSUME MachineAssumption == IsSeq(Machine.transitions) /\ IsSeq(Machine.joins)

ASSUME EventsAssumption == Events # {}

ASSUME BoundsAssumption ==
  MaxClock \in Nat \ {0} /\ MaxSubmits \in Nat /\ MaxCrashes \in Nat

\* No write of this engine entered the instances of row e: they are those of its
\* creation or legacy ones, of its own version, and none is older than the last
\* of `rows` that moved its region or than the row ("an upper bound of the true
\* entry time, so a timer never fires early").
Inherited(e, rows) ==
  LET entries == EffectiveEntries(Machine, e)
  IN \A r \in Regions :
       /\ entries[r].row = 0 /\ entries[r].basis # "transition"
       /\ entries[r].seq = e.version
       /\ e.created_at <= entries[r].entered_at
       /\ \A i \in LastFor(rows, r) : rows[i].to = e.states[r] /\ rows[i].at \in 0..entries[r].entered_at

\* A database holds no row of the entity, or a row and rows of its history that
\* an engine without identities and entry instances wrote.
ASSUME StoresAssumption ==
  \A s \in Stores :
    /\ IsSeq(s.history)
    /\ \A i \in DOMAIN s.history : s.history[i].key = NoIdentity
    /\ \/ s.entity = NoEntity /\ s.history = <<>>
       \/ IsEntity(s.entity, 1) /\ Inherited(s.entity, s.history)

VARIABLES
  entity,        \* row of `entities`, or NoEntity
  history,       \* rows of `transitions` of this entity; the index is the id
  sent,          \* sent[i]: how often the batch of row i was handed to dispatch
  clock,         \* now_millis()
  lock,          \* holder of the database's write lock
  phase,         \* where each worker is
  snap,          \* the row a worker read at the start of its transaction
  request,       \* the event a request worker is serving
  reply,         \* the last answer of each worker
  tick,          \* the `now` of a scheduler's current pass
  cursor,        \* index of the transition a scheduler's pass has reached
  batch,         \* main row whose actions a worker still has to dispatch, or 0
  submits,       \* requests so far
  crashes        \* crashes so far

store  == <<entity, history, sent>>
worker == <<phase, snap, request, reply, tick, cursor, batch>>
vars   == <<store, clock, lock, worker, submits, crashes>>

\* Mutant of NewEntity: the row starts at version 0.
NewEntityAtZero(now) ==
  [states |-> Machine.initial, context |-> <<>>, version |-> 0,
   created_at |-> now, updated_at |-> now,
   stored |-> InitialEntries(Machine.initial, now)]

NewEntity(now) ==
  [states |-> Machine.initial, context |-> <<>>, version |-> 1,
   created_at |-> now, updated_at |-> now,
   stored |-> InitialEntries(Machine.initial, now)]

NewRequestEvent == CHOOSE ev \in Events : TRUE

-----------------------------------------------------------------------------
Init ==
  /\ \E s \in Stores :
       /\ entity = s.entity
       /\ history = s.history
       /\ sent = [i \in DOMAIN s.history |-> 0]
  /\ clock = 1
  /\ lock = NoOne
  /\ phase = [w \in Workers |-> "idle"]
  /\ snap = [w \in Workers |-> NoEntity]
  /\ request = [p \in Requests |-> NewRequestEvent]
  /\ reply = [w \in Workers |-> "none"]
  /\ tick = [s \in Schedulers |-> 0]
  /\ cursor = [s \in Schedulers |-> 0]
  /\ batch = [w \in Workers |-> 0]
  /\ submits = 0
  /\ crashes = 0

Tick ==
  /\ clock < MaxClock
  /\ clock' = clock + 1
  /\ UNCHANGED <<store, lock, worker, submits, crashes>>

-----------------------------------------------------------------------------
(* Steps shared by the workers.                                            *)

Answer(w, what, next) ==
  /\ phase' = [phase EXCEPT ![w] = next]
  /\ reply' = [reply EXCEPT ![w] = what]

\* Mutant of Begin: a deferred BEGIN, which takes no lock before its read.
BeginDeferred(w) ==
  /\ lock' = w
  /\ snap' = [snap EXCEPT ![w] = entity]
  /\ phase' = [phase EXCEPT ![w] = "tx"]
  /\ UNCHANGED <<store, clock, request, reply, tick, cursor, batch, submits, crashes>>

\* BEGIN IMMEDIATE and load_entity_on.
Begin(w) ==
  /\ lock = NoOne
  /\ lock' = w
  /\ snap' = [snap EXCEPT ![w] = entity]
  /\ phase' = [phase EXCEPT ![w] = "tx"]
  /\ UNCHANGED <<store, clock, request, reply, tick, cursor, batch, submits, crashes>>

\* SQLITE_BUSY: there is no busy timeout, the statement fails at once.
Refuse(w, next) ==
  /\ lock # NoOne
  /\ Answer(w, "locked", next)
  /\ UNCHANGED <<store, clock, lock, snap, request, tick, cursor, batch, submits, crashes>>

\* The transaction ends without a write.
EndTx(w, what, next) ==
  /\ lock' = NoOne
  /\ snap' = [snap EXCEPT ![w] = NoEntity]
  /\ Answer(w, what, next)
  /\ UNCHANGED <<store, clock, request, tick, cursor, batch, submits, crashes>>

\* Rows one write inserts: the main row, then the fired joins in order.
Rows(spec, version, now) ==
  <<[type |-> spec.type, region |-> spec.region, from |-> spec.from, to |-> spec.to,
     key |-> spec.key, params |-> spec.params, ts |-> spec.ts, at |-> now]>>
  \o [k \in DOMAIN spec.fired |->
        [type |-> "$join", region |-> spec.fired[k].region, from |-> spec.fired[k].from,
         to |-> spec.fired[k].to, key |-> JoinIdentity(spec.fired[k].region, version, k - 1),
         params |-> <<>>, ts |-> spec.ts, at |-> now]]

\* The region instances those rows enter, given the id of the first.
Entered(rows, first) ==
  [k \in DOMAIN rows |->
     [region |-> rows[k].region, state |-> rows[k].to, row |-> first + k - 1]]

\* idx_transitions_identity, and UPDATE ... WHERE state_version = expected.
Conflicts(e, rows) ==
  \/ \E i \in DOMAIN rows, j \in DOMAIN history : rows[i].key = history[j].key
  \/ entity.version # e.version

\* The row update_entity stores.
Written(e, states, context, entered, now) ==
  [states |-> states, context |-> context, version |-> e.version + 1,
   created_at |-> e.created_at, updated_at |-> now,
   stored |-> AdvanceEntries(EffectiveEntries(Machine, e), states, entered, e.version + 1, now)]

\* write_entity and COMMIT, or the roll-back of a conflict.
WriteEntity(w, spec, refused) ==
  LET e       == snap[w]
      version == e.version + 1
      rows    == Rows(spec, version, clock)
      first   == Len(history) + 1
  IN /\ lock' = NoOne
     /\ snap' = [snap EXCEPT ![w] = NoEntity]
     /\ IF Conflicts(e, rows)
        THEN /\ Answer(w, "conflict", refused)
             /\ UNCHANGED <<store, batch>>
        ELSE /\ entity' = Written(e, spec.states, spec.context, Entered(rows, first), clock)
             /\ history' = history \o rows
             /\ sent' = sent \o [k \in DOMAIN rows |-> 0]
             /\ batch' = [batch EXCEPT ![w] = first]
             /\ phase' = [phase EXCEPT ![w] = "dispatch"]
             /\ UNCHANGED reply
     /\ UNCHANGED <<clock, request, tick, cursor, submits, crashes>>

\* Mutant of Dispatch: the batch is kept after it was handed out.
DispatchAndKeep(w, what, next) ==
  /\ phase[w] = "dispatch"
  /\ sent' = [sent EXCEPT ![batch[w]] = @ + 1]
  /\ Answer(w, what, next)
  /\ UNCHANGED <<entity, history, clock, lock, snap, request, tick, cursor, batch, submits, crashes>>

\* dispatch_committed: the batch of the committed write leaves the process.
Dispatch(w, what, next) ==
  /\ phase[w] = "dispatch"
  /\ sent' = [sent EXCEPT ![batch[w]] = @ + 1]
  /\ batch' = [batch EXCEPT ![w] = 0]
  /\ Answer(w, what, next)
  /\ UNCHANGED <<entity, history, clock, lock, snap, request, tick, cursor, submits, crashes>>

\* The process stops: its transaction is rolled back and its pending batch lost.
Crash(w) ==
  /\ phase[w] # "idle"
  /\ crashes < MaxCrashes
  /\ crashes' = crashes + 1
  /\ lock' = IF lock = w THEN NoOne ELSE lock
  /\ snap' = [snap EXCEPT ![w] = NoEntity]
  /\ batch' = [batch EXCEPT ![w] = 0]
  /\ Answer(w, "none", "idle")
  /\ UNCHANGED <<store, clock, request, tick, cursor, submits>>

-----------------------------------------------------------------------------
(* API requests.                                                           *)

\* A client sends an event, for the first time or again.
Submit(p, ev) ==
  /\ phase[p] = "idle"
  /\ submits < MaxSubmits
  /\ submits' = submits + 1
  /\ request' = [request EXCEPT ![p] = ev]
  /\ Answer(p, "none", "load")
  /\ UNCHANGED <<store, clock, lock, snap, tick, cursor, batch, crashes>>

\* load_entity finds the row.
LoadExisting(p) ==
  /\ phase[p] = "load"
  /\ entity # NoEntity
  /\ phase' = [phase EXCEPT ![p] = "begin"]
  /\ UNCHANGED <<store, clock, lock, snap, request, reply, tick, cursor, batch, submits, crashes>>

\* transition_entity answers 404 for an absent row.
AnswerNotFound(p) ==
  /\ phase[p] = "load"
  /\ entity = NoEntity
  /\ Answer(p, "not_found", "idle")
  /\ UNCHANGED <<store, clock, lock, snap, request, tick, cursor, batch, submits, crashes>>

\* load_or_create_entity goes on to insert it.
LoadMissing(p) ==
  /\ phase[p] = "load"
  /\ entity = NoEntity
  /\ phase' = [phase EXCEPT ![p] = "create"]
  /\ UNCHANGED <<store, clock, lock, snap, request, reply, tick, cursor, batch, submits, crashes>>

\* Mutant of CreateEntity: INSERT OR REPLACE.
CreateOrReplaceEntity(p) ==
  /\ phase[p] = "create"
  /\ lock = NoOne
  /\ entity' = NewEntity(clock)
  /\ phase' = [phase EXCEPT ![p] = "begin"]
  /\ UNCHANGED <<history, sent, clock, lock, snap, request, reply, tick, cursor, batch, submits, crashes>>

\* INSERT OR IGNORE and the re-load.
CreateEntity(p) ==
  /\ phase[p] = "create"
  /\ lock = NoOne
  /\ entity' = IF entity = NoEntity THEN NewEntity(clock) ELSE entity
  /\ phase' = [phase EXCEPT ![p] = "begin"]
  /\ UNCHANGED <<history, sent, clock, lock, snap, request, reply, tick, cursor, batch, submits, crashes>>

BeginTx(p) ==
  /\ phase[p] = "begin"
  /\ Begin(p)

RefuseRequest(p) ==
  /\ phase[p] \in {"create", "begin"}
  /\ Refuse(p, "idle")

\* Committed rows with the event's (event_type, timestamp), legacy rows too.
SameIdentity(rows, ev) == {i \in DOMAIN rows : rows[i].type = ev.type /\ rows[i].ts = ev.ts}

\* Mutant of Dedup: the parameters are not compared.
DedupByIdentity(rows, ev) == IF SameIdentity(rows, ev) = {} THEN "new" ELSE "duplicate"

Dedup(rows, ev) ==
  IF SameIdentity(rows, ev) = {} THEN "new"
  ELSE IF \E i \in SameIdentity(rows, ev) : rows[i].params = ev.params
       THEN "duplicate" ELSE "identity_conflict"

MatchOf(e, ev) == Evaluate(Machine, e.states, e.context, ev.type, ev.params)

AnswerDuplicate(p) ==
  /\ phase[p] = "tx"
  /\ Dedup(history, request[p]) = "duplicate"
  /\ EndTx(p, "duplicate", "idle")

AnswerIdentityConflict(p) ==
  /\ phase[p] = "tx"
  /\ Dedup(history, request[p]) = "identity_conflict"
  /\ EndTx(p, "identity_conflict", "idle")

AnswerNoTransition(p) ==
  /\ phase[p] = "tx"
  /\ Dedup(history, request[p]) = "new"
  /\ MatchOf(snap[p], request[p]) = {}
  /\ EndTx(p, "no_transition", "idle")

EventWrites(e, ev, t) ==
  {[type |-> ev.type, region |-> t.region, from |-> t.from, to |-> t.to,
    key |-> EventIdentity(ev.type, ev.ts), params |-> ev.params, ts |-> ev.ts,
    states |-> cascade.states, fired |-> cascade.fired,
    context |-> Merge(ev.params, e.context)] :
      cascade \in ApplyJoins(Machine, [e.states EXCEPT ![t.region] = t.to])}

ApplyEvent(p) ==
  /\ phase[p] = "tx"
  /\ Dedup(history, request[p]) = "new"
  /\ \E t \in MatchOf(snap[p], request[p]) :
       \E spec \in EventWrites(snap[p], request[p], t) : WriteEntity(p, spec, "idle")

\* With dispatch = false the actions go back in the response only, for the
\* caller to run.
ReturnActions(p) ==
  /\ phase[p] = "dispatch"
  /\ ~ request[p].dispatch
  /\ batch' = [batch EXCEPT ![p] = 0]
  /\ Answer(p, "applied", "idle")
  /\ UNCHANGED <<store, clock, lock, snap, request, tick, cursor, submits, crashes>>

\* Mutant of DispatchEvent: the answer forgets the batch.
AnswerWithoutDispatch(p) ==
  /\ phase[p] = "dispatch"
  /\ batch' = [batch EXCEPT ![p] = 0]
  /\ Answer(p, "applied", "idle")
  /\ UNCHANGED <<store, clock, lock, snap, request, tick, cursor, submits, crashes>>

DispatchEvent(p) == request[p].dispatch /\ Dispatch(p, "applied", "idle")

-----------------------------------------------------------------------------
(* The timeout scheduler.                                                  *)

IsTimeout(i) ==
  /\ Machine.transitions[i].on = "$timeout"
  /\ Machine.transitions[i].guard.kind = "timeout"

ASSUME TimersAssumption ==
  \A i \in DOMAIN Machine.transitions : IsTimeout(i) => Machine.transitions[i].guard.ms \in Int

\* Mutant of Remaining: a pass starts at the second transition.
RemainingAfterNext(s) == {i \in DOMAIN Machine.transitions : IsTimeout(i) /\ i > cursor[s] + 1}

Remaining(s) == {i \in DOMAIN Machine.transitions : IsTimeout(i) /\ i > cursor[s]}

\* A pass reads the clock once.
StartTick(s) ==
  /\ phase[s] = "idle"
  /\ phase' = [phase EXCEPT ![s] = "scan"]
  /\ tick' = [tick EXCEPT ![s] = clock]
  /\ cursor' = [cursor EXCEPT ![s] = 0]
  /\ UNCHANGED <<store, clock, lock, snap, request, reply, batch, submits, crashes>>

EndTick(s) ==
  /\ phase[s] = "scan"
  /\ Remaining(s) = {}
  /\ Answer(s, "none", "idle")
  /\ tick' = [tick EXCEPT ![s] = 0]
  /\ cursor' = [cursor EXCEPT ![s] = 0]
  /\ UNCHANGED <<store, clock, lock, snap, request, batch, submits, crashes>>

\* timeout_candidates: the SQL prefilter over the committed row.
Candidate(t, now) ==
  /\ entity # NoEntity
  /\ t.region \in DOMAIN entity.states
  /\ entity.states[t.region] = t.from
  /\ LET tracked == /\ entity.stored.version = entity.version
                    /\ t.region \in DOMAIN entity.stored.regions
                    /\ entity.stored.regions[t.region].state = t.from
     IN (IF tracked THEN entity.stored.regions[t.region].entered_at ELSE entity.updated_at)
          <= now - t.guard.ms

Scan(s) ==
  /\ phase[s] = "scan"
  /\ \E i \in Remaining(s) :
       /\ \A j \in Remaining(s) : i <= j
       /\ cursor' = [cursor EXCEPT ![s] = i]
       /\ phase' = [phase EXCEPT ![s] = IF Candidate(Machine.transitions[i], tick[s])
                                        THEN "fire" ELSE "scan"]
  /\ UNCHANGED <<store, clock, lock, snap, request, reply, tick, batch, submits, crashes>>

BeginFire(s) ==
  /\ phase[s] = "fire"
  /\ Begin(s)

\* The candidate is logged as failed and skipped.
RefuseFire(s) ==
  /\ phase[s] = "fire"
  /\ Refuse(s, "scan")

\* Mutant of StillDue: the region is re-checked, its instance is not.
StillInState(e, t, now) ==
  /\ e # NoEntity
  /\ t.region \in DOMAIN e.states
  /\ e.states[t.region] = t.from

\* The re-check of fire_timeout, on the row read in the transaction.
StillDue(e, t, now) ==
  /\ e # NoEntity
  /\ t.region \in DOMAIN e.states
  /\ e.states[t.region] = t.from
  /\ TimeoutDue(EffectiveEntries(Machine, e)[t.region], t.guard.ms, now)

SkipTimeout(s) ==
  /\ phase[s] = "tx"
  /\ ~ StillDue(snap[s], Machine.transitions[cursor[s]], tick[s])
  /\ EndTx(s, "none", "scan")

TimeoutWrites(e, t, now) ==
  LET moved == [e.states EXCEPT ![t.region] = t.to]
  IN {[type |-> "$timeout", region |-> t.region, from |-> t.from, to |-> t.to,
       key |-> TimeoutIdentity(t.region, EffectiveEntries(Machine, e)[t.region].seq),
       params |-> e.context, ts |-> now,
       states |-> cascade.states, fired |-> cascade.fired, context |-> e.context] :
         cascade \in IF Machine.parallel THEN ApplyJoins(Machine, moved)
                     ELSE {[states |-> moved, fired |-> <<>>]}}

FireTimeout(s) ==
  /\ phase[s] = "tx"
  /\ StillDue(snap[s], Machine.transitions[cursor[s]], tick[s])
  /\ \E spec \in TimeoutWrites(snap[s], Machine.transitions[cursor[s]], tick[s]) :
       WriteEntity(s, spec, "scan")

DispatchTimeout(s) == Dispatch(s, "none", "scan")

-----------------------------------------------------------------------------
RequestStep(p) ==
  \/ LoadExisting(p) \/ AnswerNotFound(p) \/ LoadMissing(p) \/ CreateEntity(p)
  \/ BeginTx(p) \/ RefuseRequest(p)
  \/ AnswerDuplicate(p) \/ AnswerIdentityConflict(p) \/ AnswerNoTransition(p)
  \/ ApplyEvent(p) \/ ReturnActions(p) \/ DispatchEvent(p)

SchedulerStep(s) ==
  \/ StartTick(s) \/ EndTick(s) \/ Scan(s) \/ BeginFire(s) \/ RefuseFire(s)
  \/ SkipTimeout(s) \/ FireTimeout(s) \/ DispatchTimeout(s)

Next ==
  \/ Tick
  \/ \E p \in Requests : RequestStep(p) \/ \E ev \in Events : Submit(p, ev)
  \/ \E s \in Schedulers : SchedulerStep(s)
  \/ \E w \in Workers : Crash(w)

Spec == Init /\ [][Next]_vars

\* The runtime keeps polling a task that can run, and the scheduler's loop
\* never ends.  Nothing obliges a client to submit or a process to crash.
Fairness ==
  /\ \A p \in Requests : WF_vars(RequestStep(p))
  /\ \A s \in Schedulers : WF_vars(SchedulerStep(s))

FairSpec == Spec /\ Fairness

-----------------------------------------------------------------------------
(* Properties.                                                             *)

\* Rows the current engine wrote (legacy rows have no identity), and the first
\* row of each of its writes.
Tracked  == {i \in DOMAIN history : history[i].key # NoIdentity}
MainRows == {i \in Tracked : history[i].key.kind # "join"}

\* The id of the last of `rows` that moved region r before row n, or 0.
LastRowBefore(rows, r, n) ==
  LET before == {i \in rows : history[i].region = r /\ i < n}
  IN IF before = {} THEN 0 ELSE CHOOSE i \in before : \A j \in before : j <= i

CurrentEntries == EffectiveEntries(Machine, entity)

StoreOK ==
  /\ entity = NoEntity \/ IsEntity(entity, clock)
  /\ IsSeq(history)
  /\ sent \in Seq(Nat) /\ Len(sent) = Len(history)
  /\ clock \in 1..MaxClock

WorkersOK ==
  /\ lock \in Workers \union {NoOne}
  /\ phase \in [Workers -> {"idle", "load", "create", "begin", "scan", "fire", "tx", "dispatch"}]
  /\ DOMAIN snap = Workers
  /\ request \in [Requests -> Events]
  /\ reply \in [Workers -> {"none", "applied", "duplicate", "identity_conflict",
                            "no_transition", "not_found", "locked", "conflict"}]
  /\ tick \in [Schedulers -> 0..MaxClock]
  /\ cursor \in [Schedulers -> 0..Len(Machine.transitions)]
  /\ batch \in [Workers -> 0..Len(history)]
  /\ submits \in 0..MaxSubmits
  /\ crashes \in 0..MaxCrashes

\* Every variable keeps its type: the row is absent or complete, with an
\* instance for each region that is not newer than the row or the clock; a
\* pending batch names a committed row.
TypeOK == StoreOK /\ WorkersOK

\* The version check of update_entity and the unique index on identity_key are
\* guards that are "not expected" to bite while every writer re-reads the row
\* under the write lock: no request and no tick is ever answered CONFLICT,
\* whatever else happened since it loaded the entity or chose its candidate.
NoWriterConflict == \A w \in Workers : reply[w] # "conflict"

\* region_entries is an index of the history: the current instance of every
\* region is the one the last committed row of that region entered (same row,
\* state and server time), and an instance no row entered is the creation or a
\* legacy one.  Writes and joins of other regions never move it.
EntriesMatchHistory ==
  entity # NoEntity =>
    \A r \in Regions :
      LET entry == CurrentEntries[r]
          last  == LastRowBefore(Tracked, r, Len(history) + 1)
      IN IF last = 0
         THEN entry.row = 0 /\ entry.basis # "transition"
         ELSE /\ entry.row = last
              /\ entry.state = history[last].to
              /\ entry.entered_at = history[last].at
              /\ entry.basis = "transition"

\* seq is the state_version of the write that entered the instance: the version
\* exceeds it by exactly the number of writes committed after that write.
SeqIsEnteringVersion ==
  entity # NoEntity =>
    \A r \in Regions :
      entity.version - CurrentEntries[r].seq
        = Cardinality({i \in MainRows : i > CurrentEntries[r].row})

\* A $timeout row is only ever written for the instance its region was in, and
\* never before that instance was timeout_ms old, even when the tick that fired
\* it read its clock and its candidates long before its transaction.
TimeoutsAreDue ==
  \A i \in {k \in MainRows : history[k].type = "$timeout"} :
    LET row  == history[i]
        prev == LastRowBefore(DOMAIN history, row.region, i)
        entered_at == IF prev = 0 THEN entity.created_at ELSE history[prev].at
    IN \E n \in DOMAIN Machine.transitions :
         /\ IsTimeout(n)
         /\ Machine.transitions[n].region = row.region
         /\ Machine.transitions[n].from = row.from
         /\ Machine.transitions[n].to = row.to
         /\ prev # 0 => row.from = history[prev].to
         /\ row.ts >= entered_at + Machine.transitions[n].guard.ms

\* An answer tells the client the truth for good: after "applied" or
\* "duplicate" the history holds the event with equal parameters, after
\* EVENT_IDENTITY_CONFLICT it holds the identity with different ones, and no
\* identity is ever recorded twice by the engine.
AnswersAreTruthful ==
  /\ \A p \in Requests :
       LET same(equal) == \E i \in SameIdentity(history, request[p]) :
                            (history[i].params = request[p].params) = equal
       IN /\ reply[p] \in {"applied", "duplicate"} => same(TRUE)
          /\ reply[p] = "identity_conflict" => same(FALSE) /\ ~ same(TRUE)
  /\ \A i, j \in Tracked : history[i].key = history[j].key => i = j

\* Effects follow commits: only the main row of a committed write is ever
\* dispatched, at most once, however often the client replays the event and
\* whichever process crashes in between.
DispatchedAtMostOnce ==
  \A i \in DOMAIN history :
    /\ sent[i] <= 1
    /\ sent[i] = 1 => i \in MainRows
    /\ sent[i] + Cardinality({w \in Workers : batch[w] = i}) <= 1

\* The history only grows, by one whole write at a time, and the entity row
\* moves exactly with it: a step that adds rows adds one main row followed by
\* its joins and one version, and a step that adds none leaves the row alone.
OneWritePerStep ==
  [][ /\ Len(history') >= Len(history)
      /\ SubSeq(history', 1, Len(history)) = history
      /\ IF history' = history
         THEN entity' = entity \/ entity = NoEntity
         ELSE /\ entity'.version = entity.version + 1
              /\ MainRows' \ MainRows = {Len(history) + 1}
    ]_vars

\* A timer that is due does not stay due: a tick fires it, or a transition ends
\* the instance, however ticks and requests collide on the write lock.
DueTimersFire ==
  \A n \in DOMAIN Machine.transitions :
    LET t == Machine.transitions[n]
        due == IsTimeout(n) /\ StillDue(entity, t, clock)
    IN due ~> ~ due

\* Where every request asks for dispatch, every committed write's actions are
\* dispatched as long as no process crashes: the batch outlives the transaction, the answer and later writes.
EveryWriteIsDispatched ==
  \A i \in 1..MaxClock + MaxSubmits :
    i \in MainRows ~> (i \in DOMAIN sent /\ sent[i] = 1)
=============================================================================
