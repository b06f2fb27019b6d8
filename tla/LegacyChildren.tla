--------------------------- MODULE LegacyChildren ---------------------------
(***************************************************************************)
(* Legacy compound states: an event its entity has no transition for is    *)
(* forwarded to the children of the entity's compound states, in region    *)
(* order, until one of them handles it.  The child is created by the first *)
(* event that is forwarded to it and is never reset; when it reaches a     *)
(* final state its parent advances.  A child may also be written directly, *)
(* by a client or by its own timers, and its parent learns of it only from *)
(* the next event it forwards ("recovery").                                *)
(*                                                                         *)
(* As in ManagedChildren, whole transactions run one after the other under *)
(* the write lock, `todo` is the stack of calls the running one still      *)
(* makes, and readers see `entities` and `history`, which only Commit      *)
(* changes.  Rows of all entities share one sequence of ids, the indices   *)
(* of `history`.  Time is left out: a timer may be due whenever its region *)
(* is in its state.                                                        *)
(***************************************************************************)
EXTENDS RegionEngine

\* A machine definition has two fields more than in RegionEngine:
\*   regions   sequence of the region names, in definition order
\*   subs      function from <<region, state>> pairs to the sub-machine of that
\*             compound state: [machine, on_final], with on_final a function
\*             from child states to states of the region
CONSTANTS
  Defs,             \* function from machine ids to definitions
  Addressees,       \* entities clients create and address: [machine, path]
  Events,           \* events clients submit: [type, ts, params]
  Stores,           \* what the database may hold at first: [entities, history]
  MaxTransactions   \* bound on the number of transactions

\* An entity id is the sequence of compound states below the root id; a row is
\* found by machine and id.
IsCompound(k, region, state) == <<region, state>> \in DOMAIN Defs[k.machine].subs

SubOf(k, region, state) == Defs[k.machine].subs[<<region, state>>]

ChildKey(k, region, state) ==
  [machine |-> SubOf(k, region, state).machine, path |-> Append(k.path, state)]

\* validate(): a definition's regions are distinct and a join moves one of them
\* (a flat definition's joins are not validated; RegionEngine has no others).
\* Each compound state name lies in one region (the code does not ask for it, and
\* two regions then share a child).
ASSUME DefsAssumption ==
  \A id \in DOMAIN Defs :
    LET m == Defs[id] IN
      /\ IsSeq(m.regions) /\ IsSeq(m.joins)
      /\ {m.regions[i] : i \in DOMAIN m.regions} = DOMAIN m.initial
      /\ Cardinality(DOMAIN m.initial) = Len(m.regions)
      /\ \A i \in DOMAIN m.joins : m.joins[i].target_region \in DOMAIN m.initial
      /\ \A c, d \in DOMAIN m.subs : c[2] = d[2] => c = d
      /\ \A c \in DOMAIN m.subs : c[1] \in DOMAIN m.initial /\ m.subs[c].machine \in DOMAIN Defs

\* The names of entities: a machine, and compound states below the root.
StateNames == UNION {{c[2] : c \in DOMAIN Defs[id].subs} : id \in DOMAIN Defs}
Keys == [machine : DOMAIN Defs, path : Seq(StateNames)]

\* A request whose machine is not registered is answered 404 before it gets here.
ASSUME AddresseesAssumption == Addressees \subseteq Keys

ASSUME BoundsAssumption == MaxTransactions \in Nat

VARIABLES
  entities,      \* committed rows of `entities`, by machine and id
  history,       \* committed rows of `transitions`
  work,          \* the running transaction's view of `entities`
  rows,          \* the running transaction's view of `transitions`
  todo,          \* calls the running transaction still makes, innermost first
  phase,         \* "tx" while a transaction runs, else "idle"
  request,       \* what the running or last transaction was asked to do
  reply,         \* its answer (so far); "applied" once some entity handled it
  transactions   \* transactions begun

committed == <<entities, history>>
vars == <<entities, history, work, rows, todo, phase, request, reply, transactions>>

-----------------------------------------------------------------------------
(* Rows.                                                                   *)

\* The clock of the rows, which no decision of this module reads.
Now == 0

NewEntity(m) ==
  [states |-> m.initial, context |-> <<>>, version |-> 1, created_at |-> Now,
   updated_at |-> Now, stored |-> InitialEntries(m.initial, Now)]

Insert(table, k, e) == [j \in DOMAIN table \union {k} |-> IF j = k THEN e ELSE table[j]]

RegionsOf(k) == Defs[k.machine].regions

Entry(k, e, region) == EffectiveEntries(Defs[k.machine], e)[region]

\* Mutant of SubCompleteIdentity: one completion per compound state.
SubCompleteIdentityOfState(region, state, seq) ==
  [kind |-> "sub", name |-> region, n |-> 0, step |-> 0, state |-> state]

SubCompleteIdentity(region, state, seq) ==
  [kind |-> "sub", name |-> region, n |-> seq, step |-> 0, state |-> state]

NoCause == [via |-> "none", entered |-> 0, child |-> 0]

RowsOf(table, k) == {i \in DOMAIN table : table[i].at = k}

\* The last of a set of row ids, or 0.
LastId(ids) == IF ids = {} THEN 0 ELSE CHOOSE i \in ids : \A j \in ids : j <= i

\* A flat child is final in the states on_final names; the map of a parallel
\* child is never one of them.
IsFinal(e, sub) ==
  DOMAIN e.states = {DefaultRegion} /\ e.states[DefaultRegion] \in DOMAIN sub.on_final

\* The row that entered the current instance of a compound state, as a set that
\* is empty when it is unknown: the entry's own row, creation (row 0), or the
\* last row of the region that entered the state under an older engine.
EnteringRow(table, k, e, region) ==
  LET entry   == Entry(k, e, region)
      entered == LastId({i \in RowsOf(table, k) :
                           table[i].region = region /\ table[i].to = entry.state})
  IN IF entry.row # 0 THEN {entry.row}
     ELSE IF entry.basis = "created" THEN {0}
     ELSE IF entered # 0 \/ e.version <= 1 THEN {entered}
     ELSE {}

\* The last row that moved a region, or 0.
LastOf(table, k, region) == LastId({i \in RowsOf(table, k) : table[i].region = region})

\* What an engine without entries left of an entity: its last row of each region
\* leads to where the region is, and its version counts more than the creation
\* once it has rows.
Untracked(k, e, log) ==
  /\ e = [states |-> e.states, context |-> e.context, version |-> e.version,
          created_at |-> e.created_at, updated_at |-> e.updated_at, stored |-> NoEntries]
  /\ DOMAIN e.states = DOMAIN Defs[k.machine].initial
  /\ e.version \in Nat \ {0}
  /\ RowsOf(log, k) # {} => e.version > 1
  /\ \A i \in RowsOf(log, k) : log[i].region \in DOMAIN e.states
  /\ \A region \in DOMAIN e.states :
       LET last == LastOf(log, k, region) IN last # 0 => log[last].to = e.states[region]

\* The database is empty or comes from such an engine.
ASSUME StoresAssumption ==
  \A s \in Stores :
    /\ IsSeq(s.history)
    /\ DOMAIN s.entities \subseteq Keys
    /\ \A i \in DOMAIN s.history : s.history[i].key = NoIdentity /\ s.history[i].at \in DOMAIN s.entities
    /\ \A k \in DOMAIN s.entities : Untracked(k, s.entities[k], s.history)

-----------------------------------------------------------------------------
(* The calls of a transaction.                                             *)

EventCall(k, nested) == [op |-> "event", at |-> k, nested |-> nested]
ForwardCall(k, region, state) == [op |-> "forward", at |-> k, region |-> region, state |-> state]
AfterCall(k, region, state) == [op |-> "after", at |-> k, region |-> region, state |-> state]

\* The innermost call left is one of this kind.
Running(op) == phase = "tx" /\ todo # <<>> /\ Head(todo).op = op

\* The current call returns; it made `calls` before.
Return(calls) ==
  /\ todo' = calls \o Tail(todo)
  /\ UNCHANGED <<committed, phase, request, transactions>>

ReturnOnly(calls) == Return(calls) /\ UNCHANGED <<work, rows, reply>>

\* An error: the dropped transaction rolls back.
Fail(code) ==
  /\ phase' = "idle"
  /\ work' = entities
  /\ rows' = history
  /\ todo' = <<>>
  /\ reply' = code
  /\ UNCHANGED <<committed, request, transactions>>

NewRows(k, spec, version) ==
  <<[at |-> k, type |-> spec.type, ts |-> spec.ts, params |-> spec.params, key |-> spec.key,
     region |-> spec.region, from |-> spec.from, to |-> spec.to, cause |-> spec.cause]>>
  \o [j \in DOMAIN spec.fired |->
        [at |-> k, type |-> "$join", ts |-> spec.ts, params |-> <<>>,
         key |-> JoinIdentity(spec.fired[j].region, version, j - 1),
         region |-> spec.fired[j].region, from |-> spec.fired[j].from,
         to |-> spec.fired[j].to, cause |-> NoCause]]

\* write_entity of an entity with legacy children: only its own rows.
WriteEntity(k, spec, answer) ==
  LET e       == work[k]
      version == e.version + 1
      new     == NewRows(k, spec, version)
      entered == [j \in DOMAIN new |->
                    [region |-> new[j].region, state |-> new[j].to, row |-> Len(rows) + j]]
      stored  == AdvanceEntries(EffectiveEntries(Defs[k.machine], e), spec.states, entered, version, Now)
  IN IF \E i \in DOMAIN new, j \in RowsOf(rows, k) : new[i].key = rows[j].key
     THEN Fail("conflict")
     ELSE /\ rows' = rows \o new
          /\ work' = [work EXCEPT ![k] = [e EXCEPT !.states = spec.states, !.context = spec.context,
                                                   !.version = version, !.stored = stored]]
          /\ reply' = answer
          /\ Return(<<>>)

-----------------------------------------------------------------------------
(* Events.                                                                 *)

SameIdentity(k, ev) == {i \in RowsOf(rows, k) : rows[i].type = ev.type /\ rows[i].ts = ev.ts}

Dedup(k, ev) ==
  IF SameIdentity(k, ev) = {} THEN "new"
  ELSE IF \E i \in SameIdentity(k, ev) : rows[i].params = ev.params
       THEN "duplicate" ELSE "identity_conflict"

MatchOf(k, ev) == Evaluate(Defs[k.machine], work[k].states, work[k].context, ev.type, ev.params)

\* transition_in_tx.  A child that answers "duplicate" did not handle the event;
\* the caller goes on.
AnswerDuplicate ==
  /\ Running("event")
  /\ Dedup(Head(todo).at, request.event) = "duplicate"
  /\ Return(<<>>)
  /\ reply' = IF Head(todo).nested THEN reply ELSE "duplicate"
  /\ UNCHANGED <<work, rows>>

AnswerIdentityConflict ==
  /\ Running("event")
  /\ Dedup(Head(todo).at, request.event) = "identity_conflict"
  /\ Fail("identity_conflict")

EventWrites(e, ev, t, m) ==
  {[type |-> ev.type, region |-> t.region, from |-> t.from, to |-> t.to,
    key |-> EventIdentity(ev.type, ev.ts), params |-> ev.params, ts |-> ev.ts, cause |-> NoCause,
    states |-> cascade.states, fired |-> cascade.fired, context |-> Merge(ev.params, e.context)] :
      cascade \in ApplyJoins(m, [e.states EXCEPT ![t.region] = t.to])}

ApplyEvent ==
  /\ Running("event")
  /\ LET k == Head(todo).at
     IN /\ Dedup(k, request.event) = "new"
        /\ \E t \in MatchOf(k, request.event) :
             \E spec \in EventWrites(work[k], request.event, t, Defs[k.machine]) :
               WriteEntity(k, spec, "applied")

\* No transition: try_sub_machine_forward visits the regions in order.
NoTransition ==
  /\ Running("event")
  /\ LET k == Head(todo).at
     IN /\ Dedup(k, request.event) = "new"
        /\ MatchOf(k, request.event) = {}
        /\ ReturnOnly([i \in DOMAIN RegionsOf(k) |->
                         LET r == RegionsOf(k)[i] IN ForwardCall(k, r, work[k].states[r])])

\* Mutant of Handled: the loop over the regions does not stop.
NeverHandled == FALSE

Handled == reply = "applied"

\* A state without sub-machine, or a region after the one that handled the event.
PassOver ==
  /\ Running("forward")
  /\ LET call == Head(todo)
     IN Handled \/ ~ IsCompound(call.at, call.region, call.state)
  /\ ReturnOnly(<<>>)

HeadSub == SubOf(Head(todo).at, Head(todo).region, Head(todo).state)
HeadChild == ChildKey(Head(todo).at, Head(todo).region, Head(todo).state)

\* handle_sub_machine_event is called.
Forwarding ==
  /\ Running("forward")
  /\ ~ Handled
  /\ LET call == Head(todo) IN IsCompound(call.at, call.region, call.state)

\* load_or_create_child_entity: the call goes on with the new row.
CreateChild ==
  /\ Forwarding
  /\ HeadChild \notin DOMAIN work
  /\ work' = Insert(work, HeadChild, NewEntity(Defs[HeadChild.machine]))
  /\ UNCHANGED <<committed, rows, todo, phase, request, reply, transactions>>

FinalChild == Forwarding /\ HeadChild \in DOMAIN work /\ IsFinal(work[HeadChild], HeadSub)

\* Mutant of OpenChild: the event is forwarded whatever the child's state is.
AnyChild == Forwarding /\ HeadChild \in DOMAIN work

OpenChild  == Forwarding /\ HeadChild \in DOMAIN work /\ ~ IsFinal(work[HeadChild], HeadSub)

\* Mutant of Correlates: the parent's entry is not compared.
CorrelatesChild(k, region, child) ==
  LET last == LastId(RowsOf(rows, child))
  IN last # 0 /\ rows[last].to = work[child].states[DefaultRegion]

\* correlate_child_final: the child's last row entered its final state, and is
\* newer than the row that entered the parent's instance.
Correlates(k, region, child) ==
  LET last == LastId(RowsOf(rows, child))
  IN /\ last # 0 /\ rows[last].to = work[child].states[DefaultRegion]
     /\ \E entered \in EnteringRow(rows, k, work[k], region) : last > entered

RefuseUncorrelated ==
  /\ FinalChild
  /\ ~ Correlates(Head(todo).at, Head(todo).region, HeadChild)
  /\ Fail("uncorrelated_child_final")

\* advance_parent_state.
AdvanceWrites(call, ev, target, cause) ==
  LET e == work[call.at]
      m == Defs[call.at.machine]
  IN {[type |-> "$sub_complete", region |-> call.region, from |-> call.state, to |-> target,
       key |-> SubCompleteIdentity(call.region, call.state, EffectiveEntries(m, e)[call.region].seq),
       params |-> <<>>, ts |-> ev.ts, cause |-> cause,
       states |-> cascade.states, fired |-> cascade.fired, context |-> e.context] :
         cascade \in ApplyJoins(m, [e.states EXCEPT ![call.region] = target])}

AdvanceParent(via, entered) ==
  LET target == HeadSub.on_final[work[HeadChild].states[DefaultRegion]]
      cause  == [via |-> via, entered |-> entered, child |-> LastId(RowsOf(rows, HeadChild))]
  IN \E spec \in AdvanceWrites(Head(todo), request.event, target, cause) :
       WriteEntity(Head(todo).at, spec, "applied")

\* The child was final before the event, which is consumed.
Recover ==
  /\ FinalChild
  /\ LET call == Head(todo)
     IN /\ Correlates(call.at, call.region, HeadChild)
        /\ \E entered \in EnteringRow(rows, call.at, work[call.at], call.region) :
             AdvanceParent("recovery", entered)

\* Mutant of ForwardToChild: the parent does not look at what became of it.
ForwardAndForget ==
  /\ OpenChild
  /\ ReturnOnly(<<EventCall(HeadChild, TRUE)>>)

ForwardToChild ==
  /\ OpenChild
  /\ LET call == Head(todo)
     IN ReturnOnly(<<EventCall(HeadChild, TRUE), AfterCall(call.at, call.region, call.state)>>)

\* The child did not handle the event, or is not final yet.
ChildStays ==
  /\ Running("after")
  /\ reply # "applied" \/ ~ IsFinal(work[HeadChild], HeadSub)
  /\ ReturnOnly(<<>>)

ChildCompletes ==
  /\ Running("after")
  /\ reply = "applied"
  /\ IsFinal(work[HeadChild], HeadSub)
  /\ LET call == Head(todo) IN AdvanceParent("forward", Entry(call.at, work[call.at], call.region).row)

-----------------------------------------------------------------------------
(* Timers and creation.                                                    *)

TimerPending(k, t) == t.region \in DOMAIN work[k].states /\ work[k].states[t.region] = t.from

SkipTimeout ==
  /\ Running("timer")
  /\ ~ TimerPending(Head(todo).at, Head(todo).timer)
  /\ ReturnOnly(<<>>)

TimeoutWrites(e, t, m) ==
  LET moved == [e.states EXCEPT ![t.region] = t.to]
  IN {[type |-> "$timeout", region |-> t.region, from |-> t.from, to |-> t.to,
       key |-> TimeoutIdentity(t.region, EffectiveEntries(m, e)[t.region].seq),
       params |-> <<>>, ts |-> Now, cause |-> NoCause, states |-> cascade.states,
       fired |-> cascade.fired, context |-> e.context] :
         cascade \in IF m.parallel THEN ApplyJoins(m, moved)
                     ELSE {[states |-> moved, fired |-> <<>>]}}

\* The scheduler never advances a parent.
FireTimeout ==
  /\ Running("timer")
  /\ LET k == Head(todo).at
         t == Head(todo).timer
     IN /\ TimerPending(k, t)
        /\ \E spec \in TimeoutWrites(work[k], t, Defs[k.machine]) : WriteEntity(k, spec, reply)

\* Creation on demand of the entity a request names: INSERT OR IGNORE.
CreateEntity ==
  /\ Running("create")
  /\ LET k == Head(todo).at
     IN work' = IF k \in DOMAIN work THEN work ELSE Insert(work, k, NewEntity(Defs[k.machine]))
  /\ Return(<<>>)
  /\ UNCHANGED <<rows, reply>>

-----------------------------------------------------------------------------
(* Transactions.                                                           *)

NoEvent == [type |-> "none", ts |-> 0, params |-> <<>>]

Init ==
  /\ \E s \in Stores :
       /\ entities = s.entities /\ work = s.entities
       /\ history = s.history /\ rows = s.history
  /\ todo = <<>>
  /\ phase = "idle"
  /\ request = [kind |-> "none", at |-> <<>>, event |-> NoEvent]
  /\ reply = "none"
  /\ transactions = 0

Begin(kind, k, event, call, answer) ==
  /\ phase = "idle"
  /\ transactions < MaxTransactions
  /\ transactions' = transactions + 1
  /\ phase' = "tx"
  /\ request' = [kind |-> kind, at |-> k, event |-> event]
  /\ todo' = <<call>>
  /\ reply' = answer
  /\ UNCHANGED <<committed, work, rows>>

BeginCreate(k) == Begin("create", k, NoEvent, [op |-> "create", at |-> k], "created")

\* execute_transition, on the root or straight on a child.
BeginEvent(k, ev) ==
  /\ k \in DOMAIN entities
  /\ Begin("event", k, ev, EventCall(k, FALSE), "no_transition")

BeginTimer(k, t) ==
  /\ t.on = "$timeout"
  /\ t.guard.kind = "timeout"
  /\ Begin("timer", k, NoEvent, [op |-> "timer", at |-> k, timer |-> t], "none")

Commit ==
  /\ phase = "tx"
  /\ todo = <<>>
  /\ phase' = "idle"
  /\ entities' = work
  /\ history' = rows
  /\ UNCHANGED <<work, rows, todo, request, reply, transactions>>

\* The process dies inside the transaction.
Crash == phase = "tx" /\ Fail("none")

BeginTransaction ==
  \/ \E k \in Addressees : BeginCreate(k) \/ \E ev \in Events : BeginEvent(k, ev)
  \/ \E k \in DOMAIN entities :
       \E n \in DOMAIN Defs[k.machine].transitions : BeginTimer(k, Defs[k.machine].transitions[n])

Call ==
  \/ AnswerDuplicate \/ AnswerIdentityConflict \/ ApplyEvent \/ NoTransition
  \/ PassOver \/ CreateChild \/ RefuseUncorrelated \/ Recover \/ ForwardToChild
  \/ ChildStays \/ ChildCompletes \/ SkipTimeout \/ FireTimeout \/ CreateEntity

Next == BeginTransaction \/ Call \/ Commit \/ Crash

Spec == Init /\ [][Next]_vars

-----------------------------------------------------------------------------
(* Properties.                                                             *)

\* A final child whose parent has not learnt of it: the child's last row entered
\* the final state after the parent entered the compound state.
Pending(table, log, k, region) ==
  LET e == table[k]
  IN /\ IsCompound(k, region, e.states[region])
     /\ LET child == ChildKey(k, region, e.states[region])
            last  == LastId(RowsOf(log, child))
        IN /\ child \in DOMAIN table
           /\ IsFinal(table[child], SubOf(k, region, e.states[region]))
           /\ last # 0
           /\ \E entered \in EnteringRow(log, k, e, region) : last > entered

\* A parent never completes on the evidence of an earlier visit.  Although the
\* child is kept when its compound state is left and entered again, every
\* $sub_complete row follows a row of the child that entered the final state it
\* stands for, and that row is newer than the one by which the parent entered
\* the state; the recorded cause names these rows.
CompletionsAreCorrelated ==
  \A i \in {j \in DOMAIN history : history[j].type = "$sub_complete"} :
    LET row     == history[i]
        sub     == SubOf(row.at, row.region, row.from)
        child   == history[row.cause.child]
        entered == LastId({j \in RowsOf(history, row.at) : j < i /\ history[j].region = row.region})
    IN /\ row.cause.child \in entered + 1..i - 1
       /\ child.at = ChildKey(row.at, row.region, row.from)
       /\ child.to \in DOMAIN sub.on_final /\ sub.on_final[child.to] = row.to
       /\ row.cause.entered # 0 => row.cause.entered = entered
       /\ entered # 0 => history[entered].to = row.from

\* A completion is overlooked only by those who do not come through the parent:
\* a commit that leaves a parent of an earlier commit with a final child it has
\* not learnt of, and had not left it so, is a timeout's or was addressed to an
\* entity below that parent.
OnlyOutsidersLeavePending ==
  [][ \A k \in DOMAIN entities :
        \A region \in DOMAIN entities'[k].states :
          /\ Pending(entities', history', k, region)
          /\ ~ Pending(entities, history, k, region)
          => \/ request.kind = "timer"
             \/ Len(request.at.path) > Len(k.path) ]_vars

\* Recovery is certain: an entity that answers "no transition" to an event has
\* no final child it could have advanced on, in any region.
NoTransitionMeansNothingPending ==
  phase = "idle" /\ request.kind = "event" /\ reply = "no_transition" =>
    \A region \in DOMAIN entities[request.at].states :
      ~ Pending(entities, history, request.at, region)

\* One event has one effect: whatever it passes on its way down, a commit for an
\* event either adds one row of that event, written by the addressee or below it,
\* or consumes the event in one recovery; every other row it adds is a join, or
\* the completion of an ancestor between that entity and the addressee.
OneHandlerPerEvent ==
  [][ request.kind = "event" /\ history' # history =>
        LET new     == DOMAIN history' \ DOMAIN history
            effects == {i \in new : \/ history'[i].cause.via = "recovery"
                                    \/ /\ history'[i].type = request.event.type
                                       /\ history'[i].ts = request.event.ts}
            below(p, q) == Len(p) > Len(q) /\ SubSeq(p, 1, Len(q)) = q
        IN \E i \in effects :
             /\ effects = {i}
             /\ history'[i].at = request.at \/ below(history'[i].at.path, request.at.path)
             /\ \A j \in new :
                  history'[j].cause.via = "forward" =>
                    /\ below(history'[i].at.path, history'[j].at.path)
                    /\ history'[j].at = request.at \/ below(history'[j].at.path, request.at.path)
    ]_vars

\* The write of a parent's completion never meets the unique index: a compound
\* state that is entered again completes again.
NoWriterConflict == reply # "conflict"

\* README.md: "Replaying a child-handled event at the parent answers 'no
\* transition'."  An event that some descendant has recorded, sent again to the
\* ancestor that forwarded it, is not recorded a second time.  (That a recovery
\* may consume it is documented, and not counted.)
ReplayAnswersNoTransition ==
  [][ LET recorded(log) == {i \in DOMAIN log : /\ log[i].type = request.event.type
                                               /\ log[i].ts = request.event.ts
                                               /\ log[i].params = request.event.params}
      IN request.kind = "event" /\ (\E i \in recorded(history) : history[i].at.path # request.at.path)
           => recorded(history') = recorded(history) ]_vars
=============================================================================
