-------------------------- MODULE ManagedChildren --------------------------
(***************************************************************************)
(* Managed nested instances (statemachine-nested.v1): a root entity, the   *)
(* children its managed compound states own, their children and so on, and *)
(* the transactions that start, complete and cancel them.                  *)
(*                                                                         *)
(* Every transaction holds the database's write lock from its first        *)
(* statement to its COMMIT (TransitionCore models what happens around the  *)
(* lock), so transactions run one after the other here.  What runs step by *)
(* step is the inside of one transaction: `todo` is the stack of calls the *)
(* code still has to make, and each action is one call of one function,    *)
(* which changes the uncommitted rows (`work`, `rows`) and pushes the      *)
(* calls it makes.  No call is optional: the stack says which one is next. *)
(* Readers see `entities` and `history`, which only Commit changes; an     *)
(* error or a crash drops the uncommitted rows.                            *)
(*                                                                         *)
(* Time is left out: TransitionCore is about when a timer is due, here it  *)
(* may be due whenever its region is in its state.                         *)
(***************************************************************************)
EXTENDS RegionEngine

\* A machine definition has two fields more than in RegionEngine:
\*   regions   sequence of the region names, in definition order
\*   managed   function from <<region, state>> pairs to the managed
\*             sub-machine of that compound state: [machine, on_final,
\*             complete_when], with on_final a function from child states to
\*             targets and complete_when a sequence of [when, target].
CONSTANTS
  Defs,             \* function from machine ids to definitions
  RootMachine,      \* machine of the root entity
  Addressees,       \* entities a request may name: [machine, path]
  Targets,          \* targets clients name: sequences of [region, state, seq]
  Events,           \* events clients submit: [type, ts, params]
  MaxDepth,         \* MAX_MANAGED_DEPTH
  MaxTransactions   \* bound on the number of transactions

\* An entity id is the sequence of compound states below the root id
\* ("root::sub::a::sub::b" is <<"a", "b">>); a row is found by machine and id.
Root == [machine |-> RootMachine, path |-> <<>>]

IsCompound(k, region, state) == <<region, state>> \in DOMAIN Defs[k.machine].managed

ManagedSub(k, region, state) == Defs[k.machine].managed[<<region, state>>]

ChildKey(k, region, state) ==
  [machine |-> ManagedSub(k, region, state).machine, path |-> Append(k.path, state)]

ASSUME RootAssumption == RootMachine \in DOMAIN Defs

ASSUME BoundsAssumption == MaxDepth \in Nat /\ MaxTransactions \in Nat

\* The names of entities: a machine, and compound states below the root.
StateNames == UNION {{c[2] : c \in DOMAIN Defs[id].managed} : id \in DOMAIN Defs}
Keys == [machine : DOMAIN Defs, path : Seq(StateNames)]

\* A request whose machine is not registered is answered 404 before it gets
\* here, and a target is the list its body holds.
ASSUME RequestsAssumption == Addressees \subseteq Keys /\ \A target \in Targets : IsSeq(target)

\* validate(): a definition's regions are distinct, its managed states lie in
\* one region, and a rule names every region of the child.
ASSUME DefsAssumption ==
  \A id \in DOMAIN Defs :
    LET m == Defs[id] IN
      /\ IsSeq(m.regions) /\ IsSeq(m.joins)
      /\ {m.regions[i] : i \in DOMAIN m.regions} = DOMAIN m.initial
      /\ Cardinality(DOMAIN m.initial) = Len(m.regions)
      /\ \A c, d \in DOMAIN m.managed : c[2] = d[2] => c = d
      /\ \A c \in DOMAIN m.managed :
           /\ c[1] \in DOMAIN m.initial
           /\ m.managed[c].machine \in DOMAIN Defs
           /\ \A i \in DOMAIN m.managed[c].complete_when :
                DOMAIN m.managed[c].complete_when[i].when
                  = DOMAIN Defs[m.managed[c].machine].initial

VARIABLES
  entities,      \* committed rows of `entities`, by machine and id
  history,       \* committed rows of `transitions`
  work,          \* the running transaction's view of `entities`
  rows,          \* the running transaction's view of `transitions`
  todo,          \* calls the running transaction still makes, innermost first
  phase,         \* "tx" while a transaction runs, else "idle"
  request,       \* what the running or last transaction was asked to do
  reply,         \* its answer (so far)
  transactions   \* transactions begun

committed == <<entities, history>>
vars == <<entities, history, work, rows, todo, phase, request, reply, transactions>>

-----------------------------------------------------------------------------
(* Rows.                                                                   *)

\* entities.instance of a root (NULL).
NotManaged == [status |-> "none", depth |-> 0]

Active(k, owner, region, state, seq, depth) ==
  [status |-> "active", depth |-> depth,
   link |-> [owner |-> owner, region |-> region, state |-> state, seq |-> seq]]

\* Mutant of Live: a cancelled child may still be written.
LiveUnlessCompleted(e) == e.instance.status # "completed"

\* Roots and active instances may be written.
Live(e) == e.instance.status \in {"none", "active"}

Entries(k, e) == EffectiveEntries(Defs[k.machine], e)

\* The clock of the rows, which no decision of this module reads.
Now == 0

NewEntity(k, instance) ==
  [states |-> Defs[k.machine].initial, context |-> <<>>, version |-> 1,
   created_at |-> Now, updated_at |-> Now,
   stored |-> InitialEntries(Defs[k.machine].initial, Now), instance |-> instance]

Insert(table, k, e) == [j \in DOMAIN table \union {k} |-> IF j = k THEN e ELSE table[j]]

SubCompleteIdentity(region, state, seq) ==
  [kind |-> "sub", name |-> region, n |-> seq, step |-> 0, state |-> state]

CancelIdentity(seq) == [kind |-> "cancel", name |-> "", n |-> seq, step |-> 0]

\* The unique index: one row of an entity per identity.
Taken(k, key) == \E i \in DOMAIN rows : rows[i].at = k /\ rows[i].key = key

\* on_final of a flat child, then the first satisfied rule; as a set that is
\* empty when the child is not complete.
CompletionTarget(sub, states) ==
  LET satisfied == {i \in DOMAIN sub.complete_when :
                      LET when == sub.complete_when[i].when
                      IN \A r \in DOMAIN when : r \in DOMAIN states /\ states[r] = when[r]}
  IN IF DOMAIN states = {DefaultRegion} /\ states[DefaultRegion] \in DOMAIN sub.on_final
     THEN {sub.on_final[states[DefaultRegion]]}
     ELSE {sub.complete_when[i].target : i \in {j \in satisfied : \A k \in satisfied : j <= k}}

-----------------------------------------------------------------------------
(* The calls of a transaction.                                             *)

EventCall(k, forward, nested) == [op |-> "event", at |-> k, forward |-> forward, nested |-> nested]
ForwardCall(k, region, state) == [op |-> "forward", at |-> k, region |-> region, state |-> state]
StartCall(k, region, state, seq) ==
  [op |-> "start", at |-> k, region |-> region, state |-> state, seq |-> seq]
CancelCall(k, region, state) == [op |-> "cancel", at |-> k, region |-> region, state |-> state]
EndCall(k) == [op |-> "end", at |-> k]
CompleteCall(k, target) == [op |-> "complete", at |-> k, target |-> target]
VisitCall(k, region, old, new, ended) ==
  [op |-> "visit", at |-> k, region |-> region, old |-> old, new |-> new, ended |-> ended]


RegionsOf(k) == Defs[k.machine].regions

\* The innermost call left is one of this kind.
Running(op) == phase = "tx" /\ todo # <<>> /\ Head(todo).op = op

\* The current call returns; it made `calls` before.
Return(calls) ==
  /\ todo' = calls \o Tail(todo)
  /\ UNCHANGED <<committed, phase, request, transactions>>

\* An error: the dropped transaction rolls back.
Fail(code) ==
  /\ phase' = "idle"
  /\ work' = entities
  /\ rows' = history
  /\ todo' = <<>>
  /\ reply' = code
  /\ UNCHANGED <<committed, request, transactions>>

-----------------------------------------------------------------------------
(* write_entity and the lifecycle it runs.                                 *)

MainRow(k, spec) ==
  [at |-> k, type |-> spec.type, ts |-> spec.ts, params |-> spec.params, key |-> spec.key]

JoinRow(k, ts, join, version, step) ==
  [at |-> k, type |-> "$join", ts |-> ts, params |-> <<>>,
   key |-> JoinIdentity(join.region, version, step)]

WrittenRows(k, spec, version) ==
  <<MainRow(k, spec)>>
  \o [j \in DOMAIN spec.fired |-> JoinRow(k, spec.ts, spec.fired[j], version, j - 1)]

\* The regions the main row and the joins entered.
Entered(spec, first) ==
  <<[region |-> spec.region, state |-> spec.to, row |-> first]>>
  \o [j \in DOMAIN spec.fired |->
        [region |-> spec.fired[j].region, state |-> spec.fired[j].to, row |-> first + j]]

\* Mutant of Completion: the rules see the states before the write.
CompletionOfOldStates(e, states) ==
  IF e.instance = NotManaged THEN {}
  ELSE LET link == e.instance.link
       IN CompletionTarget(ManagedSub(link.owner, link.region, link.state), e.states)

\* Where a write that leads to `states` takes the parent of an active child.
Completion(e, states) ==
  IF e.instance = NotManaged THEN {}
  ELSE LET link == e.instance.link
       IN CompletionTarget(ManagedSub(link.owner, link.region, link.state), states)

\* The write is the last thing its caller does, so nothing else is left of
\* `todo`: then the lifecycle of each region and the completion of the parent.
WriteEntity(k, spec, answer) ==
  LET e       == work[k]
      version == e.version + 1
      new     == WrittenRows(k, spec, version)
      old     == Entries(k, e)
      stored  == AdvanceEntries(old, spec.states, Entered(spec, Len(rows) + 1), version, Now)
      target  == Completion(e, spec.states)
      ended   == target # {}
  IN IF \E i \in DOMAIN new : Taken(k, new[i].key) THEN Fail("conflict")
     ELSE IF ~ Live(e) THEN Fail("instance_not_active")
     ELSE /\ rows' = rows \o new
          /\ work' = [work EXCEPT ![k] =
                        [e EXCEPT !.states = spec.states, !.context = spec.context,
                                  !.version = version, !.stored = stored,
                                  !.instance = IF ended THEN [@ EXCEPT !.status = "completed"]
                                               ELSE @]]
          /\ todo' = [i \in DOMAIN RegionsOf(k) |->
                        LET r == RegionsOf(k)[i]
                        IN VisitCall(k, r, old[r], stored.regions[r], ended)]
                     \o (IF ended THEN <<CompleteCall(k, CHOOSE t \in target : TRUE)>> ELSE <<>>)
          /\ reply' = answer
          /\ UNCHANGED <<committed, phase, request, transactions>>

\* What a visit calls when the region's entry is new, or is not.
VisitCalls(call, changed) ==
  (IF changed \/ call.ended THEN <<CancelCall(call.at, call.region, call.old.state)>> ELSE <<>>)
  \o (IF changed /\ ~ call.ended
      THEN <<StartCall(call.at, call.region, call.new.state, call.new.seq)>> ELSE <<>>)

\* Mutant of Visit: an entry counts as new only when the state differs.
VisitOnNewState ==
  /\ Running("visit")
  /\ Return(VisitCalls(Head(todo), Head(todo).old.state # Head(todo).new.state))
  /\ UNCHANGED <<work, rows, reply>>

\* One region of apply_child_lifecycle.
Visit ==
  /\ Running("visit")
  /\ Return(VisitCalls(Head(todo), Head(todo).old.seq # Head(todo).new.seq))
  /\ UNCHANGED <<work, rows, reply>>

\* start_child, for a state that may have no managed child.
SkipStart ==
  /\ Running("start")
  /\ LET call == Head(todo) IN ~ IsCompound(call.at, call.region, call.state)
  /\ Return(<<>>)
  /\ UNCHANGED <<work, rows, reply>>

\* start_child: create-only, and not beyond the depth bound.
StartChildWithin(bound) ==
  /\ Running("start")
  /\ LET call  == Head(todo)
         child == ChildKey(call.at, call.region, call.state)
         depth == work[call.at].instance.depth + 1
     IN /\ IsCompound(call.at, call.region, call.state)
        /\ IF depth > bound THEN Fail("nesting_depth_exceeded")
           ELSE IF child \in DOMAIN work THEN Fail("instance_conflict")
           ELSE /\ work' = Insert(work, child,
                             NewEntity(child, Active(child, call.at, call.region, call.state, call.seq, depth)))
                /\ Return([i \in DOMAIN RegionsOf(child) |->
                             LET r == RegionsOf(child)[i]
                             IN StartCall(child, r, Defs[child.machine].initial[r], 1)])
                /\ UNCHANGED <<rows, reply>>

\* Mutant of StartChild: the depth bound is off by one.
StartChildOneDeeper == StartChildWithin(MaxDepth + 1)

\* Mutant of StartChild: a child that is there already is taken over.
AdoptChild ==
  LET call == Head(todo)
  IN \/ /\ Running("start")
        /\ IsCompound(call.at, call.region, call.state)
        /\ ChildKey(call.at, call.region, call.state) \in DOMAIN work
        /\ Return(<<>>)
        /\ UNCHANGED <<work, rows, reply>>
     \/ /\ Running("start")
        /\ IsCompound(call.at, call.region, call.state)
             => ChildKey(call.at, call.region, call.state) \notin DOMAIN work
        /\ StartChildWithin(MaxDepth)

\* Mutant of StartChild: it waits for the child's id to become free.
StartChildWhenFree ==
  /\ Running("start")
  /\ LET call == Head(todo)
     IN IsCompound(call.at, call.region, call.state)
          => ChildKey(call.at, call.region, call.state) \notin DOMAIN work
  /\ StartChildWithin(MaxDepth)

StartChild == StartChildWithin(MaxDepth)

\* Mutant of ActiveChild: only a cancelled child is left alone.
ChildNotCancelled(k, region, state) ==
  IF ~ IsCompound(k, region, state) THEN {}
  ELSE {child \in {ChildKey(k, region, state)} \intersect DOMAIN work :
          work[child].instance.status # "cancelled"}

\* The active child of a state, if it has one.
ActiveChild(k, region, state) ==
  IF ~ IsCompound(k, region, state) THEN {}
  ELSE {child \in {ChildKey(k, region, state)} \intersect DOMAIN work :
          work[child].instance.status = "active"}

\* Mutant of CancelChild: the descendants are forgotten.
CancelChildOnly ==
  /\ Running("cancel")
  /\ LET active == ActiveChild(Head(todo).at, Head(todo).region, Head(todo).state)
     IN \/ active = {} /\ Return(<<>>)
        \/ \E child \in active : Return(<<EndCall(child)>>)
  /\ UNCHANGED <<work, rows, reply>>

\* cancel_subtree up to the recursion: the children of the child's states go
\* first.  An absent or ended child is left alone.
CancelChild ==
  /\ Running("cancel")
  /\ LET call   == Head(todo)
         active == ActiveChild(call.at, call.region, call.state)
     IN \/ active = {} /\ Return(<<>>)
        \/ \E child \in active :
             Return([i \in DOMAIN RegionsOf(child) |->
                       LET r == RegionsOf(child)[i]
                       IN CancelCall(child, r, work[child].states[r])]
                    \o <<EndCall(child)>>)
  /\ UNCHANGED <<work, rows, reply>>

\* cancel_subtree after the recursion: the child itself.
EndChild ==
  /\ Running("end")
  /\ LET k   == Head(todo).at
         e   == work[k]
         key == CancelIdentity(e.instance.link.seq)
     IN IF Taken(k, key) THEN Fail("conflict")
        ELSE /\ rows' = Append(rows, [at |-> k, type |-> "$sub_cancel", ts |-> 0, params |-> <<>>, key |-> key])
             /\ work' = [work EXCEPT ![k] =
                           [e EXCEPT !.version = @ + 1, !.instance.status = "cancelled",
                                     !.stored = [version |-> e.version + 1, regions |-> Entries(k, e)]]]
             /\ Return(<<>>)
             /\ UNCHANGED reply

\* advance_parent_state.  Rows the engine writes carry no client timestamp here.
ParentWrites(e, link, target, m) ==
  {[type |-> "$sub_complete", region |-> link.region, to |-> target,
    key |-> SubCompleteIdentity(link.region, link.state, EffectiveEntries(m, e)[link.region].seq),
    params |-> <<>>, ts |-> 0, states |-> cascade.states, fired |-> cascade.fired,
    context |-> e.context] :
      cascade \in ApplyJoins(m, [e.states EXCEPT ![link.region] = target])}

\* complete_parent: the parent must be in the entry that started the child.
CompleteParent ==
  /\ Running("complete")
  /\ LET call == Head(todo)
         link == work[call.at].instance.link
         k    == link.owner
     IN IF k \notin DOMAIN work THEN Fail("not_found")
        ELSE LET e     == work[k]
                 entry == Entries(k, e)[link.region]
             IN IF entry.state # link.state \/ entry.seq # link.seq \/ ~ Live(e)
                THEN Fail("internal")
                ELSE \E spec \in ParentWrites(e, link, call.target, Defs[k.machine]) :
                       WriteEntity(k, spec, reply)

-----------------------------------------------------------------------------
(* Events.                                                                 *)

SameIdentity(k, ev) ==
  {i \in DOMAIN rows : rows[i].at = k /\ rows[i].type = ev.type /\ rows[i].ts = ev.ts}

Dedup(k, ev) ==
  IF SameIdentity(k, ev) = {} THEN "new"
  ELSE IF \E i \in SameIdentity(k, ev) : rows[i].params = ev.params
       THEN "duplicate" ELSE "identity_conflict"

MatchOf(k, ev) == Evaluate(Defs[k.machine], work[k].states, work[k].context, ev.type, ev.params)

\* transition_in_tx on the entity of the current call.  A child that answers
\* "duplicate" did not handle the event; the caller goes on.
AnswerDuplicate ==
  /\ Running("event")
  /\ Dedup(Head(todo).at, request.event) = "duplicate"
  /\ Return(<<>>)
  /\ reply' = IF Head(todo).nested THEN reply ELSE "duplicate"
  /\ UNCHANGED <<work, rows>>

AnswerIdentityConflict ==
  /\ Running("event")
  /\ Dedup(Head(todo).at, request.event) = "identity_conflict"
  /\ Fail("identity_conflict")

AnswerNotActive ==
  /\ Running("event")
  /\ Dedup(Head(todo).at, request.event) = "new"
  /\ ~ Live(work[Head(todo).at])
  /\ Fail("instance_not_active")

EventWrites(e, ev, t, m) ==
  {[type |-> ev.type, region |-> t.region, to |-> t.to, key |-> EventIdentity(ev.type, ev.ts),
    params |-> ev.params, ts |-> ev.ts, states |-> cascade.states, fired |-> cascade.fired,
    context |-> Merge(ev.params, e.context)] :
      cascade \in ApplyJoins(m, [e.states EXCEPT ![t.region] = t.to])}

\* The first entity that has a matching transition handles the event.
ApplyEvent ==
  /\ Running("event")
  /\ LET k == Head(todo).at
     IN /\ Dedup(k, request.event) = "new"
        /\ Live(work[k])
        /\ \E t \in MatchOf(k, request.event) :
             \E spec \in EventWrites(work[k], request.event, t, Defs[k.machine]) :
               WriteEntity(k, spec, "applied")

\* No transition: try_sub_machine_forward unless the event was targeted.
NoTransition ==
  /\ Running("event")
  /\ LET k == Head(todo).at
     IN /\ Dedup(k, request.event) = "new"
        /\ Live(work[k])
        /\ MatchOf(k, request.event) = {}
        /\ Return(IF ~ Head(todo).forward THEN <<>>
                  ELSE [i \in DOMAIN RegionsOf(k) |->
                          LET r == RegionsOf(k)[i] IN ForwardCall(k, r, work[k].states[r])])
  /\ UNCHANGED <<work, rows, reply>>

\* forward_to_managed_child: an absent or ended child is passed over.
Forward ==
  /\ Running("forward")
  /\ LET call   == Head(todo)
         active == ActiveChild(call.at, call.region, call.state)
     IN \/ active = {} /\ Return(<<>>)
        \/ \E child \in active : Return(<<EventCall(child, TRUE, TRUE)>>)
  /\ UNCHANGED <<work, rows, reply>>

\* The entity each prefix of a target names, from the definitions alone.
Hops(target) ==
  LET key[i \in 0..Len(target)] ==
        IF i = 0 THEN Root ELSE ChildKey(key[i - 1], target[i].region, target[i].state)
  IN key

TargetKey(target) == Hops(target)[Len(target)]

\* Every step of the path is the current active instance.
PathActive(target) ==
  /\ Live(work[Root])
  /\ \A i \in 1..Len(target) :
       LET owner == Hops(target)[i - 1]
           child == Hops(target)[i]
       IN /\ owner \in DOMAIN work /\ Live(work[owner])
          /\ LET entry == Entries(owner, work[owner])[target[i].region]
             IN /\ entry.state = target[i].state
                /\ target[i].seq \in {0, entry.seq}
                /\ child \in DOMAIN work
                /\ work[child].instance.status = "active"
                /\ work[child].instance.link.owner = owner
                /\ work[child].instance.link.seq = entry.seq

\* Mutant of ResolveTarget: activity is checked before replays are recognised.
CheckPathFirst ==
  /\ Running("target")
  /\ IF PathActive(request.target)
     THEN Return(<<EventCall(TargetKey(request.target), FALSE, FALSE)>>) /\ UNCHANGED <<work, rows, reply>>
     ELSE Fail("target_not_active")

\* execute_targeted: dedup at the target, the path, then the target's own
\* transitions (which start with a dedup of their own).
ResolveTarget ==
  /\ Running("target")
  /\ LET k    == TargetKey(request.target)
         seen == Dedup(k, request.event)
     IN \/ /\ seen = "duplicate"
           /\ Return(<<>>)
           /\ reply' = "duplicate"
           /\ UNCHANGED <<work, rows>>
        \/ seen = "identity_conflict" /\ Fail("identity_conflict")
        \/ seen = "new" /\ ~ PathActive(request.target) /\ Fail("target_not_active")
        \/ /\ seen = "new" /\ PathActive(request.target)
           /\ Return(<<EventCall(k, FALSE, FALSE)>>)
           /\ UNCHANGED <<work, rows, reply>>

-----------------------------------------------------------------------------
(* Timers and creation.                                                    *)

\* fire_timeout, for a candidate that may have moved on.
TimerPending(k, t) ==
  /\ Live(work[k])
  /\ t.region \in DOMAIN work[k].states
  /\ work[k].states[t.region] = t.from

SkipTimeout ==
  /\ Running("timer")
  /\ ~ TimerPending(Head(todo).at, Head(todo).timer)
  /\ Return(<<>>)
  /\ UNCHANGED <<work, rows, reply>>

TimeoutWrites(e, t, m) ==
  LET moved == [e.states EXCEPT ![t.region] = t.to]
  IN {[type |-> "$timeout", region |-> t.region, to |-> t.to,
       key |-> TimeoutIdentity(t.region, EffectiveEntries(m, e)[t.region].seq),
       params |-> <<>>, ts |-> 0, states |-> cascade.states, fired |-> cascade.fired,
       context |-> e.context] :
         cascade \in IF m.parallel THEN ApplyJoins(m, moved)
                     ELSE {[states |-> moved, fired |-> <<>>]}}

FireTimeout ==
  /\ Running("timer")
  /\ LET k == Head(todo).at
         t == Head(todo).timer
     IN /\ TimerPending(k, t)
        /\ \E spec \in TimeoutWrites(work[k], t, Defs[k.machine]) : WriteEntity(k, spec, reply)

\* Creation of an entity, or of the root that a request names and that does not
\* exist yet, with the children of its initial states.
CreateEntity ==
  /\ Running("create")
  /\ LET k == Head(todo).at
     IN IF k \in DOMAIN work
        THEN Return(<<>>) /\ UNCHANGED <<work, rows, reply>>
        ELSE /\ work' = Insert(work, k, NewEntity(k, NotManaged))
             /\ Return([i \in DOMAIN RegionsOf(k) |->
                          LET r == RegionsOf(k)[i] IN StartCall(k, r, Defs[k.machine].initial[r], 1)])
             /\ UNCHANGED <<rows, reply>>

-----------------------------------------------------------------------------
(* Transactions.                                                           *)

NoEvent == [type |-> "none", ts |-> 0, params |-> <<>>]

Init ==
  /\ entities = <<>> /\ history = <<>>
  /\ work = <<>> /\ rows = <<>>
  /\ todo = <<>>
  /\ phase = "idle"
  /\ request = [kind |-> "none", event |-> NoEvent, target |-> <<>>]
  /\ reply = "none"
  /\ transactions = 0

Begin(kind, event, target, call, answer) ==
  /\ phase = "idle"
  /\ transactions < MaxTransactions
  /\ transactions' = transactions + 1
  /\ phase' = "tx"
  /\ request' = [kind |-> kind, event |-> event, target |-> target]
  /\ todo' = <<call>>
  /\ reply' = answer
  /\ UNCHANGED <<committed, work, rows>>

BeginCreate(k) ==
  Begin("create", NoEvent, <<>>, [op |-> "create", at |-> k], "created")

\* execute_transition, on the root or straight on a child.
BeginEvent(k, ev) ==
  /\ k \in DOMAIN entities
  /\ Begin("event", ev, <<>>, EventCall(k, TRUE, FALSE), "no_transition")

\* execute_targeted.
BeginTargeted(target, ev) ==
  /\ Root \in DOMAIN entities
  /\ Begin("targeted", ev, target, [op |-> "target"], "no_transition")

\* A scheduler comes to fire a timer of an entity it read earlier.
BeginTimer(k, t) ==
  /\ t.on = "$timeout"
  /\ t.guard.kind = "timeout"
  /\ Begin("timer", NoEvent, <<>>, [op |-> "timer", at |-> k, timer |-> t], "none")

Commit ==
  /\ phase = "tx"
  /\ todo = <<>>
  /\ phase' = "idle"
  /\ entities' = work
  /\ history' = rows
  /\ UNCHANGED <<work, rows, todo, request, reply, transactions>>

\* The process dies inside the transaction.
Crash == phase = "tx" /\ Fail("none")

BeginTransaction ==
  \/ \E k \in Addressees : BeginCreate(k) \/ \E ev \in Events : BeginEvent(k, ev)
  \/ \E target \in Targets, ev \in Events : BeginTargeted(target, ev)
  \/ \E k \in DOMAIN entities :
       \E n \in DOMAIN Defs[k.machine].transitions : BeginTimer(k, Defs[k.machine].transitions[n])

Call ==
  \/ AnswerDuplicate \/ AnswerIdentityConflict \/ AnswerNotActive
  \/ ApplyEvent \/ NoTransition \/ Forward \/ ResolveTarget
  \/ SkipTimeout \/ FireTimeout \/ CreateEntity
  \/ Visit \/ SkipStart \/ StartChild \/ CancelChild \/ EndChild \/ CompleteParent

Next == BeginTransaction \/ Call \/ Commit \/ Crash

Spec == Init /\ [][Next]_vars

\* The task of a request or of a tick is polled until its transaction ends.
FairSpec == Spec /\ WF_vars(Call \/ Commit)

-----------------------------------------------------------------------------
(* Properties.                                                             *)

Instances == {k \in DOMAIN entities : entities[k].instance # NotManaged}

\* The committed entry of a region.
EntryOf(k, region) == Entries(k, entities[k])[region]

\* Every variable keeps its type: rows are complete, an instance lies below the
\* owner its link names, and between transactions nothing is uncommitted.
TypeOK ==
  /\ \A k \in DOMAIN work :
       /\ DOMAIN work[k].states = DOMAIN Defs[k.machine].initial
       /\ work[k].version \in Nat \ {0}
       /\ work[k].stored.version = work[k].version
       /\ work[k].instance.status \in {"none", "active", "completed", "cancelled"}
       /\ work[k].instance # NotManaged =>
            LET link == work[k].instance.link
            IN /\ work[k].instance.depth \in 1..MaxDepth
               /\ IsCompound(link.owner, link.region, link.state)
               /\ k = ChildKey(link.owner, link.region, link.state)
  /\ phase \in {"idle", "tx"}
  /\ phase = "idle" => work = entities /\ rows = history /\ todo = <<>>
  /\ transactions \in 0..MaxTransactions

\* An active child belongs to the present: its owner exists, may still be
\* written, and is in the very entry of the compound state that started the
\* child.  No write of an owner, of an ancestor or of a sibling's owner leaves
\* a child running that nothing will ever cancel or complete.
ActiveChildrenBelong ==
  \A k \in Instances :
    entities[k].instance.status = "active" =>
      LET link == entities[k].instance.link
      IN /\ link.owner \in DOMAIN entities
         /\ entities[link.owner].instance.status \in {"none", "active"}
         /\ EntryOf(link.owner, link.region).state = link.state
         /\ EntryOf(link.owner, link.region).seq = link.seq

\* Nobody waits for a child that is not there: an entity that may be written and
\* is in a managed compound state has an active child, started by that entry.
CompoundStatesHaveTheirChild ==
  \A k \in DOMAIN entities :
    Live(entities[k]) =>
      \A r \in DOMAIN entities[k].states :
        IsCompound(k, r, entities[k].states[r]) =>
          LET child == ChildKey(k, r, entities[k].states[r])
          IN /\ child \in Instances
             /\ entities[child].instance.status = "active"
             /\ entities[child].instance.link.owner = k
             /\ entities[child].instance.link.seq = EntryOf(k, r).seq

\* The history agrees with the status, and there is one winner: a child ended by
\* its owner's $sub_complete or by its own $sub_cancel, never by both, and an
\* active one by neither.
OneWinner ==
  \A k \in Instances :
    LET instance  == entities[k].instance
        link      == instance.link
        has(at, key) == \E i \in DOMAIN history : history[i].at = at /\ history[i].key = key
    IN /\ has(link.owner, SubCompleteIdentity(link.region, link.state, link.seq))
            <=> instance.status = "completed"
       /\ has(k, CancelIdentity(link.seq)) <=> instance.status = "cancelled"

\* A child that satisfies its completion rule is not active any more once the
\* write that satisfied it is committed, whichever path wrote it.  (A child that
\* was never written is exempt: the code checks after writes only.)
CompletionIsImmediate ==
  \A k \in Instances :
    entities[k].instance.status = "active" /\ entities[k].version > 1 =>
      Completion(entities[k], entities[k].states) = {}

\* The two errors the code calls an internal inconsistency, and the unique
\* index, are never met: a completing child finds its parent in the entry that
\* started it, and no engine row repeats an identity.
NoInternalError == reply \notin {"internal", "conflict", "not_found"}

\* A targeted request is answered for the target alone and for good: "applied"
\* and "duplicate" mean that the target's history holds the event, a refusal
\* that it does not, so a client that retries after a lost answer learns whether
\* its event was applied even when the instance has ended since.
TargetedAnswersAreTruthful ==
  phase = "idle" /\ request.kind = "targeted" =>
    LET at == TargetKey(request.target)
        recorded == \E i \in DOMAIN history :
                      /\ history[i].at = at
                      /\ history[i].type = request.event.type
                      /\ history[i].ts = request.event.ts
                      /\ history[i].params = request.event.params
    IN /\ reply \in {"applied", "duplicate"} => recorded
       /\ reply \in {"target_not_active", "instance_not_active", "no_transition"} => ~ recorded

\* What has ended stays as it was: neither events nor timers nor the fate of its
\* relatives write a completed or cancelled child again.
EndedInstancesAreFrozen ==
  [][ \A k \in Instances :
        entities[k].instance.status # "active" => k \in DOMAIN entities' /\ entities'[k] = entities[k] ]_vars

\* A transaction ends: neither the descent of starts and cancellations nor the
\* ascent of completions runs forever or stops halfway.
TransactionsEnd == phase = "tx" ~> phase = "idle"
=============================================================================
