--------------------------- MODULE DefinitionRules ---------------------------
(***************************************************************************)
(* What registering a definition is worth: validate() of src/models.rs,    *)
(* and one entity of an accepted definition that is then run by the        *)
(* engine, the timer query and the completions of its children.            *)
(*                                                                         *)
(* TransitionCore and the modules beside it take a sound definition for    *)
(* granted.  Here the definition is as a client wrote it, and the entity's *)
(* state is kept as it is stored: a plain string, or a JSON object with a  *)
(* state for each region.                                                  *)
(*                                                                         *)
(* A definition is a record                                                *)
(*   regions      sequence of [id, states, initial, subs]; <<>> if flat    *)
(*   states, initial, subs         of a flat machine                       *)
(*   transitions  sequence of [region, from, to, on, after]; `after` is    *)
(*                the timeout of the guard, 0 without one                  *)
(*   joins        sequence of [when, target_region, target_state]          *)
(*   actions      the states on whose entry actions are sent               *)
(* and a sub-machine is [managed, on_final, rules]: where its completion   *)
(* leads, by final state and by complete_when rule.                        *)
(***************************************************************************)
EXTENDS RegionEngine, SequencesExt

CONSTANTS
  Definitions,   \* definitions clients try to register
  Types,         \* event types
  MaxVersion,    \* bound on the versions of the row
  MaxClock       \* bound on the clock

ASSUME DefinitionBounds == MaxVersion \in Nat \ {0} /\ MaxClock \in Nat

VARIABLES
  definition,  \* the registered definition
  row,         \* the entity's row
  clock

vars == <<definition, row, clock>>

NoRegion == "none"

IsParallel(d) == d.regions # <<>>

RegionIds(d) == IF IsParallel(d) THEN {d.regions[i].id : i \in DOMAIN d.regions} ELSE {DefaultRegion}

\* The region of that name; ids are unique in an accepted definition.
RegionDef(d, r) == d.regions[CHOOSE i \in DOMAIN d.regions : d.regions[i].id = r]

StatesOf(d, r) == IF IsParallel(d) THEN RegionDef(d, r).states ELSE d.states

SubsOf(d, r) == IF IsParallel(d) THEN RegionDef(d, r).subs ELSE d.subs

RegionOf(t) == IF t.region = NoRegion THEN DefaultRegion ELSE t.region

\* What their types say of definitions: no region's id is the absence of one, and
\* a timeout is a number of milliseconds.
ASSUME DefinitionsAssumption ==
  \A d \in Definitions :
    /\ NoRegion \notin RegionIds(d)
    /\ \A t \in ToSet(d.transitions) : t.after \in Int

-----------------------------------------------------------------------------
(* validate().                                                             *)

\* complete_when is for managed children and leads to states of its owner.
SubFits(sub, states) ==
  /\ sub.on_final \subseteq states
  /\ sub.rules \subseteq states
  /\ sub.managed \/ sub.rules = {}

\* A legacy child is never created on entry.
ValidFlat(d) ==
  /\ d.initial \in d.states
  /\ \A t \in ToSet(d.transitions) : t.from \in d.states /\ t.to \in d.states
  /\ d.actions \subseteq d.states
  /\ \A s \in DOMAIN d.subs :
       s \in d.states /\ SubFits(d.subs[s], d.states) /\ (s = d.initial => d.subs[s].managed)

\* Mutant of Shared: state names are taken for unique.
NeverShared(d, i, s) == FALSE

\* A state of another region has that name too.
Shared(d, i, s) == \E j \in DOMAIN d.regions : d.regions[j].id # d.regions[i].id /\ s \in d.regions[j].states

ValidRegion(d, i) ==
  LET r == d.regions[i]
  IN /\ r.id # ""
     /\ \A j \in DOMAIN d.regions : d.regions[j].id = r.id => j = i
     /\ r.initial \in r.states
     /\ \A s \in DOMAIN r.subs :
          s \in r.states /\ SubFits(r.subs[s], r.states) /\ ~ (r.subs[s].managed /\ Shared(d, i, s))

TransitionFits(d, t) ==
  /\ t.region \in RegionIds(d)
  /\ {t.from, t.to} \subseteq StatesOf(d, t.region)

\* Mutant of JoinFits: the state a join leads to is taken on trust.
JoinConditionFits(d, j) ==
  /\ \A r \in DOMAIN j.when : r \in RegionIds(d) /\ j.when[r] \in StatesOf(d, r)
  /\ j.target_region \in RegionIds(d)

JoinFits(d, j) ==
  /\ \A r \in DOMAIN j.when : r \in RegionIds(d) /\ j.when[r] \in StatesOf(d, r)
  /\ j.target_region \in RegionIds(d) /\ j.target_state \in StatesOf(d, j.target_region)

ValidParallel(d) ==
  /\ \A i \in DOMAIN d.regions : ValidRegion(d, i)
  /\ \A t \in ToSet(d.transitions) : TransitionFits(d, t)
  /\ \A j \in ToSet(d.joins) : JoinFits(d, j)

Valid(d) == IF IsParallel(d) THEN ValidParallel(d) ELSE ValidFlat(d)

-----------------------------------------------------------------------------
(* The row.                                                                *)

InitialMap(d) ==
  [r \in RegionIds(d) |-> IF IsParallel(d) THEN RegionDef(d, r).initial ELSE d.initial]

\* encode_state: one region "_" is a plain string, whatever the machine is.
Encode(map) ==
  IF DOMAIN map = {DefaultRegion}
  THEN [kind |-> "plain", map |-> map] ELSE [kind |-> "object", map |-> map]

StateMap == row.current.map

Effective ==
  EffectiveEntries([parallel |-> row.current.kind = "object"],
                   [states |-> StateMap, version |-> row.version, created_at |-> row.created_at,
                    updated_at |-> row.updated_at, stored |-> row.stored])

\* Registration and the creation of the entity.
Init ==
  /\ definition \in {d \in Definitions : Valid(d)}
  /\ row = [current |-> Encode(InitialMap(definition)), version |-> 1, created_at |-> 0,
            updated_at |-> 0, stored |-> InitialEntries(InitialMap(definition), 0)]
  /\ clock = 0

-----------------------------------------------------------------------------
(* Joins.                                                                  *)

Insert(map, r, s) == [x \in DOMAIN map \union {r} |-> IF x = r THEN s ELSE map[x]]

\* A join may lead to a region the map does not hold.
Ready(j, map) ==
  /\ \A r \in DOMAIN j.when : r \in DOMAIN map /\ map[r] = j.when[r]
  /\ ~ (j.target_region \in DOMAIN map /\ map[j.target_region] = j.target_state)

Unjoined(map) == [map |-> map, entered |-> {}]

\* One pass: the joins its snapshot meets are applied in definition order, so
\* that the last one into a region decides.
JoinOnce(d, c) ==
  LET met == {k \in DOMAIN d.joins : Ready(d.joins[k], c.map)}
      entered == {d.joins[k].target_region : k \in met}
      last(r) == {k \in met : /\ d.joins[k].target_region = r
                              /\ \A i \in met : d.joins[i].target_region = r => i <= k}
  IN [map     |-> [r \in DOMAIN c.map \union entered |->
                     IF last(r) = {} THEN c.map[r] ELSE d.joins[CHOOSE k \in last(r) : TRUE].target_state],
      entered |-> c.entered \union entered]

\* apply_joins(machine, map, 10); a pass that meets no join changes nothing.
Cascade(d, map) ==
  LET pass[n \in 0..10] == IF n = 0 THEN Unjoined(map) ELSE JoinOnce(d, pass[n - 1])
  IN pass[10]

-----------------------------------------------------------------------------
(* Writes.                                                                 *)

Entry(r, s) == [region |-> r, state |-> s, row |-> 0]

StoreEntries(map, entered) == AdvanceEntries(Effective, map, entered, row.version + 1, clock)

\* write_entity after region r was entered, with the state map and the joins of
\* `cascade`: what a region is stored with is what was entered last.
Write(r, cascade) ==
  LET entered == {Entry(q, cascade.map[q]) : q \in {r} \union cascade.entered}
  IN /\ row.version < MaxVersion
     /\ row' = [row EXCEPT !.current = Encode(cascade.map), !.version = @ + 1, !.updated_at = clock,
                           !.stored = StoreEntries(cascade.map, SetToSeq(entered))]
     /\ UNCHANGED <<definition, clock>>

\* An event and a completion apply the joins whatever the machine is.
Advance(r, to) == Write(r, Cascade(definition, Insert(StateMap, r, to)))

Takes(t, type) ==
  /\ t.on = type /\ t.after = 0
  /\ RegionOf(t) \in DOMAIN StateMap /\ StateMap[RegionOf(t)] = t.from

\* transition_in_tx with an event no guard refuses but a timeout's.
Event(type) ==
  LET matching == {i \in DOMAIN definition.transitions : Takes(definition.transitions[i], type)}
  IN \E i \in matching :
       /\ \A k \in matching : i <= k
       /\ Advance(RegionOf(definition.transitions[i]), definition.transitions[i].to)

\* The child of compound state StateMap[r] completes, one way or the other.
Completion(r) ==
  /\ r \in RegionIds(definition) \intersect DOMAIN StateMap
  /\ StateMap[r] \in DOMAIN SubsOf(definition, r)
  /\ LET sub == SubsOf(definition, r)[StateMap[r]]
     IN \E to \in sub.on_final \union sub.rules : Advance(r, to)

Timers == {t \in ToSet(definition.transitions) : t.on = "$timeout" /\ t.after > 0}

InState(t) ==
  IF IsParallel(definition)
  THEN /\ row.current.kind = "object"
       /\ RegionOf(t) \in DOMAIN StateMap /\ StateMap[RegionOf(t)] = t.from
  ELSE row.current.kind = "plain" /\ StateMap[DefaultRegion] = t.from

\* Mutant of EntryTime: a document of another version is believed.
DocumentTime(t) ==
  IF RegionOf(t) \in DOMAIN row.stored.regions /\ row.stored.regions[RegionOf(t)].state = t.from
  THEN row.stored.regions[RegionOf(t)].entered_at ELSE row.updated_at

EntryTime(t) ==
  IF /\ row.stored.version = row.version
     /\ RegionOf(t) \in DOMAIN row.stored.regions /\ row.stored.regions[RegionOf(t)].state = t.from
  THEN row.stored.regions[RegionOf(t)].entered_at ELSE row.updated_at

\* The query of timeout_candidates, in SQL over the stored columns.
Candidate(t) == InState(t) /\ EntryTime(t) <= clock - t.after

\* The re-check of fire_timeout, in Rust over the loaded entity.
Due(t) ==
  /\ RegionOf(t) \in DOMAIN StateMap /\ StateMap[RegionOf(t)] = t.from
  /\ TimeoutDue(Effective[RegionOf(t)], t.after, clock)

\* Joins of a timeout are applied for a parallel machine.
Fire(t) ==
  /\ Candidate(t) /\ Due(t)
  /\ LET map == Insert(StateMap, RegionOf(t), t.to)
     IN Write(RegionOf(t), IF IsParallel(definition) THEN Cascade(definition, map) ELSE Unjoined(map))

\* A replica of a release without entry tracking takes a transition.
OldReplicaWrites(t) ==
  /\ RegionOf(t) \in DOMAIN StateMap /\ StateMap[RegionOf(t)] = t.from
  /\ row.version < MaxVersion
  /\ row' = [row EXCEPT !.current = Encode(Insert(StateMap, RegionOf(t), t.to)),
                        !.version = @ + 1, !.updated_at = clock]
  /\ UNCHANGED <<definition, clock>>

Tick == clock < MaxClock /\ clock' = clock + 1 /\ UNCHANGED <<definition, row>>

Next ==
  \/ \E type \in Types : Event(type)
  \/ \E r \in RegionIds(definition) : Completion(r)
  \/ \E t \in Timers : Fire(t)
  \/ \E t \in ToSet(definition.transitions) : OldReplicaWrites(t)
  \/ Tick

Spec == Init /\ [][Next]_vars

-----------------------------------------------------------------------------
(* Properties.                                                             *)

\* Joins that were written for a flat machine are accepted unseen, and applied;
\* a parallel machine with the one region "_" is stored like a flat one.  Both are
\* outside of what the next two properties say.
FlatWithJoins == ~ IsParallel(definition) /\ definition.joins # <<>>
LoneRegion == IsParallel(definition) /\ RegionIds(definition) = {DefaultRegion}

\* README.md, Core Model: "one region "_"" for a flat machine, "one entry per
\* region" for a parallel one.  Whatever an accepted definition does, by events,
\* timeouts, joins and completions, its entity holds one of the declared states
\* in each of the declared regions and in no other.
StatesAreDeclared ==
  ~ FlatWithJoins =>
    /\ DOMAIN StateMap = RegionIds(definition)
    /\ \A r \in DOMAIN StateMap : StateMap[r] \in StatesOf(definition, r)

\* The query that finds the timers and the check that fires them, written twice
\* in two languages, agree on every row: no due timer is overlooked.  Only a timer
\* of a flat machine that names a region, which validate_flat lets pass, is found
\* on every pass and never fired.
TimersAreFound ==
  ~ FlatWithJoins /\ ~ LoneRegion =>
    \A t \in Timers : Due(t) <=> Candidate(t) /\ RegionOf(t) \in RegionIds(definition)

\* A child's id is made of its owner's and of the compound state's name alone:
\* no two regions are ever in compound states that mean one managed child.
OneOwnerPerChild ==
  LET compound == {r \in RegionIds(definition) \intersect DOMAIN StateMap :
                     StateMap[r] \in DOMAIN SubsOf(definition, r)}
      managed == {r \in compound : SubsOf(definition, r)[StateMap[r]].managed}
  IN \A r \in managed : \A q \in compound \ {r} : StateMap[q] # StateMap[r]
=============================================================================
