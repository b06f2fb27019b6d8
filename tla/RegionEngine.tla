---------------------------- MODULE RegionEngine ----------------------------
(***************************************************************************)
(* The pure part of the engine: src/engine.rs and the parts of             *)
(* src/models.rs it reads.  It has no variables.  A machine definition is  *)
(* a record                                                                *)
(*                                                                         *)
(*   parallel     TRUE for a machine with regions                          *)
(*   initial      function from the regions to their initial states        *)
(*   transitions  sequence, in definition order, of records                *)
(*                [region, from, to, on, guard]                            *)
(*   joins        sequence, in definition order, of records                *)
(*                [when, target_region, target_state]                      *)
(*                                                                         *)
(* A flat machine has the single region DefaultRegion ("_" in the code).   *)
(* Event parameters and entity contexts are functions from a finite set of *)
(* field names; a guard is read as the set of values it accepts.           *)
(***************************************************************************)
EXTENDS Integers, Sequences, FiniteSets

DefaultRegion == "_"

\* s is a sequence, whatever it is a sequence of.
IsSeq(s) == s \in Seq({s[i] : i \in DOMAIN s})

-----------------------------------------------------------------------------
(* Guards.                                                                 *)

\* new_context of transition_in_tx: the event parameters overwrite the
\* context's fields.
Merge(params, context) ==
  [f \in DOMAIN params \union DOMAIN context |->
     IF f \in DOMAIN params THEN params[f] ELSE context[f]]

\* No guard and every malformed guard pass; a timeout guard never passes here;
\* a field is looked up in the parameters first and fails when it is nowhere.
CheckGuard(guard, params, context) ==
  \/ guard.kind = "none"
  \/ /\ guard.kind = "field"
     /\ guard.field \in DOMAIN params \union DOMAIN context
     /\ Merge(params, context)[guard.field] \in guard.accepts

-----------------------------------------------------------------------------
(* Choosing the transition of an event.                                    *)

Matching(m, states, context, type, params) ==
  {i \in DOMAIN m.transitions :
     LET t == m.transitions[i] IN
       /\ t.region \in DOMAIN states
       /\ states[t.region] = t.from
       /\ t.on = type
       /\ CheckGuard(t.guard, params, context)}

\* The first matching transition in definition order, as a set that is empty
\* when no transition matches.
Evaluate(m, states, context, type, params) ==
  LET matching == Matching(m, states, context, type, params)
  IN {m.transitions[i] : i \in {k \in matching : \A j \in matching : k <= j}}

-----------------------------------------------------------------------------
(* Joins.                                                                  *)

JoinReady(join, states) ==
  /\ \A r \in DOMAIN join.when : r \in DOMAIN states /\ states[r] = join.when[r]
  /\ states[join.target_region] # join.target_state

Fired(join, states) ==
  [region |-> join.target_region,
   from   |-> states[join.target_region],
   to     |-> join.target_state]

\* Every satisfied join of one snapshot of the state map, in definition order:
\* the k-th fired join is the k-th ready one.
CheckJoins(m, states) ==
  LET ready == {i \in DOMAIN m.joins : JoinReady(m.joins[i], states)}
      nth(k) == CHOOSE i \in ready : Cardinality({j \in ready : j <= i}) = k
  IN [k \in 1..Cardinality(ready) |-> Fired(m.joins[nth(k)], states)]

\* Mutant of LastFor: the first item of a region decides.
FirstFor(items, r) ==
  {i \in DOMAIN items :
     /\ items[i].region = r
     /\ \A j \in DOMAIN items : items[j].region = r => i <= j}

\* The last element of `items` for region r decides (a later insert into the
\* map overwrites an earlier one).
LastFor(items, r) ==
  {i \in DOMAIN items :
     /\ items[i].region = r
     /\ \A j \in DOMAIN items : items[j].region = r => j <= i}

SetAll(states, fired) ==
  [r \in DOMAIN states |->
     IF LastFor(fired, r) = {} THEN states[r]
     ELSE fired[CHOOSE i \in LastFor(fired, r) : TRUE].to]

\* One pass of the cascade: all joins the snapshot satisfies are applied.
JoinPass(m, cascade) ==
  LET fired == CheckJoins(m, cascade.states)
  IN [states |-> SetAll(cascade.states, fired), fired |-> cascade.fired \o fired]

Pass(m, cascades) == {JoinPass(m, cascade) : cascade \in cascades}

FivePasses(m, cascades) == Pass(m, Pass(m, Pass(m, Pass(m, Pass(m, cascades)))))

\* apply_joins(machine, map, 10), as the set of its one result: ten passes.  A
\* pass that fires nothing changes nothing, so the code's stop at the first
\* such pass needs no step of its own.
ApplyJoins(m, states) ==
  FivePasses(m, FivePasses(m, {[states |-> states, fired |-> <<>>]}))

-----------------------------------------------------------------------------
(* Identity keys.                                                          *)

EventIdentity(type, ts)       == [kind |-> "evt",     name |-> type, n |-> ts,  step |-> 0]
TimeoutIdentity(region, seq)  == [kind |-> "timeout", name |-> region, n |-> seq, step |-> 0]
JoinIdentity(region, v, step) == [kind |-> "join",    name |-> region, n |-> v, step |-> step]
\* A row written before identities existed (NULL: outside the unique index).
NoIdentity                    == [kind |-> "null",    name |-> "",   n |-> 0,   step |-> 0]

-----------------------------------------------------------------------------
(* Region entry instances.  A row number 0 stands for None.                *)

InitialEntries(states, now) ==
  [version |-> 1,
   regions |-> [r \in DOMAIN states |->
                  [state |-> states[r], seq |-> 1, entered_at |-> now,
                   basis |-> "created", row |-> 0]]]

\* The document of a row written without entry tracking (NULL column).
NoEntries == [version |-> 0, regions |-> <<>>]

LegacyEntry(m, e, r) ==
  LET untouched == e.version <= 1 /\ e.updated_at = e.created_at
  IN [state |-> e.states[r],
      seq   |-> e.version,
      entered_at |-> IF untouched THEN e.created_at ELSE e.updated_at,
      basis |-> IF untouched THEN "created"
                ELSE IF m.parallel THEN "legacy_upper_bound" ELSE "legacy_exact",
      row   |-> 0]

\* The stored document counts only when it belongs to the row's version and
\* agrees with the region's state.
EffectiveEntries(m, e) ==
  [r \in DOMAIN e.states |->
     IF /\ e.stored.version = e.version
        /\ r \in DOMAIN e.stored.regions
        /\ e.stored.regions[r].state = e.states[r]
     THEN e.stored.regions[r]
     ELSE LegacyEntry(m, e, r)]

\* Mutant of NewEntry: numbered by the version the write replaces.
NewEntryOfOldVersion(state, version, now, row) ==
  [state |-> state, seq |-> version - 1, entered_at |-> now,
   basis |-> "transition", row |-> row]

NewEntry(state, version, now, row) ==
  [state |-> state, seq |-> version, entered_at |-> now,
   basis |-> "transition", row |-> row]

\* `entered` lists what one write entered, as [region, state, row]; the last
\* item of a region wins and every other region keeps its instance.
AdvanceEntries(previous, states, entered, version, now) ==
  [version |-> version,
   regions |->
     [r \in DOMAIN states |->
        IF LastFor(entered, r) # {}
        THEN LET x == entered[CHOOSE i \in LastFor(entered, r) : TRUE]
             IN NewEntry(x.state, version, now, x.row)
        ELSE IF previous[r].state = states[r]
             THEN previous[r]
             ELSE NewEntry(states[r], version, now, 0)]]

TimeoutDue(entry, ms, now) == entry.entered_at + ms <= now
=============================================================================
