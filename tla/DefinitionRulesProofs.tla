------------------------ MODULE DefinitionRulesProofs ------------------------
(***************************************************************************)
(* Theorems about DefinitionRules, for any set of submitted definitions:   *)
(* what validate() accepts keeps its entity in declared states, whatever   *)
(* events, timeouts, joins and completions do to it.                       *)
(*                                                                         *)
(* The joins of a write are a cascade of ten passes.  Each pass keeps the  *)
(* state map within the definition, because validate() checks where a join *)
(* leads; the definition of the cascade as a function of the passes so far *)
(* is unfolded once, in TenPasses.                                         *)
(***************************************************************************)
EXTENDS DefinitionRules, TLAPS

AllStates(d) == UNION {StatesOf(d, r) : r \in RegionIds(d)}

\* A map with one of the declared states in each of the declared regions.
Declared(d, map) ==
  /\ map \in [RegionIds(d) -> AllStates(d)]
  /\ \A r \in RegionIds(d) : map[r] \in StatesOf(d, r)

-----------------------------------------------------------------------------
(* The cascade.                                                            *)

\* A set that has the cascade before its first pass, and that no pass leaves, has
\* the cascade after all ten.
LEMMA TenPasses ==
  ASSUME NEW d, NEW map, NEW S, Unjoined(map) \in S, \A c \in S : JoinOnce(d, c) \in S
  PROVE  Cascade(d, map) \in S
<1> DEFINE Next1(f, n) == IF n = 0 THEN Unjoined(map) ELSE JoinOnce(d, f[n - 1])
           J(c) == JoinOnce(d, c)
           c0 == Unjoined(map)
           c1 == J(c0)
           c2 == J(c1)
           c3 == J(c2)
           c4 == J(c3)
           c5 == J(c4)
           c6 == J(c5)
           c7 == J(c6)
           c8 == J(c7)
           c9 == J(c8)
           c10 == J(c9)
           g == [n \in 0..10 |-> CASE n = 0 -> c0 [] n = 1 -> c1 [] n = 2 -> c2 [] n = 3 -> c3
                                   [] n = 4 -> c4 [] n = 5 -> c5 [] n = 6 -> c6 [] n = 7 -> c7
                                   [] n = 8 -> c8 [] n = 9 -> c9 [] n = 10 -> c10]
           pass == CHOOSE f : f = [n \in 0..10 |-> Next1(f, n)]
<1>1. Cascade(d, map) = pass[10]
  BY DEF Cascade
<1>2. g = [n \in 0..10 |-> Next1(g, n)]
  <2> HIDE DEF J, c0
  <2> SUFFICES ASSUME NEW n \in 0..10 PROVE g[n] = Next1(g, n)
    OBVIOUS
  <2>1. /\ g[0] = c0 /\ g[1] = c1 /\ g[2] = c2 /\ g[3] = c3 /\ g[4] = c4 /\ g[5] = c5
        /\ g[6] = c6 /\ g[7] = c7 /\ g[8] = c8 /\ g[9] = c9 /\ g[10] = c10
    BY SMT
  <2>2. /\ c1 = J(c0) /\ c2 = J(c1) /\ c3 = J(c2) /\ c4 = J(c3) /\ c5 = J(c4)
        /\ c6 = J(c5) /\ c7 = J(c6) /\ c8 = J(c7) /\ c9 = J(c8) /\ c10 = J(c9)
    OBVIOUS
  <2>3. n \in {0, 1, 2, 3, 4, 5, 6, 7, 8, 9, 10}
    OBVIOUS
  <2> HIDE DEF g, c1, c2, c3, c4, c5, c6, c7, c8, c9, c10
  <2>4. /\ Next1(g, 1) = J(g[0]) /\ Next1(g, 2) = J(g[1]) /\ Next1(g, 3) = J(g[2]) /\ Next1(g, 4) = J(g[3])
        /\ Next1(g, 5) = J(g[4]) /\ Next1(g, 6) = J(g[5]) /\ Next1(g, 7) = J(g[6]) /\ Next1(g, 8) = J(g[7])
        /\ Next1(g, 9) = J(g[8]) /\ Next1(g, 10) = J(g[9]) /\ Next1(g, 0) = c0
    BY DEF J, c0
  <2> HIDE DEF Next1
  <2> QED
    BY <2>1, <2>2, <2>3, <2>4
<1>3. pass = [n \in 0..10 |-> Next1(pass, n)]
  <2> HIDE DEF g
  <2> QED
    BY <1>2
<1>4. \A n \in 0..10 : pass[n] = Next1(pass, n)
  <2> HIDE DEF pass
  <2> QED
    BY <1>3
<1> HIDE DEF pass, g
<1>5. pass[0] \in S
  BY <1>4
<1>6. pass[1] \in S
  BY <1>4, <1>5
<1>7. pass[2] \in S
  BY <1>4, <1>6
<1>8. pass[3] \in S
  BY <1>4, <1>7
<1>9. pass[4] \in S
  BY <1>4, <1>8
<1>10. pass[5] \in S
  BY <1>4, <1>9
<1>11. pass[6] \in S
  BY <1>4, <1>10
<1>12. pass[7] \in S
  BY <1>4, <1>11
<1>13. pass[8] \in S
  BY <1>4, <1>12
<1>14. pass[9] \in S
  BY <1>4, <1>13
<1>15. pass[10] \in S
  BY <1>4, <1>14
<1> QED
  BY <1>1, <1>15

\* The joins lead to declared states of declared regions.
JoinsFit(d) == \A k \in DOMAIN d.joins : JoinFits(d, d.joins[k])

\* A pass of such joins stays within the definition.
LEMMA PassStaysDeclared ==
  ASSUME NEW d, JoinsFit(d), NEW c, Declared(d, c.map)
  PROVE  Declared(d, JoinOnce(d, c).map)
<1> DEFINE met == {k \in DOMAIN d.joins : Ready(d.joins[k], c.map)}
           entered == {d.joins[k].target_region : k \in met}
           last(r) == {k \in met : /\ d.joins[k].target_region = r
                                   /\ \A i \in met : d.joins[i].target_region = r => i <= k}
           state(r) == IF last(r) = {} THEN c.map[r] ELSE d.joins[CHOOSE k \in last(r) : TRUE].target_state
<1>1. JoinOnce(d, c).map = [r \in DOMAIN c.map \union entered |-> state(r)]
  BY DEF JoinOnce
<1>2. \A k \in met : d.joins[k].target_region \in RegionIds(d)
                     /\ d.joins[k].target_state \in StatesOf(d, d.joins[k].target_region)
  BY DEF JoinsFit, JoinFits
<1>3. DOMAIN c.map = RegionIds(d) /\ entered \subseteq RegionIds(d)
  BY <1>2 DEF Declared
<1>4. ASSUME NEW r \in RegionIds(d) PROVE state(r) \in StatesOf(d, r)
  <2>1. CASE last(r) = {}
    BY <2>1 DEF Declared
  <2>2. CASE last(r) # {}
    <3> DEFINE k == CHOOSE k \in last(r) : TRUE
    <3>1. k \in last(r)
      BY <2>2
    <3>2. k \in met /\ d.joins[k].target_region = r
      BY <3>1
    <3> HIDE DEF k, last, met
    <3>3. d.joins[k].target_state \in StatesOf(d, r)
      BY <1>2, <3>2
    <3> QED
      BY <2>2, <3>3 DEF k
  <2> QED
    BY <2>1, <2>2
<1> HIDE DEF state, entered
<1>5. JoinOnce(d, c).map = [r \in RegionIds(d) |-> state(r)]
  BY <1>1, <1>3
<1>6. \A r \in RegionIds(d) : state(r) \in AllStates(d)
  BY <1>4 DEF AllStates
<1> QED
  BY <1>4, <1>5, <1>6 DEF Declared

\* So does the whole cascade.
LEMMA CascadeStaysDeclared ==
  ASSUME NEW d, JoinsFit(d), NEW map, Declared(d, map)
  PROVE  Declared(d, Cascade(d, map).map)
<1> DEFINE maps == {f \in [RegionIds(d) -> AllStates(d)] : Declared(d, f)}
           S == [map : maps, entered : SUBSET RegionIds(d)]
<1>1. Unjoined(map) \in S
  BY DEF Unjoined, Declared
<1>2. ASSUME NEW c \in S PROVE JoinOnce(d, c) \in S
  <2>1. Declared(d, JoinOnce(d, c).map)
    BY PassStaysDeclared
  <2>2. JoinOnce(d, c).map \in maps
    BY <2>1 DEF Declared
  <2>3. JoinOnce(d, c).entered \in SUBSET RegionIds(d)
    BY DEF JoinOnce, JoinsFit, JoinFits
  <2>4. JoinOnce(d, c) = [map |-> JoinOnce(d, c).map, entered |-> JoinOnce(d, c).entered]
    BY DEF JoinOnce
  <2> QED
    BY <2>2, <2>3, <2>4
<1>3. Cascade(d, map) \in S
  <2> HIDE DEF S
  <2> QED
    BY <1>1, <1>2, TenPasses
<1> QED
  BY <1>3

-----------------------------------------------------------------------------
(* What validate() says of a definition.                                   *)

\* The definition of a region has its name.
LEMMA RegionDefIsFound ==
  ASSUME NEW d, NEW r \in RegionIds(d), IsParallel(d)
  PROVE  \E i \in DOMAIN d.regions : d.regions[i].id = r /\ RegionDef(d, r) = d.regions[i]
<1>1. \E i \in DOMAIN d.regions : d.regions[i].id = r
  BY DEF RegionIds
<1> DEFINE k == CHOOSE i \in DOMAIN d.regions : d.regions[i].id = r
<1>2. k \in DOMAIN d.regions /\ d.regions[k].id = r
  BY <1>1
<1>3. RegionDef(d, r) = d.regions[k]
  BY DEF RegionDef
<1> QED
  BY <1>2, <1>3

\* An entity starts in declared states.
LEMMA InitialMapIsDeclared ==
  ASSUME NEW d, Valid(d) PROVE Declared(d, InitialMap(d))
<1> SUFFICES ASSUME NEW r \in RegionIds(d) PROVE InitialMap(d)[r] \in StatesOf(d, r)
  BY DEF Declared, InitialMap, AllStates
<1>1. CASE IsParallel(d)
  <2>1. PICK i \in DOMAIN d.regions : d.regions[i].id = r /\ RegionDef(d, r) = d.regions[i]
    BY <1>1, RegionDefIsFound
  <2>2. d.regions[i].initial \in d.regions[i].states
    BY <1>1 DEF Valid, ValidParallel, ValidRegion
  <2> QED
    BY <1>1, <2>1, <2>2 DEF InitialMap, StatesOf
<1>2. CASE ~ IsParallel(d)
  BY <1>2 DEF Valid, ValidFlat, InitialMap, StatesOf
<1> QED
  BY <1>1, <1>2

\* A transition of a declared region leads to one of its states.
LEMMA TransitionsStayDeclared ==
  ASSUME NEW d \in Definitions, Valid(d), NEW t \in ToSet(d.transitions), RegionOf(t) \in RegionIds(d)
  PROVE  t.to \in StatesOf(d, RegionOf(t))
<1>1. CASE IsParallel(d)
  <2>1. t.region \in RegionIds(d) /\ t.to \in StatesOf(d, t.region)
    BY <1>1 DEF Valid, ValidParallel, TransitionFits
  <2>2. RegionOf(t) = t.region
    BY <2>1, DefinitionsAssumption DEF RegionOf
  <2> QED
    BY <2>1, <2>2
<1>2. CASE ~ IsParallel(d)
  BY <1>2 DEF Valid, ValidFlat, StatesOf
<1> QED
  BY <1>1, <1>2

\* So does the completion of a child.
LEMMA CompletionsStayDeclared ==
  ASSUME NEW d, Valid(d), NEW r \in RegionIds(d), NEW s \in DOMAIN SubsOf(d, r),
         NEW to \in SubsOf(d, r)[s].on_final \union SubsOf(d, r)[s].rules
  PROVE  to \in StatesOf(d, r)
<1>1. CASE IsParallel(d)
  <2>1. PICK i \in DOMAIN d.regions : d.regions[i].id = r /\ RegionDef(d, r) = d.regions[i]
    BY <1>1, RegionDefIsFound
  <2>2. ValidRegion(d, i)
    BY <1>1 DEF Valid, ValidParallel
  <2>3. SubsOf(d, r) = d.regions[i].subs /\ StatesOf(d, r) = d.regions[i].states
    BY <1>1, <2>1 DEF SubsOf, StatesOf
  <2> QED
    BY <2>2, <2>3 DEF ValidRegion, SubFits
<1>2. CASE ~ IsParallel(d)
  BY <1>2 DEF Valid, ValidFlat, SubFits, SubsOf, StatesOf
<1> QED
  BY <1>1, <1>2

\* And the joins that a definition may have without being a flat machine with joins.
LEMMA AcceptedJoinsFit ==
  ASSUME NEW d, Valid(d), IsParallel(d) \/ d.joins = <<>> PROVE JoinsFit(d)
<1>1. CASE IsParallel(d)
  BY <1>1 DEF Valid, ValidParallel, JoinsFit, ToSet
<1>2. CASE ~ IsParallel(d)
  BY <1>2 DEF JoinsFit
<1> QED
  BY <1>1, <1>2

\* To put a declared state into a declared region keeps a map declared.
LEMMA InsertStaysDeclared ==
  ASSUME NEW d, NEW map, Declared(d, map), NEW r \in RegionIds(d), NEW s \in StatesOf(d, r)
  PROVE  Declared(d, Insert(map, r, s))
<1>1. DOMAIN map \union {r} = RegionIds(d)
  BY DEF Declared
<1>2. Insert(map, r, s) = [x \in RegionIds(d) |-> IF x = r THEN s ELSE map[x]]
  BY <1>1 DEF Insert
<1>3. \A x \in RegionIds(d) : (IF x = r THEN s ELSE map[x]) \in StatesOf(d, x)
  BY DEF Declared
<1> QED
  BY <1>2, <1>3 DEF Declared, AllStates

-----------------------------------------------------------------------------
(* The row.                                                                *)

\* The definition was accepted.
Accepted == definition \in Definitions /\ Valid(definition)

\* The row's columns: what the state column holds is the encoding of a declared
\* map, and times are integers.
RowInv ==
  /\ row = [current |-> row.current, version |-> row.version, created_at |-> row.created_at,
            updated_at |-> row.updated_at, stored |-> row.stored]
  /\ row.current = Encode(row.current.map)
  /\ Declared(definition, row.current.map)
  /\ row.created_at \in Int /\ row.updated_at \in Int /\ clock \in Int
  /\ \A r \in DOMAIN row.stored.regions : row.stored.regions[r].entered_at \in Int

\* The engine's view of the entries has an entry time for each region: the stored
\* document's, or the row's own when the document is not about the row.
LEMMA EffectiveTimes ==
  ASSUME RowInv, NEW r \in DOMAIN StateMap
  PROVE  /\ Effective[r].entered_at =
              (IF /\ row.stored.version = row.version
                  /\ r \in DOMAIN row.stored.regions /\ row.stored.regions[r].state = StateMap[r]
               THEN row.stored.regions[r].entered_at ELSE row.updated_at)
         /\ Effective[r].entered_at \in Int
<1> DEFINE e == [states |-> StateMap, version |-> row.version, created_at |-> row.created_at,
                 updated_at |-> row.updated_at, stored |-> row.stored]
           m == [parallel |-> row.current.kind = "object"]
           believed == /\ row.stored.version = row.version
                       /\ r \in DOMAIN row.stored.regions /\ row.stored.regions[r].state = StateMap[r]
<1>1. Effective[r] = IF believed THEN row.stored.regions[r] ELSE LegacyEntry(m, e, r)
  BY DEF Effective, EffectiveEntries
<1>2. LegacyEntry(m, e, r).entered_at = row.updated_at
  BY DEF LegacyEntry
<1>3. CASE believed
  BY <1>1, <1>3 DEF RowInv
<1>4. CASE ~ believed
  <2> HIDE DEF m, e
  <2> QED
    BY <1>1, <1>2, <1>4 DEF RowInv
<1> QED
  BY <1>3, <1>4

\* A write of declared states keeps the row in order.
LEMMA WriteKeepsRow ==
  ASSUME RowInv, NEW r, NEW cascade, Declared(definition, cascade.map), Write(r, cascade)
  PROVE  RowInv'
<1>1. PICK entered :
        row' = [row EXCEPT !.current = Encode(cascade.map), !.version = @ + 1, !.updated_at = clock,
                           !.stored = StoreEntries(cascade.map, entered)]
  BY DEF Write
<1>2. definition' = definition /\ clock' = clock
  BY DEF Write
<1>3. /\ row' = [current |-> row'.current, version |-> row'.version, created_at |-> row'.created_at,
                 updated_at |-> row'.updated_at, stored |-> row'.stored]
      /\ row'.current = Encode(cascade.map) /\ row'.created_at = row.created_at /\ row'.updated_at = clock
      /\ row'.stored = StoreEntries(cascade.map, entered)
  BY <1>1 DEF RowInv
<1>4. Encode(cascade.map).map = cascade.map
  BY DEF Encode
<1>5. ASSUME NEW q \in DOMAIN StoreEntries(cascade.map, entered).regions
      PROVE  StoreEntries(cascade.map, entered).regions[q].entered_at \in Int
  <2>1. q \in DOMAIN cascade.map /\ q \in DOMAIN StateMap
    BY <1>5 DEF StoreEntries, AdvanceEntries, Declared, RowInv, StateMap
  <2>2. StoreEntries(cascade.map, entered).regions[q].entered_at \in {clock, Effective[q].entered_at}
    BY <2>1 DEF StoreEntries, AdvanceEntries, NewEntry
  <2>3. Effective[q].entered_at \in Int
    BY <2>1, EffectiveTimes
  <2> QED
    BY <2>2, <2>3 DEF RowInv
<1> QED
  BY <1>2, <1>3, <1>4, <1>5 DEF RowInv

-----------------------------------------------------------------------------
(* The invariant.                                                          *)

\* Flat machines with joins are outside: their joins are applied unchecked.
RulesInv == Accepted /\ (~ FlatWithJoins => RowInv)

\* Registration and creation put the row in order.
LEMMA RulesInit == Init => RulesInv
<1> SUFFICES ASSUME Init PROVE RulesInv
  OBVIOUS
<1>1. Accepted
  BY DEF Init, Accepted
<1>2. Declared(definition, InitialMap(definition))
  BY <1>1, InitialMapIsDeclared DEF Accepted
<1>3. row.current = Encode(InitialMap(definition)) /\ row.current.map = InitialMap(definition)
  BY DEF Init, Encode
<1>4. \A r \in DOMAIN row.stored.regions : row.stored.regions[r].entered_at \in Int
  BY DEF Init, InitialEntries
<1>5. RowInv
  BY <1>2, <1>3, <1>4 DEF Init, RowInv
<1> QED
  BY <1>1, <1>5 DEF RulesInv

\* A move within the definition, and what it joins, keeps the row in order.
LEMMA AdvanceKeepsRow ==
  ASSUME RowInv, JoinsFit(definition),
         NEW r \in RegionIds(definition), NEW to \in StatesOf(definition, r), Advance(r, to)
  PROVE  RowInv'
<1>1. Declared(definition, Insert(StateMap, r, to))
  BY InsertStaysDeclared DEF RowInv, StateMap
<1>2. Declared(definition, Cascade(definition, Insert(StateMap, r, to)).map)
  BY <1>1, CascadeStaysDeclared
<1> QED
  BY <1>2, WriteKeepsRow DEF Advance

\* Every step keeps the row of an accepted definition in order.
LEMMA RulesStep == RulesInv /\ [Next]_vars => RulesInv'
<1> SUFFICES ASSUME RulesInv, [Next]_vars PROVE RulesInv'
  OBVIOUS
<1>1. definition' = definition
  BY DEF Next, Event, Advance, Write, Completion, Fire, OldReplicaWrites, Tick, vars
<1>2. Accepted'
  BY <1>1 DEF RulesInv, Accepted
<1>3. FlatWithJoins' <=> FlatWithJoins
  BY <1>1 DEF FlatWithJoins
<1> SUFFICES ASSUME ~ FlatWithJoins PROVE RowInv'
  BY <1>2, <1>3 DEF RulesInv
<1>4. RowInv /\ definition \in Definitions /\ Valid(definition)
  BY DEF RulesInv, Accepted
<1>5. JoinsFit(definition)
  BY <1>4, AcceptedJoinsFit DEF FlatWithJoins
<1>6. DOMAIN StateMap = RegionIds(definition)
  BY <1>4 DEF RowInv, Declared, StateMap
<1>7. ASSUME NEW type \in Types, Event(type) PROVE RowInv'
  <2>1. PICK i \in DOMAIN definition.transitions :
          /\ Takes(definition.transitions[i], type)
          /\ Advance(RegionOf(definition.transitions[i]), definition.transitions[i].to)
    BY <1>7 DEF Event
  <2> DEFINE t == definition.transitions[i]
  <2>2. t \in ToSet(definition.transitions) /\ RegionOf(t) \in RegionIds(definition)
    BY <1>6, <2>1 DEF ToSet, Takes
  <2>3. t.to \in StatesOf(definition, RegionOf(t))
    BY <1>4, <2>2, TransitionsStayDeclared
  <2> HIDE DEF t
  <2> QED
    BY <1>4, <1>5, <2>1, <2>2, <2>3, AdvanceKeepsRow DEF t
<1>8. ASSUME NEW r \in RegionIds(definition), Completion(r) PROVE RowInv'
  <2>1. PICK to \in SubsOf(definition, r)[StateMap[r]].on_final \union SubsOf(definition, r)[StateMap[r]].rules :
          Advance(r, to)
    BY <1>8 DEF Completion
  <2>2. StateMap[r] \in DOMAIN SubsOf(definition, r)
    BY <1>8 DEF Completion
  <2>3. to \in StatesOf(definition, r)
    BY <1>4, <2>2, CompletionsStayDeclared
  <2> QED
    BY <1>4, <1>5, <2>1, <2>3, AdvanceKeepsRow
<1>9. ASSUME NEW t \in Timers, Fire(t) PROVE RowInv'
  <2>1. t \in ToSet(definition.transitions) /\ RegionOf(t) \in RegionIds(definition)
    BY <1>6, <1>9 DEF Timers, Fire, Due
  <2>2. t.to \in StatesOf(definition, RegionOf(t))
    BY <1>4, <2>1, TransitionsStayDeclared
  <2> DEFINE map == Insert(StateMap, RegionOf(t), t.to)
  <2>3. Declared(definition, map)
    BY <1>4, <2>1, <2>2, InsertStaysDeclared DEF RowInv, StateMap
  <2>4. Declared(definition, Cascade(definition, map).map)
    BY <1>5, <2>3, CascadeStaysDeclared
  <2>5. Declared(definition, Unjoined(map).map)
    BY <2>3 DEF Unjoined
  <2>6. Write(RegionOf(t), Cascade(definition, map)) \/ Write(RegionOf(t), Unjoined(map))
    BY <1>9 DEF Fire
  <2> HIDE DEF map
  <2> QED
    BY <1>4, <2>4, <2>5, <2>6, WriteKeepsRow
<1>10. ASSUME NEW t \in ToSet(definition.transitions), OldReplicaWrites(t) PROVE RowInv'
  <2> DEFINE map == Insert(StateMap, RegionOf(t), t.to)
  <2>1. RegionOf(t) \in RegionIds(definition)
    BY <1>6, <1>10 DEF OldReplicaWrites
  <2>2. t.to \in StatesOf(definition, RegionOf(t))
    BY <1>4, <2>1, TransitionsStayDeclared
  <2>3. Declared(definition, map)
    BY <1>4, <2>1, <2>2, InsertStaysDeclared DEF RowInv, StateMap
  <2>4. row' = [row EXCEPT !.current = Encode(map), !.version = @ + 1, !.updated_at = clock] /\ clock' = clock
    BY <1>10 DEF OldReplicaWrites
  <2>5. Encode(map).map = map
    BY DEF Encode
  <2> HIDE DEF map
  <2>6. /\ row' = [current |-> row'.current, version |-> row'.version, created_at |-> row'.created_at,
                   updated_at |-> row'.updated_at, stored |-> row'.stored]
        /\ row'.current = Encode(map) /\ row'.created_at = row.created_at /\ row'.updated_at = clock
        /\ row'.stored = row.stored
    BY <1>4, <2>4 DEF RowInv
  <2> QED
    BY <1>1, <1>4, <2>3, <2>4, <2>5, <2>6 DEF RowInv
<1>11. CASE Tick
  BY <1>4, <1>11 DEF Tick, RowInv
<1>12. CASE UNCHANGED vars
  BY <1>4, <1>12 DEF vars, RowInv
<1> QED
  BY <1>7, <1>8, <1>9, <1>10, <1>11, <1>12 DEF Next

\* So an accepted definition's row is always in order.
LEMMA RulesInvariant == Spec => []RulesInv
  BY RulesInit, RulesStep, PTL DEF Spec

-----------------------------------------------------------------------------
(* The theorems.                                                           *)

\* validate(): whatever definition it accepts, an entity is always in one of the
\* declared states in each of the declared regions, through events, timeouts,
\* joins, completions and the writes of older replicas.
THEOREM AcceptedStatesAreDeclared == Spec => []StatesAreDeclared
<1>1. RulesInv => StatesAreDeclared
  BY DEF RulesInv, RowInv, Declared, StatesAreDeclared, StateMap
<1> QED
  BY <1>1, RulesInvariant, PTL

\* timeout_candidates and fire_timeout: the query over the stored columns returns
\* exactly the entities that the check lets fire, on every row an accepted
\* definition can have (but for joins in a flat machine and for a lone region "_").
THEOREM TimersAreNeverOverlooked == Spec => []TimersAreFound
<1>1. ASSUME RulesInv PROVE TimersAreFound
  <2> SUFFICES ASSUME ~ FlatWithJoins, ~ LoneRegion, NEW t \in Timers
               PROVE  Due(t) <=> Candidate(t) /\ RegionOf(t) \in RegionIds(definition)
    BY DEF TimersAreFound
  <2>1. RowInv /\ Accepted
    BY <1>1 DEF RulesInv
  <2>2. DOMAIN StateMap = RegionIds(definition) /\ row.current = Encode(StateMap)
    BY <2>1 DEF RowInv, Declared, StateMap
  <2>3. row.updated_at \in Int /\ clock \in Int /\ t.after \in Int
    BY <2>1, DefinitionsAssumption DEF RowInv, Accepted, Timers
  <2>4. CASE RegionOf(t) \notin RegionIds(definition)
    BY <2>2, <2>4 DEF Due
  <2>5. CASE RegionOf(t) \in RegionIds(definition) /\ StateMap[RegionOf(t)] # t.from
    BY <2>2, <2>5 DEF Due, Candidate, InState, RegionIds
  <2>6. CASE RegionOf(t) \in RegionIds(definition) /\ StateMap[RegionOf(t)] = t.from
    <3>1. InState(t)
      <4>1. CASE IsParallel(definition)
        BY <2>2, <2>6, <4>1 DEF InState, LoneRegion, Encode
      <4>2. CASE ~ IsParallel(definition)
        <5>1. RegionIds(definition) = {DefaultRegion}
          BY <4>2 DEF RegionIds
        <5> QED
          BY <2>2, <2>6, <4>2, <5>1 DEF InState, Encode
      <4> QED
        BY <4>1, <4>2
    <3>2. EntryTime(t) = Effective[RegionOf(t)].entered_at /\ EntryTime(t) \in Int
      BY <2>1, <2>2, <2>6, EffectiveTimes DEF EntryTime
    <3> QED
      BY <2>2, <2>3, <2>6, <3>1, <3>2 DEF Due, Candidate, TimeoutDue
  <2> QED
    BY <2>4, <2>5, <2>6
<1> QED
  BY <1>1, RulesInvariant, PTL

\* child_entity_id: no accepted definition brings two regions into compound states
\* of one name, one of them with a managed child.
THEOREM ChildIdsAreUnshared == Spec => []OneOwnerPerChild
<1>1. ASSUME RulesInv PROVE OneOwnerPerChild
  <2> SUFFICES ASSUME NEW r \in RegionIds(definition), NEW q \in RegionIds(definition),
                      r \in DOMAIN StateMap, q \in DOMAIN StateMap, q # r,
                      StateMap[r] \in DOMAIN SubsOf(definition, r),
                      SubsOf(definition, r)[StateMap[r]].managed,
                      StateMap[q] \in DOMAIN SubsOf(definition, q)
               PROVE  StateMap[q] # StateMap[r]
    BY DEF OneOwnerPerChild
  <2>1. IsParallel(definition)
    BY DEF RegionIds
  <2>2. Valid(definition) /\ RowInv
    BY <1>1, <2>1 DEF RulesInv, Accepted, FlatWithJoins
  <2>3. PICK i \in DOMAIN definition.regions :
          definition.regions[i].id = r /\ RegionDef(definition, r) = definition.regions[i]
    BY <2>1, RegionDefIsFound
  <2>4. PICK j \in DOMAIN definition.regions :
          definition.regions[j].id = q /\ RegionDef(definition, q) = definition.regions[j]
    BY <2>1, RegionDefIsFound
  <2>5. SubsOf(definition, r) = definition.regions[i].subs
    BY <2>1, <2>3 DEF SubsOf
  <2>6. StateMap[q] \in definition.regions[j].states
    BY <2>1, <2>2, <2>4 DEF RowInv, Declared, StatesOf, StateMap
  <2>7. ~ Shared(definition, i, StateMap[r])
    BY <2>1, <2>2, <2>5 DEF Valid, ValidParallel, ValidRegion
  <2> QED
    BY <2>3, <2>4, <2>6, <2>7 DEF Shared
<1> QED
  BY <1>1, RulesInvariant, PTL
=============================================================================
