------------------------ MODULE LegacyChildrenProofs ------------------------
(***************************************************************************)
(* Theorems about LegacyChildren for every set of definitions, every       *)
(* request and every bound: no write meets the unique index; a parent      *)
(* completes only on evidence of its current visit; an event is handled    *)
(* once, on one path; an event that is answered "no transition" leaves no  *)
(* completion to be found, and one that is handled leaves none behind.     *)
(***************************************************************************)
EXTENDS LegacyChildren, RegionEngineProofs

-----------------------------------------------------------------------------
(* What the tables hold.                                                   *)

Regs(k) == DOMAIN Defs[k.machine].initial

IsRow(e) ==
  e = [states |-> e.states, context |-> e.context, version |-> e.version,
       created_at |-> e.created_at, updated_at |-> e.updated_at, stored |-> e.stored]

\* An entity of the machine k names, and its region instances.
Shape(k, e) ==
  /\ IsRow(e)
  /\ DOMAIN e.states = Regs(k)
  /\ e.version \in Nat \ {0}
  /\ \A r \in Regs(k) : /\ Entry(k, e, r).state = e.states[r]
                        /\ Entry(k, e, r).seq \in 0..e.version

\* The last row of a region leads to where the region is, and an entry that
\* knows how it came about agrees with that row.
IndexOK(h, k, e, r) ==
  LET entry == Entry(k, e, r)
      last  == LastOf(h, k, r)
  IN /\ last # 0 => h[last].to = e.states[r]
     /\ entry.row # 0 => entry.row = last
     /\ entry.row = 0 /\ entry.basis = "created" => last = 0

\* Instance n of region r is over.
Older(k, e, r, n) == r \in Regs(k) /\ n \in Nat /\ n < Entry(k, e, r).seq

\* The key of a row is its event's or lies behind its entity.
KeyOK(row, k, e) ==
  \/ row.key = NoIdentity
  \/ row.key = EventIdentity(row.type, row.ts)
  \/ row.key.kind = "timeout" /\ Older(k, e, row.key.name, row.key.n)
  \/ row.key.kind = "sub" /\ Older(k, e, row.key.name, row.key.n)
  \/ row.key.kind = "join" /\ row.key.n \in 0..e.version

RowOK(w, row) ==
  row.at \in DOMAIN w /\ row.region \in Regs(row.at) /\ KeyOK(row, row.at, w[row.at])

TableOK(w, h) ==
  /\ IsSeq(h)
  /\ \A k \in DOMAIN w : k \in Keys /\ Shape(k, w[k])
  /\ \A k \in DOMAIN w : \A r \in Regs(k) : IndexOK(h, k, w[k], r)
  /\ \A i \in DOMAIN h : RowOK(w, h[i])

\* Table h2 continues h.
Continues(h, h2) ==
  Len(h) <= Len(h2) /\ \A i \in 1..Len(h) : h2[i] = h[i]

-----------------------------------------------------------------------------
(* The calls a transaction still makes.                                    *)

\* q lies below p, properly or not.
Below(q, p) == Len(q) > Len(p) /\ SubSeq(q, 1, Len(p)) = p
AtOrBelow(q, p) == q = p \/ Below(q, p)

\* A child that became final under the call did so after the last row by which
\* the parent moved the region.
Fresh(w, h, k, r, s) ==
  LET child == ChildKey(k, r, s)
  IN IsFinal(w[child], SubOf(k, r, s)) => LastId(RowsOf(h, child)) > LastOf(h, k, r)

\* Call x of a transaction with answer `a` so far.
CallOK(x, w, h, a) ==
  \/ /\ x.op = "create"
     /\ x.at \in Keys /\ a = "created"
  \/ /\ x.op = "timer"
     /\ x.at \in DOMAIN w /\ a = "none"
  \/ /\ x.op = "event"
     /\ x.at \in DOMAIN w /\ a = "no_transition"
  \/ /\ x.op = "forward"
     /\ x.at \in DOMAIN w /\ x.region \in Regs(x.at)
     /\ a # "applied" => a = "no_transition" /\ w[x.at].states[x.region] = x.state
  \/ /\ x.op = "after"
     /\ x.at \in DOMAIN w /\ x.region \in Regs(x.at)
     /\ w[x.at].states[x.region] = x.state
     /\ IsCompound(x.at, x.region, x.state)
     /\ ChildKey(x.at, x.region, x.state) \in DOMAIN w
     /\ Fresh(w, h, x.at, x.region, x.state)

\* The calls of one stack belong to the addressee or to a child one of them
\* has forwarded to.
OpsOf(kind) == IF kind = "event" THEN {"event", "forward", "after"} ELSE {kind}

PlaceOK(x, C, req) ==
  /\ x.op \in OpsOf(req.kind)
  /\ \/ x.at = req.at
     \/ /\ Below(x.at.path, req.at.path)
        /\ \E y \in C : y.op = "after" /\ x.at = ChildKey(y.at, y.region, y.state)

\* A call lies at or below the calls under it, properly below those that wait for
\* it; the call that is not nested is alone.
Above(x, y) ==
  /\ y.op \in {"forward", "after"}
  /\ x.op = "event" => x.nested
  /\ AtOrBelow(x.at.path, y.at.path)
  /\ y.op = "after" => Below(x.at.path, y.at.path)

Ordered(calls) == \A i, j \in DOMAIN calls : i < j => Above(calls[i], calls[j])

StackOK(s, w, h, a, req) ==
  /\ IsSeq(s) /\ Ordered(s)
  /\ \A x \in Elements(s) : CallOK(x, w, h, a) /\ PlaceOK(x, Elements(s), req)

\* While a transaction runs its tables continue the committed ones, which it has
\* not touched yet unless it answers "applied" or is a timer's.
TxOK ==
  /\ request.at \in Keys
  /\ request.kind \in {"event", "timer", "create"}
  /\ request.kind = "event" => request.at \in DOMAIN entities
  /\ request.kind = "create" => reply = "created"
  /\ request.kind = "event" => \/ reply \in {"no_transition", "applied"}
                               \/ reply = "duplicate" /\ todo = <<>>
  /\ StackOK(todo, work, rows, reply, request)
  /\ Continues(history, rows)
  /\ DOMAIN entities \subseteq DOMAIN work
  /\ (request.kind = "create" \/ (request.kind = "event" /\ reply # "applied")) =>
       rows = history /\ \A k \in DOMAIN entities : work[k] = entities[k]

\* Between transactions the tables are the committed ones.
PhaseOK ==
  /\ phase \in {"idle", "tx"}
  /\ phase = "idle" => work = entities /\ rows = history
  /\ phase = "tx" => TxOK

LegacyInv ==
  /\ TableOK(entities, history)
  /\ TableOK(work, rows)
  /\ PhaseOK
  /\ NoWriterConflict

-----------------------------------------------------------------------------
(* Rows, keys and definitions.                                             *)

\* The last of a set of row ids is its greatest.
LEMMA LastIdIs ==
  ASSUME NEW n \in Nat, NEW ids, ids \subseteq 1..n
  PROVE  /\ LastId(ids) \in 0..n
         /\ ids = {} <=> LastId(ids) = 0
         /\ ids # {} => LastId(ids) \in ids /\ \A j \in ids : j <= LastId(ids)
<1>1. CASE ids = {}
  BY <1>1 DEF LastId
<1>2. CASE ids # {}
  <2>1. \E i \in ids : \A j \in ids : j <= i
    BY <1>2, MaxExists
  <2>2. LastId(ids) = CHOOSE i \in ids : \A j \in ids : j <= i
    BY <1>2 DEF LastId
  <2>3. LastId(ids) \in ids /\ \A j \in ids : j <= LastId(ids)
    BY <2>1, <2>2
  <2>4. LastId(ids) \in 1..n
    BY <2>3
  <2>5. LastId(ids) \in 0..n /\ LastId(ids) # 0
    BY <2>4
  <2>6. QED
    BY <1>2, <2>3, <2>5
<1>3. QED
  BY <1>1, <1>2

\* An id that is greatest is the last.
LEMMA LastIdIsUnique ==
  ASSUME NEW n \in Nat, NEW ids, ids \subseteq 1..n, NEW x \in ids, \A j \in ids : j <= x
  PROVE  LastId(ids) = x
<1>1. ids # {} /\ LastId(ids) \in ids /\ \A j \in ids : j <= LastId(ids)
  <2>1. ids # {}
    OBVIOUS
  <2>2. QED
    BY <2>1, LastIdIs
<1>2. \A j \in ids : j \in Nat
  OBVIOUS
<1>3. LastId(ids) \in Nat /\ x \in Nat
  BY <1>1, <1>2
<1>4. x <= LastId(ids) /\ LastId(ids) <= x
  BY <1>1
<1>5. QED
  BY <1>3, <1>4

\* The rows of an entity and the last of a region.
LEMMA RowsOfIs ==
  ASSUME NEW h, IsSeq(h), NEW k, NEW r
  PROVE  /\ Len(h) \in Nat /\ DOMAIN h = 1..Len(h)
         /\ RowsOf(h, k) \subseteq 1..Len(h)
         /\ LastOf(h, k, r) \in 0..Len(h) /\ LastId(RowsOf(h, k)) \in 0..Len(h)
         /\ LastOf(h, k, r) # 0 => LastOf(h, k, r) \in RowsOf(h, k) /\ h[LastOf(h, k, r)].region = r
         /\ \A i \in RowsOf(h, k) : /\ i <= LastId(RowsOf(h, k))
                                    /\ h[i].region = r => i <= LastOf(h, k, r) /\ LastOf(h, k, r) # 0
         /\ LastId(RowsOf(h, k)) # 0 => LastId(RowsOf(h, k)) \in RowsOf(h, k)
<1> DEFINE ids == {i \in RowsOf(h, k) : h[i].region = r}
<1>1. Len(h) \in Nat /\ DOMAIN h = 1..Len(h) /\ RowsOf(h, k) \subseteq 1..Len(h)
  BY SeqDomain DEF RowsOf
<1>2. ids \subseteq 1..Len(h) /\ LastOf(h, k, r) = LastId(ids)
  BY <1>1 DEF LastOf
<1>3. /\ LastId(ids) \in 0..Len(h)
      /\ ids = {} <=> LastId(ids) = 0
      /\ ids # {} => LastId(ids) \in ids /\ \A j \in ids : j <= LastId(ids)
  <2> HIDE DEF ids
  <2>1. QED
    BY <1>1, <1>2, LastIdIs
<1>4. /\ LastId(RowsOf(h, k)) \in 0..Len(h)
      /\ RowsOf(h, k) = {} <=> LastId(RowsOf(h, k)) = 0
      /\ RowsOf(h, k) # {} => /\ LastId(RowsOf(h, k)) \in RowsOf(h, k)
                              /\ \A j \in RowsOf(h, k) : j <= LastId(RowsOf(h, k))
  BY <1>1, LastIdIs
<1>5. QED
  BY <1>1, <1>2, <1>3, <1>4

\* What DefsAssumption says of the machine of a key.
LEMMA DefinitionIs ==
  ASSUME NEW k \in Keys
  PROVE  /\ k = [machine |-> k.machine, path |-> k.path]
         /\ k.machine \in DOMAIN Defs /\ k.path \in Seq(StateNames)
         /\ IsSeq(RegionsOf(k)) /\ Elements(RegionsOf(k)) = Regs(k)
         /\ IsSeq(Defs[k.machine].joins)
         /\ \A i \in DOMAIN Defs[k.machine].joins : Defs[k.machine].joins[i].target_region \in Regs(k)
         /\ \A r, q, s : IsCompound(k, r, s) /\ IsCompound(k, q, s) => r = q
         /\ \A r, s : IsCompound(k, r, s) => r \in Regs(k) /\ SubOf(k, r, s).machine \in DOMAIN Defs
                                             /\ s \in StateNames
<1>1. k = [machine |-> k.machine, path |-> k.path] /\ k.machine \in DOMAIN Defs /\ k.path \in Seq(StateNames)
  BY DEF Keys
<1> DEFINE m == Defs[k.machine]
<1>2. /\ IsSeq(m.regions) /\ IsSeq(m.joins)
      /\ {m.regions[i] : i \in DOMAIN m.regions} = DOMAIN m.initial
      /\ \A i \in DOMAIN m.joins : m.joins[i].target_region \in DOMAIN m.initial
      /\ \A c, d \in DOMAIN m.subs : c[2] = d[2] => c = d
      /\ \A c \in DOMAIN m.subs : c[1] \in DOMAIN m.initial /\ m.subs[c].machine \in DOMAIN Defs
  BY <1>1, DefsAssumption
<1>3. ASSUME NEW r, NEW q, NEW s, IsCompound(k, r, s), IsCompound(k, q, s) PROVE r = q
  <2>1. <<r, s>> \in DOMAIN m.subs /\ <<q, s>> \in DOMAIN m.subs
    BY <1>3 DEF IsCompound
  <2>2. <<r, s>>[2] = s /\ <<q, s>>[2] = s
    OBVIOUS
  <2>3. <<r, s>> = <<q, s>>
    BY <1>2, <2>1, <2>2
  <2>4. QED
    BY <2>3
<1>4. ASSUME NEW r, NEW s, IsCompound(k, r, s)
      PROVE  r \in Regs(k) /\ SubOf(k, r, s).machine \in DOMAIN Defs /\ s \in StateNames
  <2>1. <<r, s>> \in DOMAIN m.subs
    BY <1>4 DEF IsCompound
  <2>2. <<r, s>>[1] = r /\ <<r, s>>[2] = s
    OBVIOUS
  <2>3. s \in {c[2] : c \in DOMAIN m.subs}
    BY <2>1, <2>2
  <2>4. s \in StateNames
    BY <1>1, <2>3 DEF StateNames
  <2>5. QED
    BY <1>2, <2>1, <2>2, <2>4 DEF Regs, SubOf
<1>5. QED
  BY <1>1, <1>2, <1>3, <1>4 DEF Regs, RegionsOf, Elements

\* Lying below is a strict order, towards longer paths.
LEMMA BelowIs ==
  ASSUME NEW S, NEW p \in Seq(S), NEW q \in Seq(S), NEW r \in Seq(S)
  PROVE  /\ Below(r, q) /\ Below(q, p) => Below(r, p)
         /\ Below(q, p) => Len(q) > Len(p) /\ ~ Below(p, q) /\ q # p
         /\ Len(p) \in Nat /\ Len(q) \in Nat
<1>1. Len(p) \in Nat /\ Len(q) \in Nat /\ Len(r) \in Nat
  OBVIOUS
<1>2. ASSUME Below(r, q), Below(q, p) PROVE Below(r, p)
  <2>1. /\ Len(r) > Len(q) /\ SubSeq(r, 1, Len(q)) = q
        /\ Len(q) > Len(p) /\ SubSeq(q, 1, Len(p)) = p
    BY <1>2 DEF Below
  <2>2. SubSeq(SubSeq(r, 1, Len(q)), 1, Len(p)) = SubSeq(r, 1, Len(p))
    BY <1>1, <2>1
  <2>3. QED
    BY <1>1, <2>1, <2>2 DEF Below
<1>3. ASSUME Below(q, p) PROVE Len(q) > Len(p) /\ ~ Below(p, q) /\ q # p
  BY <1>1, <1>3 DEF Below
<1>4. QED
  BY <1>1, <1>2, <1>3

\* A child lies below its parent.
LEMMA ChildKeyIs ==
  ASSUME NEW k \in Keys, NEW r, NEW s, IsCompound(k, r, s)
  PROVE  LET child == ChildKey(k, r, s)
         IN /\ child \in Keys /\ child.path = Append(k.path, s)
            /\ Len(child.path) = Len(k.path) + 1
            /\ Below(child.path, k.path) /\ child # k
<1> DEFINE child == ChildKey(k, r, s)
<1>1. /\ k.path \in Seq(StateNames) /\ s \in StateNames
      /\ SubOf(k, r, s).machine \in DOMAIN Defs
  BY DefinitionIs
<1>2. child.path = Append(k.path, s) /\ child = [machine |-> SubOf(k, r, s).machine, path |-> Append(k.path, s)]
  BY DEF ChildKey
<1>3. Append(k.path, s) \in Seq(StateNames) /\ Len(Append(k.path, s)) = Len(k.path) + 1
  BY <1>1
<1>4. child \in Keys
  BY <1>1, <1>2, <1>3 DEF Keys
<1>5. SubSeq(Append(k.path, s), 1, Len(k.path)) = k.path
  BY <1>1
<1>6. Len(k.path) \in Nat
  BY <1>1
<1> HIDE DEF child
<1>7. Below(child.path, k.path)
  BY <1>2, <1>3, <1>5, <1>6 DEF Below
<1>8. child # k
  BY <1>2, <1>3, <1>6
<1>9. QED
  BY <1>2, <1>3, <1>4, <1>7, <1>8 DEF child

-----------------------------------------------------------------------------
(* One write.                                                              *)

\* The main row of a write.
MainRowIs(row, k, spec) ==
  /\ row.at = k /\ row.type = spec.type /\ row.ts = spec.ts /\ row.params = spec.params
  /\ row.key = spec.key /\ row.region = spec.region /\ row.from = spec.from /\ row.to = spec.to
  /\ row.cause = spec.cause

\* The row of a join it fired.
JoinRowIs(row, k, version) ==
  /\ row.at = k /\ row.type = "$join" /\ row.cause = NoCause
  /\ row.key.kind = "join" /\ row.key.n = version

\* The rows of one write.
LEMMA NewRowsAre ==
  ASSUME NEW k, NEW spec, IsSeq(spec.fired), NEW version
  PROVE  LET new == NewRows(k, spec, version)
         IN /\ IsSeq(new) /\ Len(new) = 1 + Len(spec.fired) /\ DOMAIN new = 1..Len(new)
            /\ Len(spec.fired) \in Nat /\ DOMAIN spec.fired = 1..Len(spec.fired)
            /\ MainRowIs(new[1], k, spec)
            /\ \A j \in 1..Len(spec.fired) : JoinRowIs(new[1 + j], k, version)
            /\ MainAndJoins(new, spec.region, spec.to, spec.fired)
<1> DEFINE main == [at |-> k, type |-> spec.type, ts |-> spec.ts, params |-> spec.params, key |-> spec.key,
                    region |-> spec.region, from |-> spec.from, to |-> spec.to, cause |-> spec.cause]
           join(j) == [at |-> k, type |-> "$join", ts |-> spec.ts, params |-> <<>>,
                       key |-> JoinIdentity(spec.fired[j].region, version, j - 1),
                       region |-> spec.fired[j].region, from |-> spec.fired[j].from,
                       to |-> spec.fired[j].to, cause |-> NoCause]
           t == [j \in DOMAIN spec.fired |-> join(j)]
           new == NewRows(k, spec, version)
<1>1. Len(spec.fired) \in Nat /\ DOMAIN spec.fired = 1..Len(spec.fired)
  BY SeqDomain
<1>2. new = <<main>> \o t
  BY DEF NewRows
<1>3. \A j \in DOMAIN spec.fired : t[j] = join(j)
  OBVIOUS
<1>4. MainRowIs(main, k, spec)
  BY DEF MainRowIs
<1>5. \A j : /\ JoinRowIs(join(j), k, version)
             /\ join(j).region = spec.fired[j].region /\ join(j).to = spec.fired[j].to
  BY DEF JoinRowIs, JoinIdentity
<1> HIDE DEF main, join
<1>6. IsSeq(t) /\ Len(t) = Len(spec.fired)
  <2>1. t \in [1..Len(spec.fired) -> {join(j) : j \in 1..Len(spec.fired)}]
    BY <1>1
  <2> HIDE DEF t
  <2>2. QED
    BY <1>1, <2>1, FunctionIsSeq
<1> HIDE DEF t, new
<1>7. /\ IsSeq(new) /\ Len(new) = 1 + Len(t) /\ new[1] = main
      /\ \A j \in 1..Len(t) : new[1 + j] = t[j]
  BY <1>2, <1>6, PrependIsSeq
<1>8. DOMAIN new = 1..Len(new)
  BY <1>7, SeqDomain
<1>9. \A j \in 1..Len(spec.fired) : new[1 + j] = join(j)
  BY <1>1, <1>3, <1>6, <1>7
<1>10. MainAndJoins(new, spec.region, spec.to, spec.fired)
  BY <1>4, <1>5, <1>6, <1>7, <1>9 DEF MainAndJoins, MainRowIs
<1>11. QED
  BY <1>1, <1>4, <1>5, <1>6, <1>7, <1>8, <1>9, <1>10 DEF new

\* What a write of `new` rows makes of an entity e.
Advanced(m, e, new, first, version, e2) ==
  /\ e2.version = version /\ e2.states = SetAll(e.states, new)
  /\ e2.stored = AdvanceEntries(EffectiveEntries(m, e), e2.states,
                                [j \in DOMAIN new |-> [region |-> new[j].region, state |-> new[j].to,
                                                       row |-> first + j]],
                                version, Now)

\* A region has the instance its last row entered, or the one it had.
LEMMA AdvancedEntries ==
  ASSUME NEW m, NEW e, NEW new, IsSeq(new), NEW first, NEW version, NEW e2,
         Advanced(m, e, new, first, version, e2),
         NEW r \in DOMAIN e.states, EffectiveEntries(m, e)[r].state = e.states[r]
  PROVE  /\ DOMAIN e2.states = DOMAIN e.states
         /\ LastFor(new, r) = {} => /\ EffectiveEntries(m, e2)[r] = EffectiveEntries(m, e)[r]
                                    /\ e2.states[r] = e.states[r]
         /\ \A i \in LastFor(new, r) :
              /\ EffectiveEntries(m, e2)[r] = NewEntry(new[i].to, version, Now, first + i)
              /\ e2.states[r] = new[i].to
<1> DEFINE entered == [j \in DOMAIN new |-> [region |-> new[j].region, state |-> new[j].to,
                                             row |-> first + j]]
           old == EffectiveEntries(m, e)
<1>1. /\ e2.version = version /\ e2.states = SetAll(e.states, new)
      /\ e2.stored = AdvanceEntries(old, e2.states, entered, version, Now)
  BY DEF Advanced
<1>2. /\ DOMAIN entered = DOMAIN new
      /\ \A j \in DOMAIN new : /\ entered[j].region = new[j].region /\ entered[j].state = new[j].to
                               /\ entered[j].row = first + j
  OBVIOUS
<1> HIDE DEF entered, old
<1>3. LastFor(entered, r) = LastFor(new, r) /\ LastFor(new, r) \subseteq DOMAIN new
  BY <1>2 DEF LastFor
<1>4. DOMAIN e2.states = DOMAIN e.states
  BY <1>1 DEF SetAll
<1>5. e2.stored.version = e2.version /\ DOMAIN e2.stored.regions = DOMAIN e.states
  BY <1>1, <1>4 DEF AdvanceEntries
<1>6. ASSUME e2.stored.regions[r].state = e2.states[r]
      PROVE  EffectiveEntries(m, e2)[r] = e2.stored.regions[r]
  BY <1>4, <1>5, <1>6 DEF EffectiveEntries
<1>7. CASE LastFor(new, r) = {}
  <2>1. e2.states[r] = e.states[r]
    BY <1>1, <1>7 DEF SetAll
  <2>2. e2.stored.regions[r] = old[r]
    BY <1>1, <1>3, <1>4, <1>7, <2>1 DEF AdvanceEntries, old
  <2>3. QED
    BY <1>4, <1>6, <1>7, <2>1, <2>2 DEF old
<1>8. ASSUME NEW i \in LastFor(new, r)
      PROVE  /\ EffectiveEntries(m, e2)[r] = NewEntry(new[i].to, version, Now, first + i)
             /\ e2.states[r] = new[i].to
  <2>1. LastFor(new, r) = {i}
    BY LastForIsUnique
  <2>2. (CHOOSE j \in {i} : TRUE) = i
    OBVIOUS
  <2>3. e2.states[r] = new[i].to
    BY <1>1, <2>1, <2>2 DEF SetAll
  <2>4. e2.stored.regions[r] = NewEntry(entered[i].state, version, Now, entered[i].row)
    BY <1>1, <1>3, <1>4, <2>1, <2>2 DEF AdvanceEntries
  <2>5. NewEntry(new[i].to, version, Now, first + i).state = new[i].to
    BY DEF NewEntry
  <2>6. QED
    BY <1>2, <1>3, <1>6, <2>3, <2>4, <2>5
<1>9. QED
  BY <1>4, <1>7, <1>8

\* Table h2 is h with new rows of entity k added.
RowsAre(new, k) == \A j \in DOMAIN new : new[j].at = k

Appended(h, new, k, h2) ==
  /\ IsSeq(h2) /\ Len(h2) = Len(h) + Len(new) /\ Continues(h, h2)
  /\ \A j \in DOMAIN new : Len(h) + j \in RowsOf(h2, k) /\ h2[Len(h) + j] = new[j]
  /\ \A i \in DOMAIN h2 : i \in DOMAIN h \/ \E j \in DOMAIN new : i = Len(h) + j
  /\ \A p : p # k => RowsOf(h2, p) = RowsOf(h, p)
  /\ RowsOf(h2, k) = RowsOf(h, k) \union {Len(h) + j : j \in DOMAIN new}
  /\ \A p, r : p # k => LastOf(h2, p, r) = LastOf(h, p, r)
  /\ \A r : LastFor(new, r) = {} => LastOf(h2, k, r) = LastOf(h, k, r)
  /\ \A r : \A i \in LastFor(new, r) : LastOf(h2, k, r) = Len(h) + i

\* The last row of a region in a table that new rows of entity k are added to.
LEMMA LastOfAppended ==
  ASSUME NEW h, IsSeq(h), NEW new, IsSeq(new), NEW k, RowsAre(new, k)
  PROVE  Appended(h, new, k, h \o new)
<1> DEFINE h2 == h \o new
<1>1. /\ Len(h) \in Nat /\ DOMAIN h = 1..Len(h)
      /\ Len(new) \in Nat /\ DOMAIN new = 1..Len(new)
  BY SeqDomain
<1>2. /\ IsSeq(h2) /\ Len(h2) = Len(h) + Len(new)
      /\ \A i \in 1..Len(h) : h2[i] = h[i]
      /\ \A j \in 1..Len(new) : h2[Len(h) + j] = new[j]
  BY ConcatIsSeq
<1>3. DOMAIN h2 = 1..(Len(h) + Len(new))
  BY <1>2, SeqDomain
<1> HIDE DEF h2
<1>4. Continues(h, h2)
  BY <1>1, <1>2 DEF Continues
<1>5. \A i \in DOMAIN h2 : \/ i \in DOMAIN h /\ h2[i] = h[i]
                           \/ \E j \in DOMAIN new : i = Len(h) + j /\ h2[i] = new[j]
  <2>1. SUFFICES ASSUME NEW i \in DOMAIN h2, i \notin DOMAIN h
                 PROVE  \E j \in DOMAIN new : i = Len(h) + j /\ h2[i] = new[j]
    BY <1>1, <1>2
  <2>2. i - Len(h) \in 1..Len(new) /\ Len(h) + (i - Len(h)) = i
    BY <1>1, <1>3, <2>1
  <2>3. QED
    BY <1>1, <1>2, <2>2
<1>6. /\ \A i \in DOMAIN h : i \in DOMAIN h2 /\ h2[i] = h[i]
      /\ \A j \in DOMAIN new : Len(h) + j \in DOMAIN h2 /\ h2[Len(h) + j] = new[j] /\ Len(h) + j \notin DOMAIN h
  BY <1>1, <1>2, <1>3
<1>7. \A p : p # k => RowsOf(h2, p) = RowsOf(h, p)
  BY <1>5, <1>6 DEF RowsOf, RowsAre
<1>8. RowsOf(h2, k) = RowsOf(h, k) \union {Len(h) + j : j \in DOMAIN new}
  BY <1>5, <1>6 DEF RowsOf, RowsAre
<1>9. ASSUME NEW p, NEW r, p # k PROVE LastOf(h2, p, r) = LastOf(h, p, r)
  <2>1. {i \in RowsOf(h2, p) : h2[i].region = r} = {i \in RowsOf(h, p) : h[i].region = r}
    BY <1>6, <1>7, <1>9 DEF RowsOf
  <2>2. QED
    BY <2>1 DEF LastOf
<1>10. ASSUME NEW r, LastFor(new, r) = {} PROVE LastOf(h2, k, r) = LastOf(h, k, r)
  <2>1. \A j \in DOMAIN new : new[j].region # r
    BY <1>10, LastForIsUnique
  <2>2. {i \in RowsOf(h2, k) : h2[i].region = r} = {i \in RowsOf(h, k) : h[i].region = r}
    BY <1>6, <1>8, <2>1 DEF RowsOf
  <2>3. QED
    BY <2>2 DEF LastOf
<1>11. ASSUME NEW r, NEW i \in LastFor(new, r) PROVE LastOf(h2, k, r) = Len(h) + i
  <2>1. i \in DOMAIN new /\ new[i].region = r /\ \A j \in DOMAIN new : new[j].region = r => j <= i
    BY <1>11 DEF LastFor
  <2> DEFINE ids == {x \in RowsOf(h2, k) : h2[x].region = r}
  <2>2. Len(h) + i \in ids
    BY <1>6, <1>8, <2>1
  <2>3. ASSUME NEW x \in ids PROVE x <= Len(h) + i
    <3>1. CASE x \in DOMAIN h
      BY <1>1, <2>1, <3>1
    <3>2. CASE \E j \in DOMAIN new : x = Len(h) + j /\ h2[x] = new[j]
      BY <1>1, <2>1, <3>2
    <3>3. QED
      BY <1>5, <3>1, <3>2 DEF RowsOf
  <2>4. ids \subseteq 1..(Len(h) + Len(new)) /\ Len(h) + Len(new) \in Nat
    BY <1>1, <1>3 DEF RowsOf
  <2> HIDE DEF ids
  <2>5. LastId(ids) = Len(h) + i
    BY <2>2, <2>3, <2>4, LastIdIsUnique
  <2>6. QED
    BY <2>5 DEF ids, LastOf
<1>12. QED
  BY <1>2, <1>4, <1>5, <1>6, <1>7, <1>8, <1>9, <1>10, <1>11 DEF h2, Appended

\* What a write must be to keep the tables: its state map is the old one with the
\* transition and the joins, and its key is the event's or names the instance
\* that is left.
SpecOK(k, e, spec) ==
  /\ IsSeq(spec.fired) /\ \A j \in DOMAIN spec.fired : spec.fired[j].region \in Regs(k)
  /\ spec.region \in Regs(k)
  /\ spec.states = SetAll([e.states EXCEPT ![spec.region] = spec.to], spec.fired)
  /\ \/ spec.key = EventIdentity(spec.type, spec.ts)
     \/ /\ spec.key.kind \in {"timeout", "sub"} /\ spec.key.name = spec.region
        /\ spec.key.n = Entry(k, e, spec.region).seq

FreshKey(h, k, spec) == \A i \in RowsOf(h, k) : h[i].key # spec.key

\* Region r as a write of k leaves it: as it was, or moved by a new row.
RegionKept(k, r, w, h, w2, h2) ==
  /\ w2[k].states[r] = w[k].states[r] /\ Entry(k, w2[k], r) = Entry(k, w[k], r)
  /\ LastOf(h2, k, r) = LastOf(h, k, r)

\* What a write of k makes of the tables.
Wrote(k, spec, w, h, w2, h2) ==
  /\ Continues(h, h2) /\ Len(h) < Len(h2)
  /\ DOMAIN w2 = DOMAIN w /\ \A p \in DOMAIN w : p # k => w2[p] = w[p]
  /\ w2[k].version > w[k].version
  /\ MainRowIs(h2[Len(h) + 1], k, spec)
  /\ \A i \in Len(h) + 2..Len(h2) : h2[i].at = k /\ h2[i].type = "$join" /\ h2[i].cause = NoCause
  /\ \A p : p # k => RowsOf(h2, p) = RowsOf(h, p)
  /\ \A p, r : p # k => LastOf(h2, p, r) = LastOf(h, p, r)
  /\ LastId(RowsOf(h2, k)) = Len(h2)
  /\ LastOf(h2, k, spec.region) > Len(h)
  /\ \A r \in Regs(k) : RegionKept(k, r, w, h, w2, h2) \/ LastOf(h2, k, r) > Len(h)
  /\ TableOK(w2, h2)

\* The kinds of identities.
LEMMA KeyKinds ==
  /\ NoIdentity.kind = "null"
  /\ \A x, n : /\ EventIdentity(x, n).kind = "evt" /\ EventIdentity(x, n).name = x
               /\ EventIdentity(x, n).n = n
  /\ \A x, n : /\ TimeoutIdentity(x, n).kind = "timeout" /\ TimeoutIdentity(x, n).name = x
               /\ TimeoutIdentity(x, n).n = n
  /\ \A x, s, n : /\ SubCompleteIdentity(x, s, n).kind = "sub" /\ SubCompleteIdentity(x, s, n).name = x
                  /\ SubCompleteIdentity(x, s, n).n = n
BY DEF NoIdentity, EventIdentity, TimeoutIdentity, SubCompleteIdentity

\* No row of a write has the key of a row its entity has.
LEMMA NewKeysAreFresh ==
  ASSUME NEW w, NEW h, TableOK(w, h), NEW k \in DOMAIN w, NEW spec, IsSeq(spec.fired),
         FreshKey(h, k, spec),
         NEW i \in DOMAIN NewRows(k, spec, w[k].version + 1), NEW j \in RowsOf(h, k)
  PROVE  NewRows(k, spec, w[k].version + 1)[i].key # h[j].key
<1> DEFINE version == w[k].version + 1
           new == NewRows(k, spec, version)
<1>1. /\ Len(new) = 1 + Len(spec.fired) /\ DOMAIN new = 1..Len(new)
      /\ Len(spec.fired) \in Nat
      /\ MainRowIs(new[1], k, spec)
      /\ \A n \in 1..Len(spec.fired) : JoinRowIs(new[1 + n], k, version)
  BY NewRowsAre
<1>2. i \in DOMAIN new
  OBVIOUS
<1>3. w[k].version \in Nat /\ KeyOK(h[j], k, w[k])
  BY DEF TableOK, Shape, RowsOf, RowOK
<1> HIDE DEF new
<1>4. i = 1 \/ (i - 1 \in 1..Len(spec.fired) /\ 1 + (i - 1) = i)
  BY <1>1, <1>2
<1>5. CASE i = 1
  <2>1. new[i].key = spec.key
    BY <1>1, <1>5 DEF MainRowIs
  <2>2. new[i].key # h[j].key
    BY <2>1 DEF FreshKey
  <2>3. QED
    BY <2>2 DEF new
<1>6. CASE i - 1 \in 1..Len(spec.fired) /\ 1 + (i - 1) = i
  <2>1. JoinRowIs(new[1 + (i - 1)], k, version)
    BY <1>1, <1>6
  <2>2. JoinRowIs(new[i], k, version)
    BY <1>6, <2>1
  <2>3. new[i].key.kind = "join" /\ new[i].key.n = version
    BY <2>2 DEF JoinRowIs
  <2>4. h[j].key.kind = "join" => h[j].key.n \in 0..w[k].version
    BY <1>3, KeyKinds DEF KeyOK
  <2>5. new[i].key # h[j].key
    BY <1>3, <2>3, <2>4
  <2>6. QED
    BY <2>5 DEF new
<1>7. QED
  BY <1>4, <1>5, <1>6

\* The new rows and the written entity of a write.
Writing(w, h, k, spec, new, e2) ==
  /\ TableOK(w, h) /\ k \in DOMAIN w /\ SpecOK(k, w[k], spec)
  /\ new = NewRows(k, spec, w[k].version + 1)
  /\ IsRow(e2) /\ Advanced(Defs[k.machine], w[k], new, Len(h), w[k].version + 1, e2)

Written(w, h, k, spec, e2, h2) ==
  /\ Shape(k, e2)
  /\ LastOf(h2, k, spec.region) > Len(h)
  /\ Entry(k, e2, spec.region).seq = e2.version
  /\ \A r \in Regs(k) :
       /\ IndexOK(h2, k, e2, r)
       /\ Entry(k, e2, r).seq >= Entry(k, w[k], r).seq
       /\ \/ /\ e2.states[r] = w[k].states[r] /\ Entry(k, e2, r) = Entry(k, w[k], r)
             /\ LastOf(h2, k, r) = LastOf(h, k, r)
          \/ LastOf(h2, k, r) > Len(h)

\* The written entity.
LEMMA WrittenEntityIs ==
  ASSUME NEW w, NEW h, NEW k, NEW spec, NEW new, NEW e2, Writing(w, h, k, spec, new, e2),
         NEW h2, h2 = h \o new
  PROVE  Written(w, h, k, spec, e2, h2)
<1> DEFINE e == w[k]
           m == Defs[k.machine]
<1> /\ TableOK(w, h) /\ k \in DOMAIN w /\ SpecOK(k, w[k], spec)
    /\ new = NewRows(k, spec, w[k].version + 1)
    /\ IsRow(e2) /\ Advanced(m, e, new, Len(h), e.version + 1, e2)
  BY DEF Writing
<1>1. /\ Shape(k, e) /\ \A r \in Regs(k) : IndexOK(h, k, e, r)
      /\ IsSeq(h) /\ Len(h) \in Nat /\ DOMAIN h = 1..Len(h)
  BY SeqDomain DEF TableOK
<1>2. /\ DOMAIN e.states = Regs(k) /\ e.version \in Nat \ {0}
      /\ \A r \in Regs(k) : /\ EffectiveEntries(m, e)[r].state = e.states[r]
                            /\ Entry(k, e, r).seq \in 0..e.version
  BY <1>1 DEF Shape, Entry
<1>3. IsSeq(spec.fired)
  BY DEF SpecOK
<1>4. /\ IsSeq(new) /\ Len(new) = 1 + Len(spec.fired) /\ DOMAIN new = 1..Len(new) /\ Len(spec.fired) \in Nat
      /\ MainRowIs(new[1], k, spec)
      /\ \A j \in 1..Len(spec.fired) : JoinRowIs(new[1 + j], k, w[k].version + 1)
  <2>1. LET n == NewRows(k, spec, w[k].version + 1)
        IN /\ IsSeq(n) /\ Len(n) = 1 + Len(spec.fired) /\ DOMAIN n = 1..Len(n) /\ Len(spec.fired) \in Nat
           /\ MainRowIs(n[1], k, spec)
           /\ \A j \in 1..Len(spec.fired) : JoinRowIs(n[1 + j], k, w[k].version + 1)
    BY <1>3, NewRowsAre
  <2>2. QED
    BY <2>1
<1>5. \A j \in DOMAIN new : new[j].at = k
  <2>1. SUFFICES ASSUME NEW j \in DOMAIN new PROVE new[j].at = k
    OBVIOUS
  <2>2. j = 1 \/ (j - 1 \in 1..Len(spec.fired) /\ 1 + (j - 1) = j)
    BY <1>4
  <2>3. QED
    BY <1>4, <2>2 DEF MainRowIs, JoinRowIs
<1>6. /\ \A j \in DOMAIN new : h2[Len(h) + j] = new[j]
      /\ \A r : LastFor(new, r) = {} => LastOf(h2, k, r) = LastOf(h, k, r)
      /\ \A r : \A i \in LastFor(new, r) : LastOf(h2, k, r) = Len(h) + i
      /\ Continues(h, h2)
  <2>1. RowsAre(new, k)
    BY <1>5 DEF RowsAre
  <2>2. Appended(h, new, k, h2)
    BY <1>1, <1>4, <2>1, LastOfAppended
  <2>3. QED
    BY <2>2 DEF Appended
<1>7. e2.version = e.version + 1 /\ DOMAIN e2.states = Regs(k)
  BY <1>2 DEF Advanced, SetAll
<1>8. ASSUME NEW r \in Regs(k)
      PROVE  /\ LastFor(new, r) = {} => /\ Entry(k, e2, r) = Entry(k, e, r)
                                        /\ e2.states[r] = e.states[r]
             /\ \A i \in LastFor(new, r) :
                  /\ Entry(k, e2, r) = NewEntry(new[i].to, e.version + 1, Now, Len(h) + i)
                  /\ e2.states[r] = new[i].to
  <2>1. PICK f : f = Len(h)
    OBVIOUS
  <2>2. PICK v : v = e.version + 1
    OBVIOUS
  <2>3. Advanced(m, e, new, f, v, e2)
    BY <2>1, <2>2
  <2>4. r \in DOMAIN e.states /\ EffectiveEntries(m, e)[r].state = e.states[r]
    BY <1>2, <1>8
  <2> HIDE DEF e, m
  <2>5. /\ LastFor(new, r) = {} => /\ EffectiveEntries(m, e2)[r] = EffectiveEntries(m, e)[r]
                                   /\ e2.states[r] = e.states[r]
        /\ \A i \in LastFor(new, r) :
             /\ EffectiveEntries(m, e2)[r] = NewEntry(new[i].to, v, Now, f + i)
             /\ e2.states[r] = new[i].to
    BY <1>4, <2>3, <2>4, AdvancedEntries
  <2>6. QED
    BY <2>1, <2>2, <2>5 DEF Entry, m
<1>9. \A r \in Regs(k) : LastFor(new, r) = {} \/ \E i \in LastFor(new, r) : i \in 1..Len(new)
  BY <1>4, LastForIsUnique
<1>10. ASSUME NEW r \in Regs(k), NEW i \in LastFor(new, r), i \in 1..Len(new)
       PROVE  /\ LastOf(h2, k, r) = Len(h) + i /\ Len(h) + i > Len(h)
              /\ h2[Len(h) + i].to = e2.states[r]
              /\ Entry(k, e2, r).row = Len(h) + i /\ Entry(k, e2, r).seq = e.version + 1
              /\ Entry(k, e2, r).state = e2.states[r]
  <2>1. Entry(k, e2, r) = NewEntry(new[i].to, e.version + 1, Now, Len(h) + i) /\ e2.states[r] = new[i].to
    BY <1>8, <1>10
  <2>2. \A s, v, n : NewEntry(s, v, Now, n).row = n /\ NewEntry(s, v, Now, n).seq = v
                     /\ NewEntry(s, v, Now, n).state = s
    BY DEF NewEntry
  <2>3. QED
    BY <1>1, <1>4, <1>6, <1>10, <2>1, <2>2
<1>11. LastFor(new, spec.region) # {}
  <2>1. 1 \in DOMAIN new /\ new[1].region = spec.region
    BY <1>4 DEF MainRowIs
  <2>2. QED
    BY <1>4, <2>1, LastForExists
<1>12. ASSUME NEW r \in Regs(k)
       PROVE  /\ IndexOK(h2, k, e2, r)
              /\ Entry(k, e2, r).seq >= Entry(k, e, r).seq
              /\ Entry(k, e2, r).state = e2.states[r] /\ Entry(k, e2, r).seq \in 0..e2.version
              /\ \/ /\ e2.states[r] = e.states[r] /\ Entry(k, e2, r) = Entry(k, e, r)
                    /\ LastOf(h2, k, r) = LastOf(h, k, r)
                 \/ LastOf(h2, k, r) > Len(h)
  <2>1. CASE LastFor(new, r) = {}
    <3>1. /\ Entry(k, e2, r) = Entry(k, e, r) /\ e2.states[r] = e.states[r]
          /\ LastOf(h2, k, r) = LastOf(h, k, r)
      BY <1>6, <1>8, <2>1
    <3>2. LastOf(h, k, r) \in 0..Len(h)
      BY <1>1, RowsOfIs
    <3>3. LastOf(h, k, r) # 0 => h2[LastOf(h, k, r)] = h[LastOf(h, k, r)]
      BY <1>1, <1>6, <3>2 DEF Continues
    <3>4. IndexOK(h2, k, e2, r)
      BY <1>1, <3>1, <3>3 DEF IndexOK
    <3>5. QED
      BY <1>2, <1>7, <3>1, <3>4 DEF Entry
  <2>2. ASSUME NEW i \in LastFor(new, r), i \in 1..Len(new)
        PROVE  /\ IndexOK(h2, k, e2, r)
               /\ Entry(k, e2, r).seq >= Entry(k, e, r).seq
               /\ Entry(k, e2, r).state = e2.states[r] /\ Entry(k, e2, r).seq \in 0..e2.version
               /\ LastOf(h2, k, r) > Len(h)
    <3>1. /\ LastOf(h2, k, r) = Len(h) + i /\ Len(h) + i > Len(h)
          /\ h2[Len(h) + i].to = e2.states[r]
          /\ Entry(k, e2, r).row = Len(h) + i /\ Entry(k, e2, r).seq = e.version + 1
          /\ Entry(k, e2, r).state = e2.states[r]
      BY <1>10, <1>12, <2>2
    <3>2. Len(h) + i # 0
      BY <1>1, <2>2
    <3>3. IndexOK(h2, k, e2, r)
      <4>1. PICK n : n = Len(h) + i
        OBVIOUS
      <4>2. n # 0 /\ LastOf(h2, k, r) = n /\ h2[n].to = e2.states[r] /\ Entry(k, e2, r).row = n
        BY <3>1, <3>2, <4>1
      <4>3. QED
        BY <4>2 DEF IndexOK
    <3>4. Entry(k, e2, r).seq >= Entry(k, e, r).seq /\ Entry(k, e2, r).seq \in 0..e2.version
      BY <1>2, <1>7, <3>1
    <3>5. QED
      BY <3>1, <3>3, <3>4
  <2>3. QED
    BY <1>9, <2>1, <2>2
<1>13. Shape(k, e2)
  BY <1>2, <1>7, <1>12 DEF Shape
<1>14. LastOf(h2, k, spec.region) > Len(h) /\ Entry(k, e2, spec.region).seq = e2.version
  <2>1. spec.region \in Regs(k)
    BY DEF SpecOK
  <2>2. PICK i \in LastFor(new, spec.region) : i \in 1..Len(new)
    BY <1>9, <1>11, <2>1
  <2>3. QED
    BY <1>7, <1>10, <2>1, <2>2
<1>15. QED
  BY <1>12, <1>13, <1>14 DEF Written

\* A write of fresh rows keeps the tables.
LEMMA WroteIs ==
  ASSUME NEW w, NEW h, NEW k, NEW spec, NEW new, NEW e2, Writing(w, h, k, spec, new, e2),
         NEW w2, w2 = [w EXCEPT ![k] = e2], NEW h2, h2 = h \o new
  PROVE  Wrote(k, spec, w, h, w2, h2)
<1> /\ TableOK(w, h) /\ k \in DOMAIN w /\ SpecOK(k, w[k], spec)
    /\ new = NewRows(k, spec, w[k].version + 1)
    /\ IsRow(e2) /\ Advanced(Defs[k.machine], w[k], new, Len(h), w[k].version + 1, e2)
  BY DEF Writing
<1>1. /\ Shape(k, e2) /\ LastOf(h2, k, spec.region) > Len(h)
      /\ Entry(k, e2, spec.region).seq = e2.version
      /\ \A r \in Regs(k) :
           /\ IndexOK(h2, k, e2, r)
           /\ Entry(k, e2, r).seq >= Entry(k, w[k], r).seq
           /\ \/ /\ e2.states[r] = w[k].states[r] /\ Entry(k, e2, r) = Entry(k, w[k], r)
                 /\ LastOf(h2, k, r) = LastOf(h, k, r)
              \/ LastOf(h2, k, r) > Len(h)
  <2>1. Written(w, h, k, spec, e2, h2)
    BY WrittenEntityIs
  <2>2. QED
    BY <2>1 DEF Written
<1>2. IsSeq(h) /\ Len(h) \in Nat /\ DOMAIN h = 1..Len(h)
  BY SeqDomain DEF TableOK
<1>3. IsSeq(spec.fired)
  BY DEF SpecOK
<1>4. /\ IsSeq(new) /\ Len(new) = 1 + Len(spec.fired) /\ DOMAIN new = 1..Len(new) /\ Len(spec.fired) \in Nat
      /\ MainRowIs(new[1], k, spec)
      /\ \A j \in 1..Len(spec.fired) : JoinRowIs(new[1 + j], k, w[k].version + 1)
      /\ MainAndJoins(new, spec.region, spec.to, spec.fired)
  <2>1. LET n == NewRows(k, spec, w[k].version + 1)
        IN /\ IsSeq(n) /\ Len(n) = 1 + Len(spec.fired) /\ DOMAIN n = 1..Len(n) /\ Len(spec.fired) \in Nat
           /\ MainRowIs(n[1], k, spec)
           /\ \A j \in 1..Len(spec.fired) : JoinRowIs(n[1 + j], k, w[k].version + 1)
           /\ MainAndJoins(n, spec.region, spec.to, spec.fired)
    BY <1>3, NewRowsAre
  <2>2. QED
    BY <2>1
<1>5. \A j \in DOMAIN new : j = 1 \/ (j - 1 \in 1..Len(spec.fired) /\ 1 + (j - 1) = j)
  BY <1>4
<1>6. \A j \in DOMAIN new : new[j].at = k
  BY <1>4, <1>5 DEF MainRowIs, JoinRowIs
<1>7. Appended(h, new, k, h2)
  <2>1. RowsAre(new, k)
    BY <1>6 DEF RowsAre
  <2>2. QED
    BY <1>2, <1>4, <2>1, LastOfAppended
<1>8. /\ IsSeq(h2) /\ Len(h2) = Len(h) + Len(new) /\ Continues(h, h2)
      /\ \A j \in DOMAIN new : Len(h) + j \in RowsOf(h2, k) /\ h2[Len(h) + j] = new[j]
      /\ \A i \in DOMAIN h2 : i \in DOMAIN h \/ \E j \in DOMAIN new : i = Len(h) + j
      /\ \A p : p # k => RowsOf(h2, p) = RowsOf(h, p)
      /\ RowsOf(h2, k) = RowsOf(h, k) \union {Len(h) + j : j \in DOMAIN new}
      /\ \A p, r : p # k => LastOf(h2, p, r) = LastOf(h, p, r)
  BY <1>7 DEF Appended
<1>9. DOMAIN h2 = 1..Len(h2) /\ Len(h2) \in Nat
  BY <1>8, SeqDomain
<1>10. /\ DOMAIN w2 = DOMAIN w /\ w2[k] = e2 /\ \A p \in DOMAIN w : p # k => w2[p] = w[p]
  OBVIOUS
<1>11. e2.version = w[k].version + 1 /\ w[k].version \in Nat
  BY DEF Advanced, TableOK, Shape
<1>12. LastId(RowsOf(h2, k)) = Len(h2)
  <2>1. Len(h2) \in RowsOf(h2, k)
    <3>1. Len(new) \in DOMAIN new
      BY <1>4
    <3>2. QED
      BY <1>8, <3>1
  <2>2. RowsOf(h2, k) \subseteq 1..Len(h2)
    BY <1>9 DEF RowsOf
  <2>3. QED
    BY <1>9, <2>1, <2>2, LastIdIsUnique
<1>13. ASSUME NEW i \in Len(h) + 2..Len(h2)
       PROVE  h2[i].at = k /\ h2[i].type = "$join" /\ h2[i].cause = NoCause
  <2>1. i - Len(h) - 1 \in 1..Len(spec.fired) /\ Len(h) + (1 + (i - Len(h) - 1)) = i
        /\ 1 + (i - Len(h) - 1) \in DOMAIN new
    <3>1. Len(h2) = Len(h) + (1 + Len(spec.fired)) /\ i \in Len(h) + 2..Len(h2)
      BY <1>4, <1>8, <1>13
    <3>2. Len(h) \in Nat /\ Len(spec.fired) \in Nat /\ DOMAIN new = 1..(1 + Len(spec.fired))
      BY <1>2, <1>4
    <3>3. QED
      BY <3>1, <3>2
  <2>2. h2[i] = new[1 + (i - Len(h) - 1)]
    BY <1>8, <2>1
  <2>3. QED
    BY <1>4, <2>1, <2>2 DEF JoinRowIs
<1>14. MainRowIs(h2[Len(h) + 1], k, spec) /\ Len(h) < Len(h2)
  BY <1>2, <1>4, <1>8
<1>15. \A i \in DOMAIN h : h2[i] = h[i]
  BY <1>2, <1>8 DEF Continues
<1>16. ASSUME NEW p \in DOMAIN w2
       PROVE  /\ p \in Keys /\ Shape(p, w2[p])
              /\ \A r \in Regs(p) : IndexOK(h2, p, w2[p], r)
  <2>1. p \in Keys
    BY <1>10 DEF TableOK
  <2>2. CASE p = k
    BY <1>1, <1>10, <2>1, <2>2
  <2>3. CASE p # k
    <3>1. p \in DOMAIN w /\ w2[p] = w[p] /\ Shape(p, w[p]) /\ \A r \in Regs(p) : IndexOK(h, p, w[p], r)
      BY <1>10, <2>3 DEF TableOK
    <3>2. ASSUME NEW r \in Regs(p) PROVE IndexOK(h2, p, w2[p], r)
      <4>1. LastOf(h2, p, r) = LastOf(h, p, r)
        BY <1>8, <2>3
      <4>2. LastOf(h, p, r) \in 0..Len(h)
        BY <1>2, RowsOfIs
      <4>3. LastOf(h, p, r) # 0 => h2[LastOf(h, p, r)] = h[LastOf(h, p, r)]
        BY <1>2, <1>15, <4>2
      <4>4. QED
        BY <3>1, <4>1, <4>3 DEF IndexOK
    <3>3. QED
      BY <2>1, <3>1, <3>2
  <2>4. QED
    BY <2>2, <2>3
<1>17. ASSUME NEW i \in DOMAIN h PROVE RowOK(w2, h2[i])
  <2>1. RowOK(w, h[i]) /\ h2[i] = h[i]
    BY <1>15 DEF TableOK
  <2> DEFINE p == h[i].at
  <2>2. p \in DOMAIN w2 /\ h[i].region \in Regs(p) /\ KeyOK(h[i], p, w[p])
    BY <1>10, <2>1 DEF RowOK
  <2>3. CASE p # k
    BY <1>10, <2>1, <2>2, <2>3 DEF RowOK
  <2>4. CASE p = k
    <3>1. /\ \A r, n : Older(k, w[k], r, n) => Older(k, e2, r, n)
      <4>1. SUFFICES ASSUME NEW r, NEW n, Older(k, w[k], r, n) PROVE Older(k, e2, r, n)
        OBVIOUS
      <4>2. r \in Regs(k) /\ n \in Nat /\ n < Entry(k, w[k], r).seq
        BY <4>1 DEF Older
      <4>3. Entry(k, e2, r).seq >= Entry(k, w[k], r).seq
        BY <1>1, <4>2
      <4>4. Entry(k, e2, r).seq \in Int /\ Entry(k, w[k], r).seq \in Int
        BY <1>1, <1>11, <4>2 DEF Shape, TableOK
      <4>5. QED
        BY <4>2, <4>3, <4>4 DEF Older
    <3>2. \A n : n \in 0..w[k].version => n \in 0..e2.version
      BY <1>11
    <3>3. KeyOK(h[i], k, e2)
      BY <2>2, <2>4, <3>1, <3>2 DEF KeyOK
    <3>4. QED
      BY <1>10, <2>1, <2>2, <2>4, <3>3 DEF RowOK
  <2>5. QED
    BY <2>3, <2>4
<1>18. ASSUME NEW j \in DOMAIN new PROVE RowOK(w2, new[j])
  <2>1. CASE j = 1
    <3>1. /\ new[1].at = k /\ new[1].region = spec.region /\ new[1].key = spec.key
          /\ new[1].type = spec.type /\ new[1].ts = spec.ts /\ spec.region \in Regs(k)
      BY <1>4 DEF MainRowIs, SpecOK
    <3>2. KeyOK(new[1], k, e2)
      <4>1. CASE spec.key = EventIdentity(spec.type, spec.ts)
        BY <3>1, <4>1 DEF KeyOK
      <4>2. CASE /\ spec.key.kind \in {"timeout", "sub"} /\ spec.key.name = spec.region
                 /\ spec.key.n = Entry(k, w[k], spec.region).seq
        <5>1. Entry(k, w[k], spec.region).seq \in 0..w[k].version
          BY <3>1 DEF TableOK, Shape
        <5>2. Older(k, e2, spec.region, Entry(k, w[k], spec.region).seq)
          BY <1>1, <1>11, <3>1, <5>1 DEF Older
        <5>3. QED
          BY <3>1, <4>2, <5>2 DEF KeyOK
      <4>3. QED
        BY <4>1, <4>2 DEF SpecOK
    <3>3. QED
      BY <1>10, <2>1, <3>1, <3>2 DEF RowOK
  <2>2. CASE j - 1 \in 1..Len(spec.fired) /\ 1 + (j - 1) = j
    <3>1. JoinRowIs(new[j], k, w[k].version + 1) /\ new[j].region = spec.fired[j - 1].region
      BY <1>4, <2>2 DEF MainAndJoins
    <3>2. spec.fired[j - 1].region \in Regs(k)
      <4>1. DOMAIN spec.fired = 1..Len(spec.fired)
        BY <1>3, SeqDomain
      <4>2. QED
        BY <2>2, <4>1 DEF SpecOK
    <3>3. KeyOK(new[j], k, e2)
      BY <1>11, <3>1 DEF KeyOK, JoinRowIs
    <3>4. QED
      BY <1>10, <3>1, <3>2, <3>3 DEF RowOK, JoinRowIs
  <2>3. QED
    BY <1>5, <2>1, <2>2
<1>19. TableOK(w2, h2)
  <2>1. ASSUME NEW i \in DOMAIN h2 PROVE RowOK(w2, h2[i])
    BY <1>8, <1>17, <1>18
  <2>2. QED
    BY <1>8, <1>16, <2>1 DEF TableOK
<1>20. \A r \in Regs(k) : RegionKept(k, r, w, h, w2, h2) \/ LastOf(h2, k, r) > Len(h)
  BY <1>1, <1>10 DEF RegionKept
<1>21. w2[k].version > w[k].version
  BY <1>10, <1>11
<1>22. QED
  BY <1>1, <1>8, <1>10, <1>12, <1>13, <1>14, <1>19, <1>20, <1>21 DEF Wrote

\* Such a write succeeds, and is all that becomes of the tables.
LEMMA WriteSucceeds ==
  ASSUME TableOK(work, rows), NEW k \in DOMAIN work, NEW spec, SpecOK(k, work[k], spec),
         FreshKey(rows, k, spec), NEW answer, WriteEntity(k, spec, answer)
  PROVE  Wrote(k, spec, work, rows, work', rows') /\ reply' = answer /\ Return(<<>>)
<1> DEFINE e == work[k]
           new == NewRows(k, spec, e.version + 1)
           e2 == work'[k]
<1>1. ~ \E i \in DOMAIN new, j \in RowsOf(rows, k) : new[i].key = rows[j].key
  <2>1. IsSeq(spec.fired)
    BY DEF SpecOK
  <2>2. QED
    BY <2>1, NewKeysAreFresh
<1>2. /\ rows' = rows \o new /\ reply' = answer /\ Return(<<>>)
      /\ work' = [work EXCEPT ![k] =
           [e EXCEPT !.states = spec.states, !.context = spec.context, !.version = e.version + 1,
                     !.stored = AdvanceEntries(EffectiveEntries(Defs[k.machine], e), spec.states,
                                  [j \in DOMAIN new |-> [region |-> new[j].region, state |-> new[j].to,
                                                         row |-> Len(rows) + j]],
                                  e.version + 1, Now)]]
  BY <1>1 DEF WriteEntity
<1>3. IsRow(e)
  BY DEF TableOK, Shape
<1>4. /\ IsRow(e2) /\ e2.states = spec.states /\ e2.version = e.version + 1
      /\ e2.stored = AdvanceEntries(EffectiveEntries(Defs[k.machine], e), spec.states,
                                    [j \in DOMAIN new |-> [region |-> new[j].region, state |-> new[j].to,
                                                           row |-> Len(rows) + j]],
                                    e.version + 1, Now)
      /\ work' = [work EXCEPT ![k] = e2]
  BY <1>2, <1>3 DEF IsRow
<1>5. spec.states = SetAll(e.states, new)
  <2>1. IsSeq(new) /\ MainAndJoins(new, spec.region, spec.to, spec.fired)
    <3>1. IsSeq(spec.fired)
      BY DEF SpecOK
    <3>2. QED
      BY <3>1, NewRowsAre
  <2>2. IsSeq(spec.fired) /\ spec.region \in DOMAIN e.states
    BY DEF SpecOK, TableOK, Shape
  <2> HIDE DEF e, new
  <2>3. SetAll(e.states, new) = SetAll([e.states EXCEPT ![spec.region] = spec.to], spec.fired)
    BY <2>1, <2>2, SetMainAndJoins
  <2>4. QED
    BY <2>3 DEF e, SpecOK
<1>6. Advanced(Defs[k.machine], e, new, Len(rows), e.version + 1, e2)
  BY <1>4, <1>5 DEF Advanced
<1>7. PICK n, f, w2, h2 : n = new /\ f = e2 /\ w2 = work' /\ h2 = rows'
  OBVIOUS
<1>8. Wrote(k, spec, work, rows, w2, h2)
  <2>1. IsRow(f) /\ Advanced(Defs[k.machine], work[k], n, Len(rows), work[k].version + 1, f)
    BY <1>4, <1>6, <1>7
  <2>2. n = NewRows(k, spec, work[k].version + 1) /\ w2 = [work EXCEPT ![k] = f] /\ h2 = rows \o n
    BY <1>2, <1>4, <1>7
  <2>3. Writing(work, rows, k, spec, n, f)
    BY <2>1, <2>2 DEF Writing
  <2> HIDE DEF e, new, e2
  <2>4. QED
    BY <2>2, <2>3, WroteIs
<1>9. QED
  BY <1>2, <1>7, <1>8

-----------------------------------------------------------------------------
(* What the calls write.                                                   *)

\* A transition of region r to `to` and the joins that follow.
Cascades(k, e, spec) ==
  /\ spec.region \in Regs(k)
  /\ LET moved == [e.states EXCEPT ![spec.region] = spec.to]
     IN \/ \E c \in ApplyJoins(Defs[k.machine], moved) : spec.states = c.states /\ spec.fired = c.fired
        \/ spec.states = moved /\ spec.fired = <<>>

\* The joins of a cascade move regions of the machine.
LEMMA CascadeIs ==
  ASSUME NEW k \in Keys, NEW e, Shape(k, e), NEW spec, Cascades(k, e, spec)
  PROVE  /\ IsSeq(spec.fired) /\ \A j \in DOMAIN spec.fired : spec.fired[j].region \in Regs(k)
         /\ spec.region \in Regs(k)
         /\ spec.states = SetAll([e.states EXCEPT ![spec.region] = spec.to], spec.fired)
<1> DEFINE m == Defs[k.machine]
           moved == [e.states EXCEPT ![spec.region] = spec.to]
<1>1. spec.region \in Regs(k)
  BY DEF Cascades
<1>2. IsSeq(m.joins) /\ \A i \in DOMAIN m.joins : m.joins[i].target_region \in Regs(k)
  BY DefinitionIs
<1>3. moved = [r \in DOMAIN moved |-> moved[r]]
  OBVIOUS
<1>4. \/ \E c \in ApplyJoins(m, moved) : spec.states = c.states /\ spec.fired = c.fired
      \/ spec.states = moved /\ spec.fired = <<>>
  BY DEF Cascades
<1> HIDE DEF m, moved
<1>5. ASSUME NEW c \in ApplyJoins(m, moved), spec.states = c.states, spec.fired = c.fired
      PROVE  /\ IsSeq(spec.fired) /\ \A j \in DOMAIN spec.fired : spec.fired[j].region \in Regs(k)
             /\ spec.states = SetAll(moved, spec.fired)
  <2>1. Accounts(moved, c)
    BY <1>2, <1>3, ApplyJoinsAccounts
  <2>2. FiredMoves(m, c.fired)
    BY <1>2, ApplyJoinsFires
  <2>3. QED
    BY <1>2, <1>5, <2>1, <2>2 DEF Accounts, FiredMoves
<1>6. ASSUME spec.states = moved, spec.fired = <<>>
      PROVE  /\ IsSeq(spec.fired) /\ \A j \in DOMAIN spec.fired : spec.fired[j].region \in Regs(k)
             /\ spec.states = SetAll(moved, spec.fired)
  <2>1. SetAll(moved, <<>>) = moved
    BY <1>3, SetNothing
  <2>2. IsSeq(<<>>) /\ DOMAIN <<>> = {}
    BY FewElements
  <2>3. QED
    BY <1>6, <2>1, <2>2
<1>7. QED
  BY <1>1, <1>4, <1>5, <1>6 DEF moved

\* The identity of an event that is new to its entity is new.
LEMMA EventKeyIsFresh ==
  ASSUME TableOK(work, rows), NEW k \in DOMAIN work, NEW ev, Dedup(k, ev) = "new",
         NEW spec, spec.key = EventIdentity(ev.type, ev.ts)
  PROVE  FreshKey(rows, k, spec)
<1>1. SUFFICES ASSUME NEW i \in RowsOf(rows, k), rows[i].key = spec.key
               PROVE  FALSE
  BY DEF FreshKey
<1>2. KeyOK(rows[i], k, work[k]) /\ i \in DOMAIN rows
  BY DEF TableOK, RowsOf, RowOK
<1>3. rows[i].key.kind = "evt"
  BY <1>1, KeyKinds
<1>4. rows[i].key = EventIdentity(rows[i].type, rows[i].ts)
  BY <1>2, <1>3, KeyKinds DEF KeyOK
<1>5. rows[i].type = ev.type /\ rows[i].ts = ev.ts
  <2>1. spec.key.name = ev.type /\ spec.key.n = ev.ts
    BY KeyKinds
  <2>2. rows[i].key.name = rows[i].type /\ rows[i].key.n = rows[i].ts
    BY <1>4, KeyKinds
  <2>3. QED
    BY <1>1, <2>1, <2>2
<1>6. i \in SameIdentity(k, ev)
  BY <1>5 DEF SameIdentity
<1>7. QED
  BY <1>6 DEF Dedup

\* The identity of an instance's end is new while the instance lasts.
LEMMA InstanceKeyIsFresh ==
  ASSUME NEW w, NEW h, TableOK(w, h), NEW k \in DOMAIN w, NEW spec,
         spec.key.kind \in {"timeout", "sub"}, spec.key.name = spec.region,
         spec.key.n = Entry(k, w[k], spec.region).seq
  PROVE  FreshKey(h, k, spec)
<1>1. SUFFICES ASSUME NEW i \in RowsOf(h, k), h[i].key = spec.key
               PROVE  FALSE
  BY DEF FreshKey
<1>2. KeyOK(h[i], k, w[k])
  BY DEF TableOK, RowsOf, RowOK
<1>3. Older(k, w[k], spec.region, Entry(k, w[k], spec.region).seq)
  BY <1>1, <1>2, KeyKinds DEF KeyOK
<1>4. QED
  BY <1>3 DEF Older

\* Each write of a call is one that keeps the tables.
LEMMA EventSpec ==
  ASSUME TableOK(work, rows), NEW k \in DOMAIN work, NEW ev, Dedup(k, ev) = "new",
         NEW t \in MatchOf(k, ev), NEW spec \in EventWrites(work[k], ev, t, Defs[k.machine])
  PROVE  /\ SpecOK(k, work[k], spec) /\ FreshKey(rows, k, spec)
         /\ spec.type = ev.type /\ spec.ts = ev.ts /\ spec.params = ev.params /\ spec.cause = NoCause
<1>1. k \in Keys /\ Shape(k, work[k])
  BY DEF TableOK
<1>2. t.region \in Regs(k)
  BY <1>1 DEF MatchOf, Evaluate, Matching, Shape
<1>3. /\ spec.type = ev.type /\ spec.ts = ev.ts /\ spec.region = t.region /\ spec.to = t.to
      /\ spec.key = EventIdentity(ev.type, ev.ts) /\ spec.params = ev.params /\ spec.cause = NoCause
      /\ \E c \in ApplyJoins(Defs[k.machine], [work[k].states EXCEPT ![t.region] = t.to]) :
           spec.states = c.states /\ spec.fired = c.fired
  BY DEF EventWrites
<1>4. Cascades(k, work[k], spec)
  BY <1>2, <1>3 DEF Cascades
<1>5. SpecOK(k, work[k], spec)
  BY <1>1, <1>3, <1>4, CascadeIs DEF SpecOK
<1>6. QED
  BY <1>3, <1>5, EventKeyIsFresh

LEMMA AdvanceSpec ==
  ASSUME TableOK(work, rows), NEW call, call.at \in DOMAIN work, call.region \in Regs(call.at),
         NEW ev, NEW target, NEW cause, NEW spec \in AdvanceWrites(call, ev, target, cause)
  PROVE  /\ SpecOK(call.at, work[call.at], spec) /\ FreshKey(rows, call.at, spec)
         /\ spec.type = "$sub_complete" /\ spec.region = call.region /\ spec.from = call.state
         /\ spec.to = target /\ spec.cause = cause /\ spec.ts = ev.ts
<1> DEFINE k == call.at
           e == work[k]
<1>1. k \in Keys /\ Shape(k, e)
  BY DEF TableOK
<1>2. /\ spec.type = "$sub_complete" /\ spec.ts = ev.ts /\ spec.region = call.region /\ spec.to = target
      /\ spec.from = call.state /\ spec.cause = cause
      /\ spec.key = SubCompleteIdentity(call.region, call.state, Entry(k, e, call.region).seq)
      /\ \E c \in ApplyJoins(Defs[k.machine], [e.states EXCEPT ![call.region] = target]) :
           spec.states = c.states /\ spec.fired = c.fired
  BY DEF AdvanceWrites, Entry
<1>3. Cascades(k, e, spec)
  BY <1>2 DEF Cascades
<1>4. /\ spec.key.kind \in {"timeout", "sub"} /\ spec.key.name = spec.region
      /\ spec.key.n = Entry(k, e, spec.region).seq
  BY <1>2, KeyKinds
<1>5. FreshKey(rows, k, spec)
  BY <1>4, InstanceKeyIsFresh
<1>6. SpecOK(k, e, spec)
  BY <1>1, <1>3, <1>4, CascadeIs DEF SpecOK
<1>7. QED
  BY <1>2, <1>5, <1>6

LEMMA TimeoutSpec ==
  ASSUME TableOK(work, rows), NEW k \in DOMAIN work, NEW t, TimerPending(k, t),
         NEW spec \in TimeoutWrites(work[k], t, Defs[k.machine])
  PROVE  /\ SpecOK(k, work[k], spec) /\ FreshKey(rows, k, spec)
         /\ spec.type = "$timeout" /\ spec.cause = NoCause
<1> DEFINE e == work[k]
           m == Defs[k.machine]
           moved == [e.states EXCEPT ![t.region] = t.to]
<1>1. k \in Keys /\ Shape(k, e)
  BY DEF TableOK
<1>2. t.region \in Regs(k)
  BY <1>1 DEF TimerPending, Shape
<1>3. /\ spec.type = "$timeout" /\ spec.region = t.region /\ spec.to = t.to /\ spec.cause = NoCause
      /\ spec.key = TimeoutIdentity(t.region, Entry(k, e, t.region).seq)
      /\ \E c \in (IF m.parallel THEN ApplyJoins(m, moved) ELSE {[states |-> moved, fired |-> <<>>]}) :
           spec.states = c.states /\ spec.fired = c.fired
  BY DEF TimeoutWrites, Entry
<1>4. Cascades(k, e, spec)
  BY <1>2, <1>3 DEF Cascades
<1>5. /\ spec.key.kind \in {"timeout", "sub"} /\ spec.key.name = spec.region
      /\ spec.key.n = Entry(k, e, spec.region).seq
  BY <1>3, KeyKinds
<1>6. FreshKey(rows, k, spec)
  BY <1>5, InstanceKeyIsFresh
<1>7. SpecOK(k, e, spec)
  BY <1>1, <1>4, <1>5, CascadeIs DEF SpecOK
<1>8. QED
  BY <1>3, <1>6, <1>7

-----------------------------------------------------------------------------
(* What the tables say of a region and of a child.                         *)

\* The rows of a flat entity are those of its one region.
LEMMA FlatLast ==
  ASSUME NEW w, NEW h, TableOK(w, h), NEW k \in DOMAIN w, DOMAIN w[k].states = {DefaultRegion}
  PROVE  /\ LastId(RowsOf(h, k)) = LastOf(h, k, DefaultRegion)
         /\ LastId(RowsOf(h, k)) # 0 => h[LastId(RowsOf(h, k))].to = w[k].states[DefaultRegion]
<1>1. Regs(k) = {DefaultRegion}
  BY DEF TableOK, Shape
<1>2. ASSUME NEW i \in RowsOf(h, k) PROVE h[i].region = DefaultRegion
  BY <1>1 DEF RowsOf, TableOK, RowOK
<1>3. {i \in RowsOf(h, k) : h[i].region = DefaultRegion} = RowsOf(h, k)
  BY <1>2
<1>4. LastId(RowsOf(h, k)) = LastOf(h, k, DefaultRegion)
  BY <1>3 DEF LastOf
<1>5. IndexOK(h, k, w[k], DefaultRegion)
  BY <1>1 DEF TableOK
<1>6. QED
  BY <1>4, <1>5 DEF IndexOK

\* The row that entered a region's instance, when it is known, is the last of the
\* region.
Knows(h, k, e, r) == LastOf(h, k, r) # 0 \/ Entry(k, e, r).basis = "created" \/ e.version <= 1

LEMMA EnteringIs ==
  ASSUME NEW w, NEW h, TableOK(w, h), NEW k \in DOMAIN w, NEW r \in Regs(k)
  PROVE  EnteringRow(h, k, w[k], r) = IF Knows(h, k, w[k], r) THEN {LastOf(h, k, r)} ELSE {}
<1> DEFINE e == w[k]
           entry == Entry(k, e, r)
           last == LastOf(h, k, r)
           ids == {i \in RowsOf(h, k) : h[i].region = r /\ h[i].to = entry.state}
           entered == LastId(ids)
<1>1. /\ last # 0 => h[last].to = e.states[r]
      /\ entry.row # 0 => entry.row = last
      /\ entry.row = 0 /\ entry.basis = "created" => last = 0
      /\ entry.state = e.states[r]
  BY DEF TableOK, IndexOK, Shape
<1>2. /\ Len(h) \in Nat /\ last \in 0..Len(h)
      /\ RowsOf(h, k) \subseteq 1..Len(h)
      /\ last # 0 => last \in RowsOf(h, k) /\ h[last].region = r
      /\ \A i \in RowsOf(h, k) : h[i].region = r => i <= last /\ last # 0
  <2>1. IsSeq(h)
    BY DEF TableOK
  <2>2. QED
    BY <2>1, RowsOfIs
<1>3. ids \subseteq 1..Len(h)
  BY <1>2
<1>4. entered = last
  <2>1. CASE last = 0
    <3>1. ids = {}
      BY <1>2, <2>1
    <3>2. QED
      BY <2>1, <3>1 DEF LastId
  <2>2. CASE last # 0
    <3>1. last \in ids /\ \A i \in ids : i <= last
      BY <1>1, <1>2, <2>2
    <3> HIDE DEF last, ids
    <3>2. QED
      BY <1>2, <1>3, <3>1, LastIdIsUnique
  <2>3. QED
    BY <2>1, <2>2
<1>5. EnteringRow(h, k, e, r) = IF entry.row # 0 THEN {entry.row}
                                ELSE IF entry.basis = "created" THEN {0}
                                ELSE IF entered # 0 \/ e.version <= 1 THEN {entered}
                                ELSE {}
  BY DEF EnteringRow
<1> HIDE DEF entry, last, entered, ids
<1>6. EnteringRow(h, k, e, r) = IF last # 0 \/ entry.basis = "created" \/ e.version <= 1 THEN {last} ELSE {}
  BY <1>1, <1>4, <1>5
<1>7. QED
  BY <1>6 DEF Knows, entry, last

\* Pending, in these terms.
LEMMA PendingIs ==
  ASSUME NEW w, NEW h, TableOK(w, h), NEW k \in DOMAIN w, NEW r \in Regs(k)
  PROVE  LET s     == w[k].states[r]
             child == ChildKey(k, r, s)
         IN Pending(w, h, k, r) <=> /\ IsCompound(k, r, s) /\ child \in DOMAIN w
                                    /\ IsFinal(w[child], SubOf(k, r, s))
                                    /\ LastId(RowsOf(h, child)) > LastOf(h, k, r)
                                    /\ Knows(h, k, w[k], r)
<1> DEFINE s == w[k].states[r]
           child == ChildKey(k, r, s)
           last == LastId(RowsOf(h, child))
<1>1. EnteringRow(h, k, w[k], r) = IF Knows(h, k, w[k], r) THEN {LastOf(h, k, r)} ELSE {}
  BY EnteringIs
<1>2. LastOf(h, k, r) \in Nat /\ last \in Nat
  <2>1. IsSeq(h)
    BY DEF TableOK
  <2>2. LastOf(h, k, r) \in 0..Len(h) /\ last \in 0..Len(h) /\ Len(h) \in Nat
    BY <2>1, RowsOfIs
  <2>3. QED
    BY <2>2
<1>3. Pending(w, h, k, r) <=> /\ IsCompound(k, r, s) /\ child \in DOMAIN w
                              /\ IsFinal(w[child], SubOf(k, r, s)) /\ last # 0
                              /\ \E entered \in EnteringRow(h, k, w[k], r) : last > entered
  BY DEF Pending
<1> HIDE DEF s, child, last
<1>4. last # 0 /\ (\E entered \in EnteringRow(h, k, w[k], r) : last > entered)
        <=> last > LastOf(h, k, r) /\ Knows(h, k, w[k], r)
  BY <1>1, <1>2
<1>5. QED
  BY <1>3, <1>4 DEF s, child, last

-----------------------------------------------------------------------------
(* The stack of calls.                                                     *)

\* The call at hand and those under it.
LEMMA StackSplits ==
  ASSUME NEW s, NEW w, NEW h, NEW a, NEW req, StackOK(s, w, h, a, req), s # <<>>
  PROVE  /\ CallOK(Head(s), w, h, a) /\ PlaceOK(Head(s), Elements(s), req)
         /\ Elements(s) = {Head(s)} \union Elements(Tail(s))
         /\ IsSeq(Tail(s)) /\ Ordered(Tail(s))
         /\ \A y \in Elements(Tail(s)) : Above(Head(s), y) /\ CallOK(y, w, h, a) /\ PlaceOK(y, Elements(s), req)
<1>1. IsSeq(s) /\ Ordered(s) /\ \A x \in Elements(s) : CallOK(x, w, h, a) /\ PlaceOK(x, Elements(s), req)
  BY DEF StackOK
<1>2. /\ Len(s) \in Nat \ {0} /\ DOMAIN s = 1..Len(s) /\ Head(s) = s[1]
      /\ IsSeq(Tail(s)) /\ Len(Tail(s)) = Len(s) - 1 /\ DOMAIN Tail(s) = 1..Len(Tail(s))
      /\ \A i \in 1..Len(Tail(s)) : Tail(s)[i] = s[i + 1]
      /\ Elements(s) = {Head(s)} \union Elements(Tail(s))
  BY <1>1, HeadAndTail
<1>3. Ordered(Tail(s))
  <2>1. SUFFICES ASSUME NEW i \in DOMAIN Tail(s), NEW j \in DOMAIN Tail(s), i < j
                 PROVE  Above(Tail(s)[i], Tail(s)[j])
    BY DEF Ordered
  <2>2. /\ i + 1 \in DOMAIN s /\ j + 1 \in DOMAIN s /\ i + 1 < j + 1
        /\ Tail(s)[i] = s[i + 1] /\ Tail(s)[j] = s[j + 1]
    BY <1>2, <2>1
  <2>3. QED
    BY <1>1, <2>2 DEF Ordered
<1>4. ASSUME NEW y \in Elements(Tail(s)) PROVE Above(Head(s), y)
  <2>1. PICK i \in DOMAIN Tail(s) : y = Tail(s)[i]
    BY DEF Elements
  <2>2. 1 \in DOMAIN s /\ i + 1 \in DOMAIN s /\ 1 < i + 1 /\ y = s[i + 1]
    BY <1>2, <2>1
  <2>3. QED
    BY <1>1, <1>2, <2>2 DEF Ordered
<1>5. QED
  BY <1>1, <1>2, <1>3, <1>4

\* What calls stand on.
Standing(x, S) == \A y \in S : Above(x, y)

\* A call at the head of the stack is replaced by calls it makes.
LEMMA StackGrows ==
  ASSUME NEW s, NEW w, NEW h, NEW a, NEW req, StackOK(s, w, h, a, req), s # <<>>,
         \A y \in Elements(s) : y.at \in Keys /\ (y.op = "after" => IsCompound(y.at, y.region, y.state)),
         NEW calls, IsSeq(calls), Ordered(calls), NEW w2, NEW h2, NEW a2,
         \A x \in Elements(calls) :
           /\ CallOK(x, w2, h2, a2) /\ Standing(x, Elements(Tail(s)))
           /\ PlaceOK(x, Elements(calls) \union Elements(Tail(s)), req),
         \A y \in Elements(Tail(s)) : CallOK(y, w2, h2, a2)
  PROVE  StackOK(calls \o Tail(s), w2, h2, a2, req)
<1>1. /\ Elements(s) = {Head(s)} \union Elements(Tail(s))
      /\ IsSeq(Tail(s)) /\ Ordered(Tail(s))
      /\ \A y \in Elements(Tail(s)) : Above(Head(s), y) /\ PlaceOK(y, Elements(s), req)
  BY StackSplits
<1> DEFINE t == Tail(s)
           u == calls \o t
<1> HIDE DEF t, u
<1>2. /\ IsSeq(u) /\ Elements(u) = Elements(calls) \union Elements(t)
      /\ \A i \in DOMAIN u : \/ i \in DOMAIN calls /\ u[i] = calls[i]
                             \/ i - Len(calls) \in DOMAIN t /\ u[i] = t[i - Len(calls)] /\ i > Len(calls)
  BY <1>1, ConcatElements DEF t, u
<1>3. /\ Len(calls) \in Nat /\ DOMAIN calls = 1..Len(calls)
      /\ Len(u) \in Nat /\ DOMAIN u = 1..Len(u)
  BY <1>2, SeqDomain
<1>4. Ordered(u)
  <2>1. SUFFICES ASSUME NEW i \in DOMAIN u, NEW j \in DOMAIN u, i < j PROVE Above(u[i], u[j])
    BY DEF Ordered
  <2>2. CASE i \in DOMAIN calls /\ u[i] = calls[i] /\ j \in DOMAIN calls /\ u[j] = calls[j]
    BY <2>1, <2>2 DEF Ordered
  <2>3. CASE i \in DOMAIN calls /\ u[i] = calls[i] /\ j - Len(calls) \in DOMAIN t /\ u[j] = t[j - Len(calls)]
    <3>1. u[i] \in Elements(calls) /\ u[j] \in Elements(t)
      BY <2>3 DEF Elements
    <3>2. QED
      BY <3>1 DEF Standing, t
  <2>4. CASE /\ i - Len(calls) \in DOMAIN t /\ u[i] = t[i - Len(calls)]
             /\ j - Len(calls) \in DOMAIN t /\ u[j] = t[j - Len(calls)]
    <3>1. i - Len(calls) < j - Len(calls)
      BY <1>3, <2>1
    <3>2. QED
      BY <1>1, <2>4, <3>1 DEF Ordered, t
  <2>5. CASE /\ i - Len(calls) \in DOMAIN t /\ i > Len(calls)
             /\ j \in DOMAIN calls
    BY <1>3, <2>1, <2>5
  <2>6. QED
    BY <1>2, <2>2, <2>3, <2>4, <2>5
<1>5. ASSUME NEW y \in Elements(t) PROVE PlaceOK(y, Elements(u), req)
  <2>1. PlaceOK(y, Elements(s), req) /\ Above(Head(s), y) /\ y \in Elements(s)
    BY <1>1, <1>5 DEF t
  <2>2. CASE y.at = req.at
    BY <2>1, <2>2 DEF PlaceOK
  <2>3. ASSUME NEW z \in Elements(s), z.op = "after", y.at = ChildKey(z.at, z.region, z.state)
        PROVE  z \in Elements(u)
    <3>1. CASE z = Head(s)
      <4>1. z.at \in Keys /\ y.at \in Keys /\ IsCompound(z.at, z.region, z.state)
        BY <2>1, <2>3
      <4>2. Below(y.at.path, z.at.path)
        BY <2>3, <4>1, ChildKeyIs
      <4>3. z.at.path = y.at.path \/ Below(z.at.path, y.at.path)
        BY <2>1, <3>1 DEF Above, AtOrBelow
      <4>4. z.at.path \in Seq(StateNames) /\ y.at.path \in Seq(StateNames)
        BY <4>1, DefinitionIs
      <4>5. QED
        BY <4>2, <4>3, <4>4, BelowIs
    <3>2. CASE z \in Elements(t)
      BY <1>2, <3>2
    <3>3. QED
      BY <1>1, <3>1, <3>2 DEF t
  <2>4. QED
    BY <2>1, <2>2, <2>3 DEF PlaceOK
<1>6. \A x \in Elements(u) : CallOK(x, w2, h2, a2) /\ PlaceOK(x, Elements(u), req)
  BY <1>2, <1>5 DEF t
<1>7. StackOK(u, w2, h2, a2, req)
  BY <1>2, <1>4, <1>6 DEF StackOK
<1>8. QED
  BY <1>7 DEF t, u

\* The calls of a good stack are at keys of the tables.
LEMMA StackKeys ==
  ASSUME NEW s, NEW w, NEW h, NEW a, NEW req, StackOK(s, w, h, a, req), TableOK(w, h)
  PROVE  \A y \in Elements(s) : /\ y.at \in Keys /\ (y.op # "create" => y.at \in DOMAIN w)
                                /\ (y.op = "after" => IsCompound(y.at, y.region, y.state))
<1>1. \A y \in Elements(s) : CallOK(y, w, h, a)
  BY DEF StackOK
<1>2. \A k \in DOMAIN w : k \in Keys
  BY DEF TableOK
<1>3. QED
  BY <1>1, <1>2 DEF CallOK

-----------------------------------------------------------------------------
(* Steps of a transaction.                                                 *)

\* A new entity.
LEMMA InsertKeepsTables ==
  ASSUME NEW w, NEW h, TableOK(w, h), NEW k \in Keys, k \notin DOMAIN w,
         NEW w2, w2 = Insert(w, k, NewEntity(Defs[k.machine]))
  PROVE  /\ TableOK(w2, h) /\ DOMAIN w2 = DOMAIN w \union {k}
         /\ \A p \in DOMAIN w : w2[p] = w[p]
         /\ RowsOf(h, k) = {}
<1> DEFINE m == Defs[k.machine]
           e == NewEntity(m)
<1>1. DOMAIN w2 = DOMAIN w \union {k} /\ w2[k] = e /\ \A p \in DOMAIN w : w2[p] = w[p]
  BY DEF Insert
<1>2. RowsOf(h, k) = {} /\ \A r : LastOf(h, k, r) = 0
  <2>1. RowsOf(h, k) = {}
    BY DEF RowsOf, TableOK, RowOK
  <2>2. \A r : {i \in RowsOf(h, k) : h[i].region = r} = {}
    BY <2>1
  <2>3. QED
    BY <2>1, <2>2 DEF LastOf, LastId
<1>3. IsRow(e) /\ e.states = m.initial /\ e.version = 1 /\ e.stored = InitialEntries(m.initial, Now)
  BY DEF NewEntity, IsRow
<1>4. ASSUME NEW r \in Regs(k)
      PROVE  /\ Entry(k, e, r).state = e.states[r] /\ Entry(k, e, r).seq = 1
             /\ Entry(k, e, r).row = 0
  <2>1. /\ e.stored.version = 1 /\ DOMAIN e.stored.regions = DOMAIN m.initial
        /\ e.stored.regions[r] = [state |-> m.initial[r], seq |-> 1, entered_at |-> Now,
                                  basis |-> "created", row |-> 0]
    BY <1>3 DEF InitialEntries, Regs
  <2>2. Entry(k, e, r) = e.stored.regions[r]
    BY <1>3, <2>1 DEF Entry, EffectiveEntries, Regs
  <2>3. QED
    BY <1>3, <2>1, <2>2
<1> HIDE DEF e
<1>5. Shape(k, e)
  BY <1>3, <1>4 DEF Shape, Regs
<1>6. \A r \in Regs(k) : IndexOK(h, k, e, r)
  BY <1>2, <1>4 DEF IndexOK
<1>7. ASSUME NEW i \in DOMAIN h PROVE RowOK(w2, h[i])
  <2>1. RowOK(w, h[i])
    BY DEF TableOK
  <2>2. QED
    BY <1>1, <2>1 DEF RowOK
<1>8. \A p \in DOMAIN w2 : p \in Keys /\ Shape(p, w2[p])
  BY <1>1, <1>5 DEF TableOK
<1>9. \A p \in DOMAIN w2 : \A r \in Regs(p) : IndexOK(h, p, w2[p], r)
  BY <1>1, <1>6 DEF TableOK
<1>10. QED
  BY <1>1, <1>2, <1>7, <1>8, <1>9 DEF TableOK

\* A call waits on while another entity is created.
LEMMA CallSurvivesInsert ==
  ASSUME NEW x, NEW w, NEW h, NEW a, CallOK(x, w, h, a),
         NEW w2, DOMAIN w \subseteq DOMAIN w2, \A p \in DOMAIN w : w2[p] = w[p]
  PROVE  CallOK(x, w2, h, a)
<1>1. CASE x.op = "after"
  BY <1>1 DEF CallOK, Fresh
<1>2. CASE x.op # "after"
  BY <1>2 DEF CallOK
<1>3. QED
  BY <1>1, <1>2

\* A call waits on while an entity that it stands under is written.
LEMMA CallSurvivesWrite ==
  ASSUME NEW x, NEW y, NEW w, NEW h, NEW a, TableOK(w, h), x.at \in DOMAIN w, Above(x, y), CallOK(y, w, h, a),
         NEW spec, NEW w2, NEW h2, Wrote(x.at, spec, w, h, w2, h2)
  PROVE  CallOK(y, w2, h2, "applied")
<1> DEFINE k == x.at
<1>1. /\ DOMAIN w2 = DOMAIN w /\ \A p \in DOMAIN w : p # k => w2[p] = w[p]
      /\ \A p : p # k => RowsOf(h2, p) = RowsOf(h, p)
      /\ \A p, r : p # k => LastOf(h2, p, r) = LastOf(h, p, r)
      /\ LastId(RowsOf(h2, k)) = Len(h2) /\ Len(h) < Len(h2) /\ IsSeq(h2)
  BY DEF Wrote, TableOK
<1>2. y.op \in {"forward", "after"} /\ y.at \in DOMAIN w /\ y.region \in Regs(y.at)
  BY DEF Above, CallOK
<1>3. CASE y.op = "forward"
  BY <1>1, <1>2, <1>3 DEF CallOK
<1>4. CASE y.op = "after"
  <2>1. /\ w[y.at].states[y.region] = y.state /\ IsCompound(y.at, y.region, y.state)
        /\ ChildKey(y.at, y.region, y.state) \in DOMAIN w
        /\ Fresh(w, h, y.at, y.region, y.state)
    BY <1>4 DEF CallOK
  <2>2. y.at # k
    <3>1. Below(k.path, y.at.path)
      BY <1>4 DEF Above
    <3>2. k \in Keys /\ y.at \in Keys
      BY <1>2 DEF TableOK
    <3>3. k.path \in Seq(StateNames) /\ y.at.path \in Seq(StateNames)
      BY <3>2, DefinitionIs
    <3>4. k.path # y.at.path
      BY <3>1, <3>3, BelowIs
    <3>5. QED
      BY <3>4
  <2>3. w2[y.at] = w[y.at] /\ LastOf(h2, y.at, y.region) = LastOf(h, y.at, y.region)
    BY <1>1, <1>2, <2>2
  <2> DEFINE child == ChildKey(y.at, y.region, y.state)
  <2>4. Fresh(w2, h2, y.at, y.region, y.state)
    <3>1. CASE child = k
      <4>1. LastOf(h, y.at, y.region) \in 0..Len(h) /\ Len(h) \in Nat /\ Len(h2) \in Nat
        <5>1. IsSeq(h)
          BY DEF TableOK
        <5>2. QED
          BY <1>1, <5>1, RowsOfIs
      <4>2. LastId(RowsOf(h2, child)) > LastOf(h2, y.at, y.region)
        BY <1>1, <2>3, <3>1, <4>1
      <4>3. QED
        BY <4>2 DEF Fresh
    <3>2. CASE child # k
      <4>1. w2[child] = w[child] /\ RowsOf(h2, child) = RowsOf(h, child)
        BY <1>1, <2>1, <3>2
      <4>2. QED
        BY <2>1, <2>3, <4>1 DEF Fresh
    <3>3. QED
      BY <3>1, <3>2
  <2>5. QED
    BY <1>1, <1>2, <1>4, <2>1, <2>3, <2>4 DEF CallOK
<1>5. QED
  BY <1>2, <1>3, <1>4

\* What holds when a call runs.
LEMMA AtHead ==
  ASSUME LegacyInv, NEW op, Running(op)
  PROVE  /\ phase = "tx" /\ todo # <<>> /\ Head(todo).op = op /\ TxOK
         /\ TableOK(work, rows) /\ StackOK(todo, work, rows, reply, request)
         /\ CallOK(Head(todo), work, rows, reply) /\ PlaceOK(Head(todo), Elements(todo), request)
         /\ Elements(todo) = {Head(todo)} \union Elements(Tail(todo))
         /\ \A y \in Elements(Tail(todo)) : /\ Above(Head(todo), y) /\ CallOK(y, work, rows, reply)
                                            /\ PlaceOK(y, Elements(todo), request)
         /\ \A y \in Elements(todo) : /\ y.at \in Keys /\ (y.op # "create" => y.at \in DOMAIN work)
                                      /\ (y.op = "after" => IsCompound(y.at, y.region, y.state))
<1>1. /\ phase = "tx" /\ todo # <<>> /\ Head(todo).op = op /\ TxOK
      /\ TableOK(work, rows) /\ StackOK(todo, work, rows, reply, request)
  BY DEF LegacyInv, Running, PhaseOK, TxOK
<1>2. QED
  BY <1>1, StackSplits, StackKeys

\* A call that returns with a good stack and good tables keeps the invariant.
LEMMA CallKeepsInv ==
  ASSUME LegacyInv, phase = "tx", UNCHANGED <<committed, phase, request, transactions>>,
         TableOK(work', rows'), StackOK(todo', work', rows', reply', request),
         Continues(history, rows'), DOMAIN entities \subseteq DOMAIN work',
         request.kind = "create" => reply' = "created",
         request.kind = "event" => \/ reply' \in {"no_transition", "applied"}
                                   \/ reply' = "duplicate" /\ todo' = <<>>,
         request.kind = "timer" => reply' # "conflict",
         (request.kind = "create" \/ (request.kind = "event" /\ reply' # "applied")) =>
           rows' = history /\ \A k \in DOMAIN entities : work'[k] = entities[k]
  PROVE  LegacyInv'
<1>1. TxOK
  BY DEF LegacyInv, PhaseOK
<1>2. entities' = entities /\ history' = history /\ phase' = "tx" /\ request' = request
  BY DEF committed
<1>3. /\ request.at \in Keys /\ request.kind \in {"event", "timer", "create"}
  BY <1>1 DEF TxOK
<1>4. request.kind = "event" => request.at \in DOMAIN entities
  BY <1>1 DEF TxOK
<1>5. NoWriterConflict'
  BY <1>3 DEF NoWriterConflict
<1>6. TxOK'
  BY <1>2, <1>3, <1>4 DEF TxOK
<1>7. QED
  BY <1>2, <1>5, <1>6 DEF LegacyInv, PhaseOK

\* A call of another kind of request than "event" is alone.
LEMMA AloneUnlessEvent ==
  ASSUME LegacyInv, NEW op, Running(op), op \in {"create", "timer"} \/ (op = "event" /\ ~ Head(todo).nested)
  PROVE  Elements(Tail(todo)) = {} /\ Tail(todo) = <<>> /\ (op # "event" => request.kind = op)
<1>1. /\ Head(todo).op = op /\ TxOK /\ PlaceOK(Head(todo), Elements(todo), request)
      /\ Elements(todo) = {Head(todo)} \union Elements(Tail(todo))
      /\ \A y \in Elements(Tail(todo)) : Above(Head(todo), y) /\ PlaceOK(y, Elements(todo), request)
      /\ IsSeq(todo) /\ todo # <<>>
  BY AtHead DEF StackOK
<1>2. request.kind \in {"event", "timer", "create"} /\ op \in OpsOf(request.kind)
  BY <1>1 DEF TxOK, PlaceOK
<1>3. op # "event" => request.kind = op
  BY <1>2 DEF OpsOf
<1>4. ASSUME NEW y \in Elements(Tail(todo)) PROVE FALSE
  <2>1. y.op \in {"forward", "after"} /\ y.op \in OpsOf(request.kind)
    BY <1>1 DEF Above, PlaceOK
  <2>2. op # "event"
    BY <1>1 DEF Above
  <2>3. QED
    BY <1>3, <2>1, <2>2 DEF OpsOf
<1>5. Tail(todo) = <<>>
  <2>1. IsSeq(Tail(todo)) /\ Len(Tail(todo)) \in Nat /\ DOMAIN Tail(todo) = 1..Len(Tail(todo))
    BY <1>1, HeadAndTail, SeqDomain
  <2>2. PICK n : n = Len(Tail(todo))
    OBVIOUS
  <2>3. DOMAIN Tail(todo) = {}
    BY <1>4 DEF Elements
  <2>4. n \in Nat /\ 1..n = {}
    BY <2>1, <2>2, <2>3
  <2>5. n = 0
    <3>1. ASSUME n # 0 PROVE 1 \in 1..n
      BY <2>4, <3>1
    <3>2. QED
      BY <2>4, <3>1
  <2>6. Len(Tail(todo)) = Len(<<>>) /\ IsSeq(<<>>) /\ \A i \in 1..Len(Tail(todo)) : Tail(todo)[i] = <<>>[i]
    BY <2>2, <2>4, <2>5, FewElements
  <2>7. QED
    BY <2>1, <2>6, SameSeq
<1>6. QED
  BY <1>3, <1>4, <1>5

\* A write.
LEMMA WriteKeepsInv ==
  ASSUME LegacyInv, NEW op, Running(op), NEW k, k = Head(todo).at, k \in DOMAIN work,
         NEW spec, SpecOK(k, work[k], spec), FreshKey(rows, k, spec),
         NEW answer, WriteEntity(k, spec, answer),
         \/ request.kind = "event" /\ answer = "applied"
         \/ op = "timer" /\ answer = reply
  PROVE  LegacyInv' /\ Wrote(k, spec, work, rows, work', rows') /\ reply' = answer /\ Return(<<>>)
<1>1. /\ phase = "tx" /\ todo # <<>> /\ Head(todo).op = op /\ TxOK
      /\ TableOK(work, rows) /\ StackOK(todo, work, rows, reply, request)
      /\ \A y \in Elements(Tail(todo)) : Above(Head(todo), y) /\ CallOK(y, work, rows, reply)
      /\ \A y \in Elements(todo) : y.at \in Keys /\ (y.op = "after" => IsCompound(y.at, y.region, y.state))
  BY AtHead
<1>2. Wrote(k, spec, work, rows, work', rows') /\ reply' = answer /\ Return(<<>>)
  BY <1>1, WriteSucceeds
<1>3. todo' = <<>> \o Tail(todo) /\ UNCHANGED <<committed, phase, request, transactions>>
  BY <1>2 DEF Return
<1>4. /\ TableOK(work', rows') /\ DOMAIN work' = DOMAIN work
      /\ Continues(rows, rows') /\ Continues(history, rows)
  BY <1>1, <1>2 DEF Wrote, TxOK
<1>5. Continues(history, rows')
  <2>1. IsSeq(rows) /\ IsSeq(history) /\ IsSeq(rows')
    BY <1>1, <1>4 DEF TableOK, LegacyInv
  <2>2. Len(rows) \in Nat /\ Len(history) \in Nat /\ Len(rows') \in Nat
    BY <2>1, SeqDomain
  <2>3. QED
    BY <1>4, <2>2 DEF Continues
<1>6. ASSUME NEW y \in Elements(Tail(todo)) PROVE CallOK(y, work', rows', reply')
  <2>1. op # "timer"
    BY <1>6, AloneUnlessEvent
  <2>2. PICK w2, h2 : w2 = work' /\ h2 = rows'
    OBVIOUS
  <2>3. CallOK(y, w2, h2, "applied")
    BY <1>1, <1>2, <1>6, <2>2, CallSurvivesWrite
  <2>4. QED
    BY <1>2, <2>1, <2>2, <2>3
<1>7. StackOK(<<>> \o Tail(todo), work', rows', reply', request)
  <2>1. IsSeq(<<>>) /\ Elements(<<>>) = {} /\ Ordered(<<>>)
    BY FewElements DEF Ordered
  <2>2. PICK w2, h2, a2 : w2 = work' /\ h2 = rows' /\ a2 = reply'
    OBVIOUS
  <2>3. StackOK(<<>> \o Tail(todo), w2, h2, a2, request)
    <3>1. \A y \in Elements(Tail(todo)) : CallOK(y, w2, h2, a2)
      BY <1>6, <2>2
    <3>2. \A x \in Elements(<<>>) :
            /\ CallOK(x, w2, h2, a2) /\ Standing(x, Elements(Tail(todo)))
            /\ PlaceOK(x, Elements(<<>>) \union Elements(Tail(todo)), request)
      BY <2>1
    <3>3. QED
      BY <1>1, <2>1, <3>1, <3>2, StackGrows
  <2>4. QED
    BY <2>2, <2>3
<1>8. (op = "timer" => request.kind = "timer") /\ reply # "conflict"
  BY AloneUnlessEvent DEF LegacyInv, NoWriterConflict
<1>9. LegacyInv'
  <2>1. StackOK(todo', work', rows', reply', request)
    BY <1>3, <1>7
  <2>2. DOMAIN entities \subseteq DOMAIN work'
    BY <1>1, <1>4 DEF TxOK
  <2>3. QED
    BY <1>1, <1>2, <1>3, <1>4, <1>5, <1>8, <2>1, <2>2, CallKeepsInv
<1>10. QED
  BY <1>2, <1>9

\* A call that only returns, having made other calls.
LEMMA ReturnKeepsInv ==
  ASSUME LegacyInv, NEW op, Running(op), NEW calls, ReturnOnly(calls), IsSeq(calls), Ordered(calls),
         \A x \in Elements(calls) :
           /\ CallOK(x, work, rows, reply) /\ Standing(x, Elements(Tail(todo)))
           /\ PlaceOK(x, Elements(calls) \union Elements(Tail(todo)), request)
  PROVE  LegacyInv'
<1>1. /\ phase = "tx" /\ todo # <<>> /\ TxOK
      /\ TableOK(work, rows) /\ StackOK(todo, work, rows, reply, request)
      /\ \A y \in Elements(Tail(todo)) : CallOK(y, work, rows, reply)
      /\ \A y \in Elements(todo) : y.at \in Keys /\ (y.op = "after" => IsCompound(y.at, y.region, y.state))
  BY AtHead
<1>2. /\ todo' = calls \o Tail(todo) /\ UNCHANGED <<committed, phase, request, transactions>>
      /\ work' = work /\ rows' = rows /\ reply' = reply
  BY DEF ReturnOnly, Return
<1>3. StackOK(calls \o Tail(todo), work, rows, reply, request)
  BY <1>1, StackGrows
<1>4. StackOK(todo', work', rows', reply', request)
  BY <1>2, <1>3
<1>5. reply # "conflict" /\ TableOK(work', rows')
  BY <1>1, <1>2 DEF LegacyInv, NoWriterConflict
<1>6. /\ Continues(history, rows') /\ DOMAIN entities \subseteq DOMAIN work'
      /\ request.kind = "create" => reply' = "created"
      /\ request.kind = "event" => reply' \in {"no_transition", "applied"}
      /\ (request.kind = "create" \/ (request.kind = "event" /\ reply' # "applied")) =>
           rows' = history /\ \A k \in DOMAIN entities : work'[k] = entities[k]
  BY <1>1, <1>2 DEF TxOK
<1>7. QED
  BY <1>1, <1>2, <1>4, <1>5, <1>6, CallKeepsInv

\* An event is applied.
LEMMA ApplyEventWrites ==
  ASSUME LegacyInv, ApplyEvent
  PROVE  /\ LegacyInv' /\ reply' = "applied" /\ Return(<<>>)
         /\ Running("event") /\ request.kind = "event"
         /\ \E spec : /\ Wrote(Head(todo).at, spec, work, rows, work', rows')
                      /\ spec.type = request.event.type /\ spec.ts = request.event.ts
                      /\ spec.cause = NoCause
<1> DEFINE k == Head(todo).at
<1>1. Running("event") /\ Dedup(k, request.event) = "new"
  BY DEF ApplyEvent
<1>2. PICK t \in MatchOf(k, request.event) :
        \E spec \in EventWrites(work[k], request.event, t, Defs[k.machine]) : WriteEntity(k, spec, "applied")
  BY DEF ApplyEvent
<1>3. PICK spec \in EventWrites(work[k], request.event, t, Defs[k.machine]) : WriteEntity(k, spec, "applied")
  BY <1>2
<1>4. k \in DOMAIN work /\ TableOK(work, rows) /\ Head(todo).op = "event"
      /\ PlaceOK(Head(todo), Elements(todo), request) /\ TxOK
  BY <1>1, AtHead DEF CallOK
<1>5. request.kind = "event"
  BY <1>4 DEF PlaceOK, OpsOf, TxOK
<1>6. /\ SpecOK(k, work[k], spec) /\ FreshKey(rows, k, spec)
      /\ spec.type = request.event.type /\ spec.ts = request.event.ts /\ spec.cause = NoCause
  BY <1>1, <1>4, EventSpec
<1> HIDE DEF k
<1>7. LegacyInv' /\ Wrote(k, spec, work, rows, work', rows') /\ reply' = "applied" /\ Return(<<>>)
  <2>1. k = Head(todo).at
    BY DEF k
  <2>2. QED
    BY <1>1, <1>3, <1>4, <1>5, <1>6, <2>1, WriteKeepsInv
<1>8. QED
  BY <1>1, <1>5, <1>6, <1>7 DEF k

\* A parent advances on the final state of the child its call names.
LEMMA ParentAdvances ==
  ASSUME LegacyInv, NEW op \in {"forward", "after"}, Running(op), NEW via, NEW entered,
         AdvanceParent(via, entered)
  PROVE  /\ LegacyInv' /\ reply' = "applied" /\ Return(<<>>) /\ request.kind = "event"
         /\ \E spec : /\ Wrote(Head(todo).at, spec, work, rows, work', rows')
                      /\ spec.type = "$sub_complete" /\ spec.region = Head(todo).region
                      /\ spec.from = Head(todo).state
                      /\ spec.to = HeadSub.on_final[work[HeadChild].states[DefaultRegion]]
                      /\ spec.cause = [via |-> via, entered |-> entered,
                                       child |-> LastId(RowsOf(rows, HeadChild))]
<1> DEFINE k == Head(todo).at
           target == HeadSub.on_final[work[HeadChild].states[DefaultRegion]]
           cause == [via |-> via, entered |-> entered, child |-> LastId(RowsOf(rows, HeadChild))]
<1>1. PICK spec \in AdvanceWrites(Head(todo), request.event, target, cause) : WriteEntity(k, spec, "applied")
  BY DEF AdvanceParent
<1>2. /\ k \in DOMAIN work /\ Head(todo).region \in Regs(k) /\ TableOK(work, rows) /\ Head(todo).op = op
      /\ PlaceOK(Head(todo), Elements(todo), request) /\ TxOK
  BY AtHead DEF CallOK
<1>3. request.kind = "event"
  BY <1>2 DEF PlaceOK, OpsOf, TxOK
<1> HIDE DEF target, cause
<1>4. /\ SpecOK(k, work[k], spec) /\ FreshKey(rows, k, spec)
      /\ spec.type = "$sub_complete" /\ spec.region = Head(todo).region /\ spec.from = Head(todo).state
      /\ spec.to = target /\ spec.cause = cause
  BY <1>1, <1>2, AdvanceSpec
<1> HIDE DEF k
<1>5. LegacyInv' /\ Wrote(k, spec, work, rows, work', rows') /\ reply' = "applied" /\ Return(<<>>)
  <2>1. k = Head(todo).at
    BY DEF k
  <2>2. QED
    BY <1>1, <1>2, <1>3, <1>4, <2>1, WriteKeepsInv
<1>6. QED
  BY <1>3, <1>4, <1>5 DEF k, target, cause

\* A timeout fires.
LEMMA FireTimeoutWrites ==
  ASSUME LegacyInv, FireTimeout
  PROVE  /\ LegacyInv' /\ reply' = reply /\ Return(<<>>) /\ Running("timer") /\ request.kind = "timer"
         /\ \E spec : /\ Wrote(Head(todo).at, spec, work, rows, work', rows')
                      /\ spec.type = "$timeout" /\ spec.cause = NoCause
<1> DEFINE k == Head(todo).at
           t == Head(todo).timer
<1>1. Running("timer") /\ TimerPending(k, t)
  BY DEF FireTimeout
<1>2. PICK spec \in TimeoutWrites(work[k], t, Defs[k.machine]) : WriteEntity(k, spec, reply)
  BY DEF FireTimeout
<1>3. k \in DOMAIN work /\ TableOK(work, rows)
  BY <1>1, AtHead DEF CallOK
<1>4. request.kind = "timer"
  BY <1>1, AloneUnlessEvent
<1>5. SpecOK(k, work[k], spec) /\ FreshKey(rows, k, spec) /\ spec.type = "$timeout" /\ spec.cause = NoCause
  BY <1>1, <1>2, <1>3, TimeoutSpec
<1> HIDE DEF k
<1>6. LegacyInv' /\ Wrote(k, spec, work, rows, work', rows') /\ reply' = reply /\ Return(<<>>)
  <2>1. k = Head(todo).at
    BY DEF k
  <2>2. PICK answer : answer = reply
    OBVIOUS
  <2>3. LegacyInv' /\ Wrote(k, spec, work, rows, work', rows') /\ reply' = answer /\ Return(<<>>)
    BY <1>1, <1>2, <1>3, <1>5, <2>1, <2>2, WriteKeepsInv
  <2>4. QED
    BY <2>2, <2>3
<1>7. QED
  BY <1>1, <1>4, <1>5, <1>6 DEF k

\* An error or a crash.
LEMMA FailKeepsInv ==
  ASSUME LegacyInv, NEW code, code # "conflict", Fail(code)
  PROVE  LegacyInv'
<1>1. /\ phase' = "idle" /\ work' = entities /\ rows' = history /\ reply' = code
      /\ entities' = entities /\ history' = history
  BY DEF Fail, committed
<1>2. QED
  BY <1>1 DEF LegacyInv, PhaseOK, NoWriterConflict

\* Calls that return or fail without a write.
LEMMA AnswerDuplicateKeepsInv ==
  ASSUME LegacyInv, AnswerDuplicate
  PROVE  LegacyInv'
<1>1. Running("event") /\ Return(<<>>) /\ work' = work /\ rows' = rows
      /\ reply' = IF Head(todo).nested THEN reply ELSE "duplicate"
  BY DEF AnswerDuplicate
<1>2. CASE Head(todo).nested
  <2>1. ReturnOnly(<<>>)
    BY <1>1, <1>2 DEF ReturnOnly
  <2>2. IsSeq(<<>>) /\ Elements(<<>>) = {} /\ Ordered(<<>>)
    BY FewElements DEF Ordered
  <2>3. QED
    BY <1>1, <2>1, <2>2, ReturnKeepsInv
<1>3. CASE ~ Head(todo).nested
  <2>1. Tail(todo) = <<>>
    BY <1>1, <1>3, AloneUnlessEvent
  <2>2. todo' = <<>>
    BY <1>1, <2>1, ConcatIsSeq DEF Return
  <2>3. IsSeq(<<>>) /\ Elements(<<>>) = {} /\ Ordered(<<>>)
    BY FewElements DEF Ordered
  <2>4. StackOK(todo', work', rows', reply', request)
    BY <2>2, <2>3 DEF StackOK
  <2>5. /\ phase = "tx" /\ TxOK /\ TableOK(work, rows) /\ Head(todo).op = "event"
        /\ PlaceOK(Head(todo), Elements(todo), request) /\ CallOK(Head(todo), work, rows, reply)
    BY <1>1, AtHead
  <2>6. request.kind = "event" /\ reply = "no_transition"
    BY <2>5 DEF PlaceOK, OpsOf, TxOK, CallOK
  <2>7. /\ Continues(history, rows') /\ DOMAIN entities \subseteq DOMAIN work'
        /\ rows' = history /\ \A k \in DOMAIN entities : work'[k] = entities[k]
    BY <1>1, <2>5, <2>6 DEF TxOK
  <2>8. /\ UNCHANGED <<committed, phase, request, transactions>> /\ TableOK(work', rows')
        /\ reply' = "duplicate"
    BY <1>1, <1>3, <2>5 DEF Return
  <2>9. QED
    BY <2>2, <2>4, <2>5, <2>6, <2>7, <2>8, CallKeepsInv
<1>4. QED
  BY <1>2, <1>3

\* The calls of an event without transition.
ForwardsOf(k) == [i \in DOMAIN RegionsOf(k) |->
                    LET r == RegionsOf(k)[i] IN ForwardCall(k, r, work[k].states[r])]

LEMMA ForwardsAre ==
  ASSUME NEW k \in Keys
  PROVE  /\ IsSeq(ForwardsOf(k))
         /\ Elements(ForwardsOf(k)) = {ForwardCall(k, r, work[k].states[r]) : r \in Regs(k)}
         /\ \A i \in DOMAIN ForwardsOf(k) : \E r \in Regs(k) : ForwardsOf(k)[i] = ForwardCall(k, r, work[k].states[r])
<1> DEFINE f == [r \in Regs(k) |-> ForwardCall(k, r, work[k].states[r])]
           R == RegionsOf(k)
           s == ForwardsOf(k)
<1>1. IsSeq(R) /\ Elements(R) = Regs(k)
  BY DefinitionIs
<1>2. s = [i \in DOMAIN R |-> f[R[i]]]
  <2>1. \A i \in DOMAIN R : R[i] \in Regs(k)
    BY <1>1 DEF Elements
  <2>2. QED
    BY <2>1 DEF ForwardsOf
<1>3. \A r \in Regs(k) : f[r] = ForwardCall(k, r, work[k].states[r])
  OBVIOUS
<1> HIDE DEF f, R, s
<1>4. IsSeq(s) /\ DOMAIN s = DOMAIN R /\ Elements(s) = {f[r] : r \in Elements(R)}
  BY <1>1, <1>2, MapElements
<1>5. Elements(s) = {ForwardCall(k, r, work[k].states[r]) : r \in Regs(k)}
  BY <1>1, <1>3, <1>4
<1>6. \A i \in DOMAIN s : s[i] \in Elements(s)
  BY DEF Elements
<1>7. QED
  BY <1>4, <1>5, <1>6 DEF s

LEMMA NoTransitionKeepsInv ==
  ASSUME LegacyInv, NoTransition
  PROVE  LegacyInv'
<1> DEFINE k == Head(todo).at
           calls == ForwardsOf(k)
<1>1. Running("event") /\ ReturnOnly(calls)
  BY DEF NoTransition, ForwardsOf
<1>2. /\ k \in DOMAIN work /\ k \in Keys /\ reply = "no_transition" /\ Head(todo).op = "event"
      /\ PlaceOK(Head(todo), Elements(todo), request) /\ TxOK
      /\ Elements(todo) = {Head(todo)} \union Elements(Tail(todo))
      /\ \A y \in Elements(Tail(todo)) : Above(Head(todo), y)
  BY <1>1, AtHead DEF CallOK
<1>3. /\ IsSeq(calls) /\ Elements(calls) = {ForwardCall(k, r, work[k].states[r]) : r \in Regs(k)}
      /\ \A i \in DOMAIN calls : \E r \in Regs(k) : calls[i] = ForwardCall(k, r, work[k].states[r])
  BY <1>2, ForwardsAre
<1>4. \A r, s : /\ ForwardCall(k, r, s).op = "forward" /\ ForwardCall(k, r, s).at = k
                /\ ForwardCall(k, r, s).region = r /\ ForwardCall(k, r, s).state = s
  BY DEF ForwardCall
<1>5. request.kind = "event"
  BY <1>2 DEF PlaceOK, OpsOf, TxOK
<1> HIDE DEF k, calls
<1>6. Ordered(calls)
  <2>1. \A i \in DOMAIN calls : calls[i].op = "forward" /\ calls[i].at = k
    BY <1>3, <1>4
  <2>2. QED
    BY <2>1 DEF Ordered, Above, AtOrBelow
<1>7. ASSUME NEW x \in Elements(calls)
      PROVE  /\ CallOK(x, work, rows, reply) /\ Standing(x, Elements(Tail(todo)))
             /\ PlaceOK(x, Elements(calls) \union Elements(Tail(todo)), request)
  <2>1. PICK r \in Regs(k) : x = ForwardCall(k, r, work[k].states[r])
    BY <1>3
  <2>2. x.op = "forward" /\ x.at = k /\ x.region = r /\ x.state = work[k].states[r]
    BY <1>4, <2>1
  <2>3. CallOK(x, work, rows, reply)
    BY <1>2, <2>2 DEF CallOK
  <2>4. Standing(x, Elements(Tail(todo)))
    BY <1>2, <2>2 DEF Standing, Above, k
  <2>5. PlaceOK(x, Elements(calls) \union Elements(Tail(todo)), request)
    <3>1. x.op \in OpsOf(request.kind)
      BY <1>5, <2>2 DEF OpsOf
    <3>2. \/ k = request.at
          \/ /\ Below(k.path, request.at.path)
             /\ \E y \in Elements(Tail(todo)) : y.op = "after" /\ k = ChildKey(y.at, y.region, y.state)
      BY <1>2 DEF PlaceOK, k
    <3>3. QED
      BY <2>2, <3>1, <3>2 DEF PlaceOK
  <2>6. QED
    BY <2>3, <2>4, <2>5
<1>8. QED
  BY <1>1, <1>3, <1>6, <1>7, ReturnKeepsInv DEF calls

LEMMA PlainReturnKeepsInv ==
  ASSUME LegacyInv, NEW op, Running(op), ReturnOnly(<<>>)
  PROVE  LegacyInv'
<1>1. IsSeq(<<>>) /\ Elements(<<>>) = {} /\ Ordered(<<>>)
  BY FewElements DEF Ordered
<1>2. QED
  BY <1>1, ReturnKeepsInv

\* Forwarding, and the child it is for.
LEMMA ForwardingIs ==
  ASSUME LegacyInv, Forwarding
  PROVE  LET k == Head(todo).at
             r == Head(todo).region
             s == Head(todo).state
         IN /\ Running("forward") /\ TxOK /\ TableOK(work, rows) /\ request.kind = "event"
            /\ k \in DOMAIN work /\ k \in Keys /\ r \in Regs(k) /\ reply = "no_transition" /\ work[k].states[r] = s
            /\ IsCompound(k, r, s) /\ HeadChild = ChildKey(k, r, s) /\ HeadSub = SubOf(k, r, s)
            /\ HeadChild \in Keys /\ HeadChild # k /\ Below(HeadChild.path, k.path)
<1> DEFINE k == Head(todo).at
           r == Head(todo).region
           s == Head(todo).state
<1>1. Running("forward") /\ reply # "applied" /\ IsCompound(k, r, s)
  BY DEF Forwarding, Handled
<1>2. /\ Head(todo).op = "forward" /\ CallOK(Head(todo), work, rows, reply) /\ k \in Keys
      /\ PlaceOK(Head(todo), Elements(todo), request) /\ TxOK /\ TableOK(work, rows)
  BY <1>1, AtHead
<1>3. request.kind = "event"
  BY <1>2 DEF PlaceOK, OpsOf, TxOK
<1>4. k \in DOMAIN work /\ r \in Regs(k) /\ reply = "no_transition" /\ work[k].states[r] = s
  BY <1>1, <1>2 DEF CallOK
<1>5. HeadChild = ChildKey(k, r, s) /\ HeadSub = SubOf(k, r, s)
  BY DEF HeadChild, HeadSub
<1>6. LET child == ChildKey(k, r, s) IN child \in Keys /\ child # k /\ Below(child.path, k.path)
  BY <1>1, <1>2, ChildKeyIs
<1>7. QED
  BY <1>1, <1>2, <1>3, <1>4, <1>5, <1>6

\* An entity is inserted while the calls stay.
LEMMA InsertKeepsCalls ==
  ASSUME LegacyInv, phase = "tx", NEW k \in Keys, k \notin DOMAIN work,
         work' = Insert(work, k, NewEntity(Defs[k.machine])), rows' = rows
  PROVE  /\ TableOK(work', rows') /\ DOMAIN work' = DOMAIN work \union {k}
         /\ \A p \in DOMAIN work : work'[p] = work[p]
         /\ RowsOf(rows, k) = {}
         /\ \A x, a : CallOK(x, work, rows, a) => CallOK(x, work', rows', a)
<1>1. PICK w2 : w2 = work'
  OBVIOUS
<1>2. TableOK(work, rows)
  BY DEF LegacyInv
<1>3. /\ TableOK(w2, rows) /\ DOMAIN w2 = DOMAIN work \union {k}
      /\ \A p \in DOMAIN work : w2[p] = work[p]
      /\ RowsOf(rows, k) = {}
  BY <1>1, <1>2, InsertKeepsTables
<1>4. \A x, a : CallOK(x, work, rows, a) => CallOK(x, w2, rows, a)
  BY <1>3, CallSurvivesInsert
<1>5. QED
  BY <1>1, <1>3, <1>4

LEMMA CreateChildKeepsInv ==
  ASSUME LegacyInv, CreateChild
  PROVE  LegacyInv'
<1>1. /\ Forwarding /\ HeadChild \notin DOMAIN work
      /\ work' = Insert(work, HeadChild, NewEntity(Defs[HeadChild.machine]))
      /\ UNCHANGED <<committed, rows, todo, phase, request, reply, transactions>>
  BY DEF CreateChild
<1>2. /\ TxOK /\ HeadChild \in Keys /\ phase = "tx" /\ request.kind = "event" /\ reply = "no_transition"
  BY <1>1, ForwardingIs DEF Running
<1>3. /\ TableOK(work', rows') /\ DOMAIN work' = DOMAIN work \union {HeadChild}
      /\ \A p \in DOMAIN work : work'[p] = work[p]
      /\ \A x, a : CallOK(x, work, rows, a) => CallOK(x, work', rows', a)
  BY <1>1, <1>2, InsertKeepsCalls
<1>4. StackOK(todo', work', rows', reply', request)
  BY <1>1, <1>2, <1>3 DEF StackOK, TxOK
<1>5. /\ Continues(history, rows') /\ DOMAIN entities \subseteq DOMAIN work'
      /\ rows' = history /\ \A k \in DOMAIN entities : work'[k] = entities[k]
  BY <1>1, <1>2, <1>3 DEF TxOK
<1>6. QED
  BY <1>1, <1>2, <1>3, <1>4, <1>5, CallKeepsInv

LEMMA CreateEntityKeepsInv ==
  ASSUME LegacyInv, CreateEntity
  PROVE  LegacyInv' /\ (Head(todo).at \in DOMAIN work => work' = work) /\ request.kind = "create"
<1> DEFINE k == Head(todo).at
<1>1. /\ Running("create") /\ Return(<<>>) /\ rows' = rows /\ reply' = reply
      /\ work' = IF k \in DOMAIN work THEN work ELSE Insert(work, k, NewEntity(Defs[k.machine]))
  BY DEF CreateEntity
<1>2. /\ TxOK /\ phase = "tx" /\ TableOK(work, rows) /\ k \in Keys /\ IsSeq(todo) /\ todo # <<>>
      /\ reply = "created" /\ Head(todo).op = "create"
  BY <1>1, AtHead DEF StackOK, CallOK
<1>3. Tail(todo) = <<>> /\ request.kind = "create"
  BY <1>1, AloneUnlessEvent
<1>4. todo' = <<>> /\ UNCHANGED <<committed, phase, request, transactions>>
  BY <1>1, <1>3, ConcatIsSeq DEF Return
<1>5. StackOK(todo', work', rows', reply', request)
  BY <1>4, FewElements DEF StackOK, Ordered
<1>6. /\ TableOK(work', rows') /\ DOMAIN work \subseteq DOMAIN work'
      /\ \A p \in DOMAIN work : work'[p] = work[p]
  <2>1. CASE k \in DOMAIN work
    BY <1>1, <1>2, <2>1
  <2>2. CASE k \notin DOMAIN work
    BY <1>1, <1>2, <2>2, InsertKeepsCalls
  <2>3. QED
    BY <2>1, <2>2
<1>7. /\ Continues(history, rows') /\ DOMAIN entities \subseteq DOMAIN work'
      /\ rows' = history /\ \A p \in DOMAIN entities : work'[p] = entities[p]
  BY <1>1, <1>2, <1>3, <1>6 DEF TxOK
<1>8. LegacyInv'
  BY <1>1, <1>2, <1>3, <1>4, <1>5, <1>6, <1>7, CallKeepsInv
<1>9. QED
  BY <1>1, <1>3, <1>8

LEMMA ForwardToChildKeepsInv ==
  ASSUME LegacyInv, ForwardToChild
  PROVE  LegacyInv'
<1> DEFINE k == Head(todo).at
           r == Head(todo).region
           s == Head(todo).state
           child == HeadChild
           e == EventCall(child, TRUE)
           f == AfterCall(k, r, s)
<1>1. Forwarding /\ child \in DOMAIN work /\ ~ IsFinal(work[child], HeadSub) /\ ReturnOnly(<<e, f>>)
  BY DEF ForwardToChild, OpenChild
<1>2. /\ Running("forward") /\ request.kind = "event" /\ k \in DOMAIN work /\ k \in Keys /\ r \in Regs(k)
      /\ reply = "no_transition" /\ work[k].states[r] = s /\ TxOK
      /\ IsCompound(k, r, s) /\ child = ChildKey(k, r, s) /\ HeadSub = SubOf(k, r, s)
      /\ child \in Keys /\ Below(child.path, k.path)
  BY <1>1, ForwardingIs
<1>3. /\ Head(todo).op = "forward" /\ PlaceOK(Head(todo), Elements(todo), request)
      /\ Elements(todo) = {Head(todo)} \union Elements(Tail(todo))
      /\ \A y \in Elements(Tail(todo)) : Above(Head(todo), y)
      /\ \A y \in Elements(todo) : y.at \in Keys
  BY <1>2, AtHead
<1>4. /\ e.op = "event" /\ e.at = child /\ e.nested = TRUE
      /\ f.op = "after" /\ f.at = k /\ f.region = r /\ f.state = s
  BY DEF EventCall, AfterCall
<1>5. /\ IsSeq(<<e, f>>) /\ Elements(<<e, f>>) = {e, f} /\ DOMAIN <<e, f>> = {1, 2}
      /\ <<e, f>>[1] = e /\ <<e, f>>[2] = f
  BY FewElements
<1>6. request.at \in Keys
  BY <1>2 DEF TxOK
<1>7. \A p \in Keys : p.path \in Seq(StateNames)
  BY DefinitionIs
<1> HIDE DEF k, r, s, child, e, f
<1>8. Ordered(<<e, f>>)
  <2>1. Above(e, f)
    BY <1>2, <1>4 DEF Above, AtOrBelow
  <2>2. \A i, j \in {1, 2} : i < j => i = 1 /\ j = 2
    OBVIOUS
  <2>3. QED
    BY <1>5, <2>1, <2>2 DEF Ordered
<1>9. Standing(f, Elements(Tail(todo)))
  BY <1>3, <1>4 DEF Standing, Above, k
<1>10. Standing(e, Elements(Tail(todo)))
  <2>1. SUFFICES ASSUME NEW y \in Elements(Tail(todo)) PROVE Above(e, y)
    BY DEF Standing
  <2>2. y.op \in {"forward", "after"} /\ (k.path = y.at.path \/ Below(k.path, y.at.path)) /\ y.at \in Keys
    BY <1>3 DEF Above, AtOrBelow, k
  <2>3. Below(child.path, y.at.path)
    BY <1>2, <1>7, <2>2, BelowIs
  <2>4. QED
    BY <1>4, <2>2, <2>3 DEF Above, AtOrBelow
<1>11. CallOK(e, work, rows, reply) /\ CallOK(f, work, rows, reply)
  <2>1. CallOK(e, work, rows, reply)
    BY <1>1, <1>2, <1>4 DEF CallOK
  <2>2. Fresh(work, rows, k, r, s)
    BY <1>1, <1>2 DEF Fresh
  <2>3. QED
    BY <1>1, <1>2, <1>4, <2>1, <2>2 DEF CallOK
<1> DEFINE C == {e, f} \union Elements(Tail(todo))
<1>12. \/ k = request.at
       \/ /\ Below(k.path, request.at.path)
          /\ \E y \in Elements(Tail(todo)) : y.op = "after" /\ k = ChildKey(y.at, y.region, y.state)
  BY <1>3 DEF PlaceOK, k
<1>13. PlaceOK(f, C, request)
  BY <1>2, <1>4, <1>12 DEF PlaceOK, OpsOf
<1>14. PlaceOK(e, C, request)
  <2>1. Below(child.path, request.at.path)
    BY <1>2, <1>6, <1>7, <1>12, BelowIs
  <2>2. f \in C /\ child = ChildKey(f.at, f.region, f.state)
    BY <1>2, <1>4
  <2>3. QED
    BY <1>2, <1>4, <2>1, <2>2 DEF PlaceOK, OpsOf
<1>15. \A x \in Elements(<<e, f>>) :
         /\ CallOK(x, work, rows, reply) /\ Standing(x, Elements(Tail(todo)))
         /\ PlaceOK(x, Elements(<<e, f>>) \union Elements(Tail(todo)), request)
  BY <1>5, <1>9, <1>10, <1>11, <1>13, <1>14
<1>16. QED
  <2>1. PICK c : c = <<e, f>>
    OBVIOUS
  <2>2. ReturnOnly(c) /\ IsSeq(c) /\ Ordered(c)
    BY <1>1, <1>5, <1>8, <2>1
  <2>3. QED
    BY <1>2, <1>15, <2>1, <2>2, ReturnKeepsInv

-----------------------------------------------------------------------------
(* The invariant.                                                          *)

LEMMA CallStepKeepsInv ==
  ASSUME LegacyInv, Call
  PROVE  LegacyInv'
<1>1. CASE AnswerDuplicate
  BY <1>1, AnswerDuplicateKeepsInv
<1>2. CASE AnswerIdentityConflict \/ RefuseUncorrelated
  BY <1>2, FailKeepsInv DEF AnswerIdentityConflict, RefuseUncorrelated
<1>3. CASE ApplyEvent
  BY <1>3, ApplyEventWrites
<1>4. CASE NoTransition
  BY <1>4, NoTransitionKeepsInv
<1>5. CASE PassOver \/ ChildStays \/ SkipTimeout
  BY <1>5, PlainReturnKeepsInv DEF PassOver, ChildStays, SkipTimeout
<1>6. CASE CreateChild
  BY <1>6, CreateChildKeepsInv
<1>7. CASE Recover
  <2>1. PICK entered : AdvanceParent("recovery", entered)
    BY <1>7 DEF Recover
  <2>2. Running("forward")
    BY <1>7 DEF Recover, FinalChild, Forwarding
  <2>3. QED
    BY <2>1, <2>2, ParentAdvances
<1>8. CASE ForwardToChild
  BY <1>8, ForwardToChildKeepsInv
<1>9. CASE ChildCompletes
  BY <1>9, ParentAdvances DEF ChildCompletes
<1>10. CASE FireTimeout
  BY <1>10, FireTimeoutWrites
<1>11. CASE CreateEntity
  BY <1>11, CreateEntityKeepsInv
<1>12. QED
  BY <1>1, <1>2, <1>3, <1>4, <1>5, <1>6, <1>7, <1>8, <1>9, <1>10, <1>11 DEF Call

\* A transaction begins with call x.
BeginsWith(kind, k, event, x, answer) ==
  /\ Begin(kind, k, event, x, answer) /\ x.op = kind /\ x.at = k
  /\ x.op = "event" => x.nested = FALSE
  /\ \/ kind = "create" /\ k \in Keys /\ answer = "created"
     \/ kind = "event" /\ k \in DOMAIN entities /\ event \in Events /\ answer = "no_transition"
     \/ kind = "timer" /\ k \in DOMAIN entities /\ answer = "none"

LEMMA BeginIs ==
  ASSUME BeginTransaction
  PROVE  \E kind, k, event, x, answer : BeginsWith(kind, k, event, x, answer)
<1>1. ASSUME NEW k \in Addressees, BeginCreate(k)
      PROVE  \E x : BeginsWith("create", k, NoEvent, x, "created")
  BY <1>1, AddresseesAssumption DEF BeginCreate, BeginsWith
<1>2. ASSUME NEW k, NEW ev \in Events, BeginEvent(k, ev)
      PROVE  \E x : BeginsWith("event", k, ev, x, "no_transition")
  BY <1>2 DEF BeginEvent, EventCall, BeginsWith
<1>3. ASSUME NEW k \in DOMAIN entities, NEW t, BeginTimer(k, t)
      PROVE  \E x : BeginsWith("timer", k, NoEvent, x, "none")
  BY <1>3 DEF BeginTimer, BeginsWith
<1>4. CASE \E k \in Addressees : BeginCreate(k)
  BY <1>1, <1>4
<1>5. CASE \E k \in Addressees : \E ev \in Events : BeginEvent(k, ev)
  BY <1>2, <1>5
<1>6. CASE \E k \in DOMAIN entities :
             \E n \in DOMAIN Defs[k.machine].transitions : BeginTimer(k, Defs[k.machine].transitions[n])
  BY <1>3, <1>6
<1>7. QED
  BY <1>4, <1>5, <1>6 DEF BeginTransaction

\* A transaction starts with one call.
LEMMA BeginKeepsInv ==
  ASSUME LegacyInv, BeginTransaction
  PROVE  /\ LegacyInv' /\ phase = "idle" /\ work' = work /\ rows' = rows /\ UNCHANGED committed
         /\ \E x : /\ todo' = <<x>> /\ x.at = request'.at /\ x.op = request'.kind
                   /\ x.op = "event" => x.nested = FALSE
         /\ reply' = CASE request'.kind = "event" -> "no_transition"
                       [] request'.kind = "create" -> "created"
                       [] OTHER -> "none"
         /\ request'.kind = "event" => request'.event \in Events
<1>1. PICK kind, k, event, x, answer : BeginsWith(kind, k, event, x, answer)
  BY BeginIs
<1>2. /\ Begin(kind, k, event, x, answer) /\ x.op = kind /\ x.at = k
      /\ x.op = "event" => x.nested = FALSE
      /\ \/ kind = "create" /\ k \in Keys /\ answer = "created"
         \/ kind = "event" /\ k \in DOMAIN entities /\ event \in Events /\ answer = "no_transition"
         \/ kind = "timer" /\ k \in DOMAIN entities /\ answer = "none"
  BY <1>1 DEF BeginsWith
<1>3. /\ phase = "idle" /\ phase' = "tx" /\ request' = [kind |-> kind, at |-> k, event |-> event]
      /\ todo' = <<x>> /\ reply' = answer /\ entities' = entities /\ history' = history
      /\ work' = work /\ rows' = rows
  BY <1>2 DEF Begin, committed
<1>4. /\ work = entities /\ rows = history /\ TableOK(work, rows) /\ TableOK(entities, history)
  BY <1>3 DEF LegacyInv, PhaseOK
<1>5. request'.kind = kind /\ request'.at = k /\ request'.event = event
  BY <1>3
<1>6. k \in Keys /\ kind \in {"event", "timer", "create"} /\ (kind = "event" => k \in DOMAIN entities)
  BY <1>2, <1>4 DEF TableOK
<1>7. StackOK(todo', work', rows', reply', request')
  <2>1. IsSeq(<<x>>) /\ Elements(<<x>>) = {x} /\ DOMAIN <<x>> = {1}
    BY FewElements
  <2>2. Ordered(<<x>>)
    <3>1. \A i, j \in {1} : ~ (i < j)
      OBVIOUS
    <3>2. QED
      BY <2>1, <3>1 DEF Ordered
  <2>3. CallOK(x, work, rows, answer)
    BY <1>2, <1>4 DEF CallOK
  <2>4. PlaceOK(x, {x}, request')
    BY <1>2, <1>5 DEF PlaceOK, OpsOf
  <2>5. QED
    BY <1>3, <2>1, <2>2, <2>3, <2>4 DEF StackOK
<1>8. Continues(history, rows') /\ DOMAIN entities \subseteq DOMAIN work'
  <2>1. Len(history) \in Nat
    BY <1>4, SeqDomain DEF TableOK
  <2>2. QED
    BY <1>3, <1>4, <2>1 DEF Continues
<1>9. TxOK'
  BY <1>2, <1>3, <1>4, <1>5, <1>6, <1>7, <1>8 DEF TxOK
<1>10. LegacyInv'
  BY <1>2, <1>3, <1>4, <1>9 DEF LegacyInv, PhaseOK, NoWriterConflict
<1>11. QED
  BY <1>2, <1>3, <1>5, <1>10 DEF committed

\* A commit publishes good tables.
LEMMA CommitKeepsInv ==
  ASSUME LegacyInv, Commit
  PROVE  LegacyInv'
BY DEF LegacyInv, Commit, PhaseOK, NoWriterConflict

LEMMA StutterKeepsInv ==
  ASSUME LegacyInv, UNCHANGED vars
  PROVE  LegacyInv'
<1>1. /\ entities' = entities /\ history' = history /\ work' = work /\ rows' = rows /\ todo' = todo
      /\ phase' = phase /\ request' = request /\ reply' = reply
  BY DEF vars
<1>2. TxOK' <=> TxOK
  BY <1>1 DEF TxOK
<1>3. QED
  BY <1>1, <1>2 DEF LegacyInv, PhaseOK, NoWriterConflict

\* What an engine without entries left is good.
LEMMA StoresAreOK ==
  ASSUME NEW s \in Stores
  PROVE  TableOK(s.entities, s.history)
<1> DEFINE w == s.entities
           h == s.history
<1>1. /\ IsSeq(h) /\ DOMAIN w \subseteq Keys
      /\ \A i \in DOMAIN h : h[i].key = NoIdentity /\ h[i].at \in DOMAIN w
      /\ \A k \in DOMAIN w : Untracked(k, w[k], h)
  BY StoresAssumption
<1> HIDE DEF w, h
<1>2. ASSUME NEW k \in DOMAIN w
      PROVE  /\ Shape(k, w[k])
             /\ \A r \in Regs(k) : IndexOK(h, k, w[k], r)
             /\ \A i \in RowsOf(h, k) : h[i].region \in Regs(k)
  <2>1. PICK e : e = w[k]
    OBVIOUS
  <2>2. /\ e = [states |-> e.states, context |-> e.context, version |-> e.version,
                created_at |-> e.created_at, updated_at |-> e.updated_at, stored |-> NoEntries]
        /\ DOMAIN e.states = Regs(k)
        /\ e.version \in Nat \ {0}
        /\ RowsOf(h, k) # {} => e.version > 1
        /\ \A i \in RowsOf(h, k) : h[i].region \in DOMAIN e.states
        /\ \A r \in DOMAIN e.states : LastOf(h, k, r) # 0 => h[LastOf(h, k, r)].to = e.states[r]
    BY <1>1, <2>1 DEF Untracked, Regs
  <2>3. IsRow(e) /\ e.stored = NoEntries
    <3>1. e.stored = NoEntries
      BY <2>2
    <3>2. QED
      BY <2>2, <3>1 DEF IsRow
  <2>4. ASSUME NEW r \in Regs(k) PROVE Entry(k, e, r) = LegacyEntry(Defs[k.machine], e, r)
    <3>1. e.stored.version # e.version
      BY <2>2, <2>3 DEF NoEntries
    <3>2. QED
      BY <2>2, <3>1 DEF Entry, EffectiveEntries
  <2>5. \A r \in Regs(k) : Entry(k, e, r).state = e.states[r] /\ Entry(k, e, r).seq = e.version
    BY <2>4, LegacyInstance
  <2>6. \A r \in Regs(k) : /\ Entry(k, e, r).row = 0
                           /\ Entry(k, e, r).basis = "created" => e.version <= 1
    BY <2>4 DEF LegacyEntry
  <2>7. Shape(k, e)
    BY <2>2, <2>3, <2>5 DEF Shape
  <2>8. ASSUME NEW r \in Regs(k) PROVE IndexOK(h, k, e, r)
    <3>1. Entry(k, e, r).basis = "created" => LastOf(h, k, r) = 0
      <4>1. SUFFICES ASSUME Entry(k, e, r).basis = "created" PROVE LastOf(h, k, r) = 0
        OBVIOUS
      <4>2. RowsOf(h, k) = {}
        BY <2>2, <2>6, <4>1
      <4>3. {i \in RowsOf(h, k) : h[i].region = r} = {}
        BY <4>2
      <4>4. QED
        BY <4>3 DEF LastOf, LastId
    <3>2. QED
      BY <2>2, <2>6, <3>1 DEF IndexOK
  <2>9. QED
    BY <2>1, <2>2, <2>7, <2>8
<1>3. ASSUME NEW i \in DOMAIN h PROVE RowOK(w, h[i])
  <2>1. h[i].at \in DOMAIN w /\ i \in RowsOf(h, h[i].at)
    BY <1>1 DEF RowsOf
  <2>2. QED
    BY <1>1, <1>2, <2>1 DEF RowOK, KeyOK
<1>4. TableOK(w, h)
  BY <1>1, <1>2, <1>3 DEF TableOK
<1>5. QED
  BY <1>4 DEF w, h

LEMMA LegacyInit ==
  ASSUME Init
  PROVE  LegacyInv
<1>1. PICK s \in Stores : entities = s.entities /\ work = s.entities /\ history = s.history /\ rows = s.history
  BY DEF Init
<1>2. TableOK(s.entities, s.history)
  BY StoresAreOK
<1>3. QED
  BY <1>1, <1>2 DEF Init, LegacyInv, PhaseOK, NoWriterConflict

LEMMA LegacyStep ==
  ASSUME LegacyInv, [Next]_vars
  PROVE  LegacyInv'
<1>1. CASE BeginTransaction
  BY <1>1, BeginKeepsInv
<1>2. CASE Call
  BY <1>2, CallStepKeepsInv
<1>3. CASE Commit
  BY <1>3, CommitKeepsInv
<1>4. CASE Crash
  BY <1>4, FailKeepsInv DEF Crash
<1>5. CASE UNCHANGED vars
  BY <1>5, StutterKeepsInv
<1>6. QED
  BY <1>1, <1>2, <1>3, <1>4, <1>5 DEF Next

\* The tables, the calls still to be made and the region instances agree, whatever
\* the definitions, the requests and the rows an older engine left.
THEOREM LegacyIsInvariant == Spec => []LegacyInv
<1>1. Init => LegacyInv
  BY LegacyInit
<1>2. LegacyInv /\ [Next]_vars => LegacyInv'
  BY LegacyStep
<1>3. QED
  BY <1>1, <1>2, PTL DEF Spec

\* No write of the process meets the unique index: a compound state that is
\* entered again completes again, and an event new to its entity is recorded.
THEOREM WritesNeverConflict == Spec => []NoWriterConflict
<1>1. LegacyInv => NoWriterConflict
  BY DEF LegacyInv
<1>2. QED
  BY <1>1, LegacyIsInvariant, PTL

-----------------------------------------------------------------------------
(* Completions.                                                            *)

\* Row i of h, a completion, is one the property asks for.
Correlated(h, i) ==
  LET row     == h[i]
      sub     == SubOf(row.at, row.region, row.from)
      child   == h[row.cause.child]
      entered == LastId({j \in RowsOf(h, row.at) : j < i /\ h[j].region = row.region})
  IN /\ row.cause.child \in entered + 1..i - 1
     /\ child.at = ChildKey(row.at, row.region, row.from)
     /\ child.to \in DOMAIN sub.on_final /\ sub.on_final[child.to] = row.to
     /\ row.cause.entered # 0 => row.cause.entered = entered
     /\ entered # 0 => h[entered].to = row.from

AllCorrelated(h) == \A i \in DOMAIN h : h[i].type = "$sub_complete" => Correlated(h, i)

\* Later rows do not disturb it.
LEMMA CorrelatedStays ==
  ASSUME NEW h, IsSeq(h), NEW h2, IsSeq(h2), Continues(h, h2), NEW i \in DOMAIN h, Correlated(h, i)
  PROVE  Correlated(h2, i)
<1> DEFINE row == h[i]
           ids(t) == {j \in RowsOf(t, row.at) : j < i /\ t[j].region = row.region}
           entered == LastId(ids(h))
<1>1. /\ Len(h) \in Nat /\ DOMAIN h = 1..Len(h) /\ Len(h2) \in Nat /\ DOMAIN h2 = 1..Len(h2)
      /\ Len(h) <= Len(h2) /\ \A j \in 1..Len(h) : h2[j] = h[j]
  BY SeqDomain DEF Continues
<1>2. h2[i] = row
  BY <1>1
<1>3. ids(h2) = ids(h)
  <2>1. ASSUME NEW j, j < i PROVE j \in DOMAIN h2 => j \in DOMAIN h
    BY <1>1, <2>1
  <2>2. QED
    BY <1>1, <2>1 DEF RowsOf
<1>4. /\ row.cause.child \in entered + 1..i - 1
      /\ h[row.cause.child].at = ChildKey(row.at, row.region, row.from)
      /\ LET sub == SubOf(row.at, row.region, row.from)
         IN h[row.cause.child].to \in DOMAIN sub.on_final /\ sub.on_final[h[row.cause.child].to] = row.to
      /\ row.cause.entered # 0 => row.cause.entered = entered
      /\ entered # 0 => h[entered].to = row.from
  BY DEF Correlated
<1>5. entered \in 0..Len(h)
  <2>1. ids(h) \subseteq 1..Len(h)
    BY <1>1 DEF RowsOf
  <2> HIDE DEF ids
  <2>2. QED
    BY <1>1, <2>1, LastIdIs
<1>6. entered # 0 => h2[entered] = h[entered]
  BY <1>1, <1>5
<1>7. h2[row.cause.child] = h[row.cause.child]
  <2>1. row.cause.child \in 1..Len(h)
    BY <1>1, <1>4, <1>5
  <2>2. QED
    BY <1>1, <2>1
<1>8. LastId({j \in RowsOf(h2, h2[i].at) : j < i /\ h2[j].region = h2[i].region}) = entered
  BY <1>2, <1>3
<1> HIDE DEF entered, ids
<1>9. QED
  BY <1>2, <1>4, <1>6, <1>7, <1>8 DEF Correlated

\* A call that advances a parent has evidence: the child is final since after the
\* parent's region entered the compound state.
Evidence(k, r, s, entered) ==
  LET child == ChildKey(k, r, s)
  IN /\ k \in DOMAIN work /\ r \in Regs(k) /\ work[k].states[r] = s
     /\ child \in DOMAIN work /\ IsFinal(work[child], SubOf(k, r, s))
     /\ LastId(RowsOf(rows, child)) > LastOf(rows, k, r)
     /\ entered # 0 => entered = LastOf(rows, k, r)

LEMMA AdvancesHaveEvidence ==
  ASSUME LegacyInv, Recover \/ ChildCompletes
  PROVE  \E op, via, entered :
           /\ op \in {"forward", "after"} /\ via \in {"recovery", "forward"}
           /\ Running(op) /\ AdvanceParent(via, entered)
           /\ op = "forward" <=> via = "recovery"
           /\ Evidence(Head(todo).at, Head(todo).region, Head(todo).state, entered)
<1> DEFINE k == Head(todo).at
           r == Head(todo).region
           s == Head(todo).state
<1>1. CASE Recover
  <2>1. FinalChild /\ Correlates(k, r, HeadChild)
    BY <1>1 DEF Recover
  <2>2. PICK entered \in EnteringRow(rows, k, work[k], r) : AdvanceParent("recovery", entered)
    BY <1>1 DEF Recover
  <2>3. Forwarding /\ HeadChild \in DOMAIN work /\ IsFinal(work[HeadChild], HeadSub)
    BY <2>1 DEF FinalChild
  <2>4. /\ Running("forward") /\ TableOK(work, rows) /\ k \in DOMAIN work /\ r \in Regs(k)
        /\ work[k].states[r] = s /\ HeadChild = ChildKey(k, r, s) /\ HeadSub = SubOf(k, r, s)
    BY <2>3, ForwardingIs
  <2>5. EnteringRow(rows, k, work[k], r) \subseteq {LastOf(rows, k, r)}
    BY <2>4, EnteringIs
  <2>6. LastId(RowsOf(rows, HeadChild)) > LastOf(rows, k, r)
    BY <2>1, <2>5 DEF Correlates
  <2>7. Evidence(k, r, s, entered)
    BY <2>2, <2>3, <2>4, <2>5, <2>6 DEF Evidence
  <2>8. QED
    BY <2>2, <2>4, <2>7
<1>2. CASE ChildCompletes
  <2>1. /\ Running("after") /\ IsFinal(work[HeadChild], HeadSub)
        /\ AdvanceParent("forward", Entry(k, work[k], r).row)
    BY <1>2 DEF ChildCompletes
  <2>2. TableOK(work, rows) /\ CallOK(Head(todo), work, rows, reply) /\ Head(todo).op = "after"
    BY <2>1, AtHead
  <2>3. /\ k \in DOMAIN work /\ r \in Regs(k) /\ work[k].states[r] = s
        /\ ChildKey(k, r, s) \in DOMAIN work /\ Fresh(work, rows, k, r, s)
    BY <2>2 DEF CallOK
  <2>4. HeadChild = ChildKey(k, r, s) /\ HeadSub = SubOf(k, r, s)
    BY DEF HeadChild, HeadSub
  <2>5. LastId(RowsOf(rows, HeadChild)) > LastOf(rows, k, r)
    BY <2>1, <2>3, <2>4 DEF Fresh
  <2>6. Entry(k, work[k], r).row # 0 => Entry(k, work[k], r).row = LastOf(rows, k, r)
    BY <2>2, <2>3 DEF TableOK, IndexOK
  <2>7. Evidence(k, r, s, Entry(k, work[k], r).row)
    BY <2>1, <2>3, <2>4, <2>5, <2>6 DEF Evidence
  <2>8. QED
    BY <2>1, <2>7
<1>3. QED
  BY <1>1, <1>2

\* The row such a call adds is correlated.
LEMMA NewCompletionIsCorrelated ==
  ASSUME TableOK(work, rows), NEW k, NEW r, NEW s, NEW via, NEW entered, Evidence(k, r, s, entered),
         NEW spec, spec.region = r, spec.from = s,
         spec.to = SubOf(k, r, s).on_final[work[ChildKey(k, r, s)].states[DefaultRegion]],
         spec.cause = [via |-> via, entered |-> entered, child |-> LastId(RowsOf(rows, ChildKey(k, r, s)))],
         NEW w2, NEW h2, Wrote(k, spec, work, rows, w2, h2)
  PROVE  Correlated(h2, Len(rows) + 1)
<1> DEFINE h == rows
           child == ChildKey(k, r, s)
           sub == SubOf(k, r, s)
           last == LastId(RowsOf(h, child))
           i == Len(h) + 1
           from == LastOf(h, k, r)
<1>1. /\ k \in DOMAIN work /\ r \in Regs(k) /\ work[k].states[r] = s
      /\ child \in DOMAIN work /\ IsFinal(work[child], sub)
      /\ last > from
      /\ entered # 0 => entered = from
  BY DEF Evidence
<1>2. /\ IsSeq(h) /\ Len(h) \in Nat /\ DOMAIN h = 1..Len(h)
      /\ from \in 0..Len(h) /\ last \in 0..Len(h)
      /\ last # 0 => last \in RowsOf(h, child)
      /\ from # 0 => from \in 1..Len(h)
  <2>1. IsSeq(h)
    BY DEF TableOK
  <2>2. QED
    BY <2>1, RowsOfIs
<1>3. /\ IsSeq(h2) /\ Len(h) < Len(h2) /\ \A j \in 1..Len(h) : h2[j] = h[j]
      /\ Len(h2) \in Nat /\ DOMAIN h2 = 1..Len(h2)
      /\ MainRowIs(h2[i], k, spec)
  <2>1. IsSeq(h2)
    BY DEF Wrote, TableOK
  <2>2. QED
    BY <2>1, SeqDomain DEF Wrote, Continues
<1>4. /\ h2[i].at = k /\ h2[i].region = r /\ h2[i].from = s
      /\ h2[i].to = sub.on_final[work[child].states[DefaultRegion]]
      /\ h2[i].cause.entered = entered /\ h2[i].cause.child = last
  BY <1>3 DEF MainRowIs
<1>5. {j \in RowsOf(h2, k) : j < i /\ h2[j].region = r} = {j \in RowsOf(h, k) : h[j].region = r}
  <2>1. \A j : j \in DOMAIN h2 /\ j < i <=> j \in DOMAIN h
    BY <1>2, <1>3
  <2>2. \A j \in DOMAIN h : h2[j] = h[j]
    BY <1>2, <1>3
  <2> HIDE DEF i, h
  <2>3. QED
    BY <2>1, <2>2 DEF RowsOf
<1>6. LastId({j \in RowsOf(h2, k) : j < i /\ h2[j].region = r}) = from
  BY <1>5 DEF LastOf
<1>7. last \in from + 1..i - 1 /\ last # 0
  BY <1>1, <1>2
<1>8. h2[last] = h[last] /\ h[last].at = child
  BY <1>2, <1>3, <1>7 DEF RowsOf
<1>9. h[last].to = work[child].states[DefaultRegion] /\ h[last].to \in DOMAIN sub.on_final
  BY <1>1, <1>7, FlatLast DEF IsFinal
<1>10. from # 0 => h2[from].to = s
  <2>1. from # 0 => h[from].to = work[k].states[r]
    BY <1>1 DEF TableOK, IndexOK
  <2>2. QED
    BY <1>1, <1>2, <1>3, <2>1
<1> HIDE DEF h, child, sub, last, i, from
<1>11. Correlated(h2, i)
  BY <1>1, <1>4, <1>6, <1>7, <1>8, <1>9, <1>10 DEF Correlated, child, sub
<1>12. QED
  BY <1>11 DEF i, h

\* The calls that write rows, and the others.
Writes == ApplyEvent \/ FireTimeout \/ Recover \/ ChildCompletes

Fails == \E code : code # "conflict" /\ code # "no_transition" /\ code # "applied" /\ Fail(code)

LEMMA StepKinds ==
  ASSUME [Next]_vars
  PROVE  \/ Writes
         \/ Fails
         \/ BeginTransaction
         \/ Commit
         \/ AnswerDuplicate \/ NoTransition \/ PassOver \/ CreateChild \/ ForwardToChild
         \/ ChildStays \/ SkipTimeout \/ CreateEntity
         \/ UNCHANGED vars
<1>1. AnswerIdentityConflict => Fails
  BY DEF AnswerIdentityConflict, Fails
<1>2. RefuseUncorrelated => Fails
  BY DEF RefuseUncorrelated, Fails
<1>3. Crash => Fails
  BY DEF Crash, Fails
<1>4. QED
  BY <1>1, <1>2, <1>3 DEF Next, Call, Writes

\* What a write adds is not a completion, or is correlated.
LEMMA WritesKeepCorrelated ==
  ASSUME LegacyInv, AllCorrelated(rows), Writes,
         request.kind = "event" => request.event.type # "$sub_complete"
  PROVE  AllCorrelated(rows')
<1> DEFINE k == Head(todo).at
<1>1. TableOK(work, rows)
  BY DEF LegacyInv
<1>2. ASSUME NEW spec, Wrote(k, spec, work, rows, work', rows'),
             spec.type = "$sub_complete" => Correlated(rows', Len(rows) + 1)
      PROVE  AllCorrelated(rows')
  <2>1. /\ Continues(rows, rows') /\ IsSeq(rows') /\ MainRowIs(rows'[Len(rows) + 1], k, spec)
        /\ \A i \in Len(rows) + 2..Len(rows') : rows'[i].type = "$join"
    BY <1>2 DEF Wrote, TableOK
  <2>2. /\ Len(rows) \in Nat /\ DOMAIN rows = 1..Len(rows)
        /\ Len(rows') \in Nat /\ DOMAIN rows' = 1..Len(rows')
    BY <1>1, <2>1, SeqDomain DEF TableOK
  <2>3. SUFFICES ASSUME NEW i \in DOMAIN rows', rows'[i].type = "$sub_complete"
                 PROVE  Correlated(rows', i)
    BY DEF AllCorrelated
  <2>4. i \in DOMAIN rows \/ i = Len(rows) + 1 \/ i \in Len(rows) + 2..Len(rows')
    BY <2>2
  <2>5. CASE i \in DOMAIN rows
    <3>1. rows'[i] = rows[i]
      BY <2>1, <2>2, <2>5 DEF Continues
    <3>2. Correlated(rows, i)
      BY <2>3, <2>5, <3>1 DEF AllCorrelated
    <3>3. IsSeq(rows)
      BY <1>1 DEF TableOK
    <3>4. PICK h2 : h2 = rows'
      OBVIOUS
    <3>5. Correlated(h2, i)
      BY <2>1, <2>5, <3>2, <3>3, <3>4, CorrelatedStays
    <3>6. QED
      BY <3>4, <3>5
  <2>6. CASE i = Len(rows) + 1
    BY <1>2, <2>1, <2>3, <2>6 DEF MainRowIs
  <2>7. CASE i \in Len(rows) + 2..Len(rows')
    BY <2>1, <2>3, <2>7
  <2>8. QED
    BY <2>4, <2>5, <2>6, <2>7
<1>3. CASE ApplyEvent
  BY <1>2, <1>3, ApplyEventWrites
<1>4. CASE FireTimeout
  BY <1>2, <1>4, FireTimeoutWrites
<1>5. CASE Recover \/ ChildCompletes
  <2>1. PICK op, via, entered :
          /\ op \in {"forward", "after"} /\ via \in {"recovery", "forward"}
          /\ Running(op) /\ AdvanceParent(via, entered)
          /\ Evidence(k, Head(todo).region, Head(todo).state, entered)
    BY <1>5, AdvancesHaveEvidence
  <2>2. HeadChild = ChildKey(k, Head(todo).region, Head(todo).state)
        /\ HeadSub = SubOf(k, Head(todo).region, Head(todo).state)
    BY DEF HeadChild, HeadSub
  <2>3. PICK spec : /\ Wrote(k, spec, work, rows, work', rows')
                    /\ spec.region = Head(todo).region /\ spec.from = Head(todo).state
                    /\ spec.to = HeadSub.on_final[work[HeadChild].states[DefaultRegion]]
                    /\ spec.cause = [via |-> via, entered |-> entered,
                                     child |-> LastId(RowsOf(rows, HeadChild))]
    BY <2>1, ParentAdvances
  <2>4. PICK w2, h2, kk, r, s : /\ w2 = work' /\ h2 = rows' /\ kk = k /\ r = Head(todo).region
                                /\ s = Head(todo).state
    OBVIOUS
  <2>5. Correlated(h2, Len(rows) + 1)
    BY <1>1, <2>1, <2>2, <2>3, <2>4, NewCompletionIsCorrelated
  <2>6. QED
    BY <1>2, <2>3, <2>4, <2>5
<1>6. QED
  BY <1>3, <1>4, <1>5 DEF Writes

\* Nobody submits an event of the type the engine gives its completions, and no
\* row the database holds at first is one (an engine that kept no entries gave
\* its own no cause).
NoCompletionTypes ==
  /\ \A ev \in Events : ev.type # "$sub_complete"
  /\ \A s \in Stores : \A i \in DOMAIN s.history : s.history[i].type # "$sub_complete"

CompletionInv ==
  /\ LegacyInv
  /\ phase = "tx" /\ request.kind = "event" => request.event \in Events
  /\ AllCorrelated(rows)
  /\ AllCorrelated(history)

LEMMA CompletionStep ==
  ASSUME NoCompletionTypes, CompletionInv, [Next]_vars
  PROVE  CompletionInv'
<1>1. LegacyInv'
  BY LegacyStep DEF CompletionInv
<1>2. LegacyInv /\ AllCorrelated(rows) /\ AllCorrelated(history)
      /\ (phase = "tx" /\ request.kind = "event" => request.event \in Events)
  BY DEF CompletionInv
<1>3. CASE Writes
  <2>1. phase = "tx"
    BY <1>3 DEF Writes, ApplyEvent, FireTimeout, Recover, FinalChild, Forwarding, ChildCompletes, Running
  <2>2. request.kind = "event" => request.event.type # "$sub_complete"
    BY <1>2, <2>1 DEF NoCompletionTypes
  <2>3. AllCorrelated(rows')
    BY <1>2, <1>3, <2>2, WritesKeepCorrelated
  <2>4. Return(<<>>)
    BY <1>2, <1>3, ApplyEventWrites, FireTimeoutWrites, AdvancesHaveEvidence, ParentAdvances DEF Writes
  <2>5. QED
    BY <1>1, <1>2, <2>3, <2>4 DEF Return, committed, CompletionInv
<1>4. CASE Fails
  BY <1>1, <1>2, <1>4 DEF Fails, Fail, committed, CompletionInv
<1>5. CASE BeginTransaction
  <2>1. request'.kind = "event" => request'.event \in Events
    BY <1>2, <1>5, BeginKeepsInv
  <2>2. rows' = rows /\ history' = history
    BY <1>2, <1>5, BeginKeepsInv DEF committed
  <2>3. QED
    BY <1>1, <1>2, <2>1, <2>2 DEF CompletionInv
<1>6. CASE Commit
  BY <1>1, <1>2, <1>6 DEF Commit, CompletionInv
<1>7. CASE \/ AnswerDuplicate \/ NoTransition \/ PassOver \/ CreateChild \/ ForwardToChild
           \/ ChildStays \/ SkipTimeout \/ CreateEntity
  <2>1. rows' = rows /\ history' = history /\ request' = request /\ phase' = phase
    BY <1>7 DEF AnswerDuplicate, NoTransition, PassOver, CreateChild, ForwardToChild, ChildStays,
                SkipTimeout, CreateEntity, ReturnOnly, Return, committed
  <2>2. QED
    BY <1>1, <1>2, <2>1 DEF CompletionInv
<1>8. CASE UNCHANGED vars
  BY <1>1, <1>2, <1>8 DEF vars, CompletionInv
<1>9. QED
  BY <1>3, <1>4, <1>5, <1>6, <1>7, <1>8, StepKinds

\* A parent never completes on the evidence of an earlier visit: every completion
\* follows a row of the child that entered the final state it stands for, newer
\* than the row by which the parent entered the compound state.
THEOREM LegacyCompletionsAreCorrelated ==
  NoCompletionTypes => (Spec => []CompletionsAreCorrelated)
<1> SUFFICES ASSUME NoCompletionTypes PROVE Spec => []CompletionsAreCorrelated
  OBVIOUS
<1>1. Init => CompletionInv
  <2>1. SUFFICES ASSUME Init PROVE CompletionInv
    OBVIOUS
  <2>2. PICK s \in Stores : history = s.history /\ rows = s.history
    BY <2>1 DEF Init
  <2>3. AllCorrelated(s.history)
    BY DEF NoCompletionTypes, AllCorrelated
  <2>4. phase = "idle"
    BY <2>1 DEF Init
  <2>5. QED
    BY <2>1, <2>2, <2>3, <2>4, LegacyInit DEF CompletionInv
<1>2. CompletionInv /\ [Next]_vars => CompletionInv'
  BY CompletionStep
<1>3. CompletionInv => CompletionsAreCorrelated
  BY DEF CompletionInv, AllCorrelated, Correlated, CompletionsAreCorrelated
<1>4. QED
  BY <1>1, <1>2, <1>3, PTL DEF Spec

-----------------------------------------------------------------------------
(* Recovery is certain.                                                    *)

\* While the answer is "no transition", the addressee's event is still to be
\* looked at, or each of its regions is still to be visited or has nothing pending.
Searching(s, w, h, req) ==
  \/ \E x \in Elements(s) : x.op = "event" /\ ~ x.nested
  \/ \A r \in Regs(req.at) : \/ \E x \in Elements(s) : x.op = "forward" /\ x.at = req.at /\ x.region = r
                             \/ ~ Pending(w, h, req.at, r)

NoTransitionInv ==
  /\ LegacyInv
  /\ NoTransitionMeansNothingPending
  /\ phase = "tx" /\ request.kind = "event" /\ reply = "no_transition" => Searching(todo, work, rows, request)

\* Under the call at hand, only regions are left.
LEMMA OnlyRegionsLeft ==
  ASSUME LegacyInv, NEW op, Running(op), Searching(todo, work, rows, request),
         op # "event" \/ Head(todo).nested
  PROVE  \A r \in Regs(request.at) :
           \/ \E x \in Elements(Tail(todo)) : x.op = "forward" /\ x.at = request.at /\ x.region = r
           \/ Head(todo).op = "forward" /\ Head(todo).at = request.at /\ Head(todo).region = r
           \/ ~ Pending(work, rows, request.at, r)
<1>1. /\ Head(todo).op = op /\ Elements(todo) = {Head(todo)} \union Elements(Tail(todo))
      /\ \A y \in Elements(Tail(todo)) : Above(Head(todo), y)
  BY AtHead
<1>2. ~ \E x \in Elements(todo) : x.op = "event" /\ ~ x.nested
  BY <1>1 DEF Above
<1>3. QED
  BY <1>1, <1>2 DEF Searching

\* The first call of an event without transition visits every region.
LEMMA NoTransitionSearches ==
  ASSUME LegacyInv, NoTransition, Searching(todo, work, rows, request)
  PROVE  Searching(todo', work', rows', request)
<1> DEFINE k == Head(todo).at
           calls == ForwardsOf(k)
<1>1. /\ Running("event") /\ todo' = calls \o Tail(todo) /\ work' = work /\ rows' = rows
  BY DEF NoTransition, ForwardsOf, ReturnOnly, Return
<1>2. /\ k \in Keys /\ PlaceOK(Head(todo), Elements(todo), request) /\ todo # <<>> /\ IsSeq(todo)
      /\ Head(todo).op = "event" /\ Elements(todo) = {Head(todo)} \union Elements(Tail(todo))
  BY <1>1, AtHead DEF StackOK
<1>3. IsSeq(calls) /\ Elements(calls) = {ForwardCall(k, r, work[k].states[r]) : r \in Regs(k)}
  BY <1>2, ForwardsAre
<1>4. IsSeq(Tail(todo))
  BY <1>2, HeadAndTail
<1> HIDE DEF calls
<1>5. Elements(todo') = Elements(calls) \union Elements(Tail(todo))
  BY <1>1, <1>3, <1>4, ConcatElements
<1>6. CASE Head(todo).nested
  BY <1>1, <1>2, <1>5, <1>6, OnlyRegionsLeft DEF Searching
<1>7. CASE ~ Head(todo).nested
  <2>1. Elements(Tail(todo)) = {}
    BY <1>1, <1>7, AloneUnlessEvent
  <2>2. k = request.at
    BY <1>2, <2>1 DEF PlaceOK
  <2>3. ASSUME NEW r \in Regs(k)
        PROVE  \E x \in Elements(todo') : x.op = "forward" /\ x.at = k /\ x.region = r
    <3>1. ForwardCall(k, r, work[k].states[r]) \in Elements(todo')
      BY <1>3, <1>5
    <3>2. QED
      BY <3>1 DEF ForwardCall
  <2> HIDE DEF k
  <2>4. QED
    BY <2>2, <2>3 DEF Searching
<1>8. QED
  BY <1>6, <1>7

\* A new child has nothing its parent could have missed.
LEMMA NewChildIsNotPending ==
  ASSUME NEW w, NEW h, TableOK(w, h), NEW w2, TableOK(w2, h), NEW c, DOMAIN w2 = DOMAIN w \union {c},
         \A p \in DOMAIN w : w2[p] = w[p], RowsOf(h, c) = {},
         NEW k \in DOMAIN w, NEW r \in Regs(k), Pending(w2, h, k, r)
  PROVE  Pending(w, h, k, r)
<1> DEFINE s == w[k].states[r]
           child == ChildKey(k, r, s)
<1>1. w2[k] = w[k] /\ k \in DOMAIN w2
  OBVIOUS
<1>2. /\ IsCompound(k, r, s) /\ child \in DOMAIN w2
      /\ IsFinal(w2[child], SubOf(k, r, s))
      /\ LastId(RowsOf(h, child)) > LastOf(h, k, r)
      /\ Knows(h, k, w[k], r)
  BY <1>1, PendingIs
<1>3. child # c
  <2>1. ASSUME child = c PROVE FALSE
    <3>1. LastId(RowsOf(h, child)) = 0
      BY <2>1 DEF LastId
    <3>2. LastOf(h, k, r) \in 0..Len(h) /\ Len(h) \in Nat
      BY RowsOfIs DEF TableOK
    <3>3. QED
      BY <1>2, <3>1, <3>2
  <2>2. QED
    BY <2>1
<1>4. child \in DOMAIN w /\ w2[child] = w[child]
  BY <1>2, <1>3
<1>5. QED
  BY <1>2, <1>4, PendingIs

LEMMA SearchStep ==
  ASSUME NoTransitionInv, [Next]_vars
  PROVE  NoTransitionInv'
<1>1. LegacyInv'
  BY LegacyStep DEF NoTransitionInv
<1>2. LegacyInv /\ NoTransitionMeansNothingPending
      /\ (phase = "tx" /\ request.kind = "event" /\ reply = "no_transition" => Searching(todo, work, rows, request))
  BY DEF NoTransitionInv
<1>3. ASSUME phase = "tx", phase' = "tx", request' = request,
             request.kind = "event" /\ reply' = "no_transition" => Searching(todo', work', rows', request)
      PROVE  NoTransitionInv'
  BY <1>1, <1>3 DEF NoTransitionInv, NoTransitionMeansNothingPending
<1>4. CASE Writes
  <2>1. phase = "tx" /\ Return(<<>>) /\ (request.kind = "timer" \/ reply' = "applied")
    BY <1>2, <1>4, ApplyEventWrites, FireTimeoutWrites, AdvancesHaveEvidence, ParentAdvances DEF Writes, Running
  <2>2. phase' = "tx" /\ request' = request
    BY <2>1 DEF Return
  <2>3. QED
    BY <1>3, <2>1, <2>2
<1>5. CASE Fails
  <2>1. phase' = "idle" /\ reply' # "no_transition"
    BY <1>5 DEF Fails, Fail
  <2>2. QED
    BY <1>1, <2>1 DEF NoTransitionInv, NoTransitionMeansNothingPending
<1>6. CASE BeginTransaction
  <2>1. /\ phase' = "tx"
        /\ \E x : todo' = <<x>> /\ x.op = request'.kind /\ (x.op = "event" => x.nested = FALSE)
    BY <1>2, <1>6, BeginKeepsInv, BeginIs DEF BeginsWith, Begin
  <2>2. request'.kind = "event" => \E x \in Elements(todo') : x.op = "event" /\ ~ x.nested
    BY <2>1, FewElements
  <2>3. request'.kind = "event" => Searching(todo', work', rows', request')
    BY <2>2 DEF Searching
  <2>4. QED
    BY <1>1, <2>1, <2>3 DEF NoTransitionInv, NoTransitionMeansNothingPending
<1>7. CASE Commit
  <2>1. /\ phase = "tx" /\ todo = <<>> /\ phase' = "idle" /\ entities' = work /\ history' = rows
        /\ request' = request /\ reply' = reply
    BY <1>7 DEF Commit
  <2>2. request.kind = "event" /\ reply = "no_transition" =>
          \A r \in Regs(request.at) : ~ Pending(work, rows, request.at, r)
    BY <1>2, <2>1, FewElements DEF Searching
  <2>3. request.kind = "event" => DOMAIN work[request.at].states = Regs(request.at)
    <3>1. TxOK /\ TableOK(work, rows)
      BY <1>2, <2>1 DEF LegacyInv, PhaseOK
    <3>2. QED
      BY <3>1 DEF TxOK, TableOK, Shape
  <2>4. NoTransitionMeansNothingPending'
    BY <2>1, <2>2, <2>3 DEF NoTransitionMeansNothingPending
  <2>5. QED
    BY <1>1, <2>1, <2>4 DEF NoTransitionInv
<1>8. CASE AnswerDuplicate
  <2>1. /\ Running("event") /\ phase = "tx" /\ todo' = <<>> \o Tail(todo) /\ phase' = phase /\ request' = request
        /\ work' = work /\ rows' = rows /\ reply' = IF Head(todo).nested THEN reply ELSE "duplicate"
    BY <1>8 DEF AnswerDuplicate, Return, Running
  <2>2. Elements(todo') = Elements(Tail(todo))
    BY <1>2, <2>1, AtHead, HeadAndTail, ConcatElements, FewElements DEF StackOK
  <2>3. /\ Head(todo).op = "event"
        /\ reply' = "no_transition" => Head(todo).nested /\ reply = "no_transition"
    BY <2>1 DEF Running
  <2>4. request.kind = "event" /\ reply' = "no_transition" => Searching(todo', work', rows', request)
    BY <1>2, <2>1, <2>2, <2>3, OnlyRegionsLeft DEF Searching
  <2>5. QED
    BY <1>3, <2>1, <2>4
<1>9. CASE NoTransition
  BY <1>2, <1>3, <1>9, NoTransitionSearches DEF NoTransition, Running, ReturnOnly, Return
<1>10. CASE PassOver \/ ChildStays
  <2>1. PICK op \in {"forward", "after"} : Running(op)
    BY <1>10 DEF PassOver, ChildStays
  <2>2. ReturnOnly(<<>>)
    BY <1>10 DEF PassOver, ChildStays
  <2>3. /\ phase = "tx" /\ todo' = <<>> \o Tail(todo) /\ phase' = phase /\ request' = request
        /\ work' = work /\ rows' = rows /\ reply' = reply
    BY <2>1, <2>2 DEF ReturnOnly, Return, Running
  <2>4. Elements(todo') = Elements(Tail(todo))
    BY <1>2, <2>1, <2>3, AtHead, HeadAndTail, ConcatElements, FewElements DEF StackOK
  <2>5. ASSUME reply = "no_transition", request.kind = "event", Head(todo).op = "forward", Head(todo).at = request.at
        PROVE  ~ Pending(work, rows, request.at, Head(todo).region)
    <3>1. ~ IsCompound(Head(todo).at, Head(todo).region, Head(todo).state)
      BY <1>10, <2>5 DEF PassOver, ChildStays, Handled, Running
    <3>2. work[request.at].states[Head(todo).region] = Head(todo).state
      BY <1>2, <2>1, <2>5, AtHead DEF CallOK
    <3>3. QED
      BY <2>5, <3>1, <3>2 DEF Pending
  <2>6. request.kind = "event" /\ reply' = "no_transition" => Searching(todo', work', rows', request)
    BY <1>2, <2>1, <2>3, <2>4, <2>5, OnlyRegionsLeft DEF Searching
  <2>7. QED
    BY <1>3, <2>3, <2>6
<1>11. CASE CreateChild
  <2>1. /\ Forwarding /\ HeadChild \notin DOMAIN work
        /\ work' = Insert(work, HeadChild, NewEntity(Defs[HeadChild.machine]))
        /\ rows' = rows /\ todo' = todo /\ phase' = phase /\ request' = request /\ reply' = reply
    BY <1>11 DEF CreateChild
  <2>2. phase = "tx" /\ HeadChild \in Keys /\ TxOK /\ TableOK(work, rows) /\ request.kind = "event"
        /\ Running("forward")
    BY <1>2, <2>1, ForwardingIs DEF Running
  <2>3. /\ TableOK(work', rows') /\ DOMAIN work' = DOMAIN work \union {HeadChild}
        /\ \A p \in DOMAIN work : work'[p] = work[p]
        /\ RowsOf(rows, HeadChild) = {}
    BY <1>2, <2>1, <2>2, InsertKeepsCalls
  <2>4. request.at \in DOMAIN work
    BY <2>2 DEF TxOK
  <2>5. ASSUME NEW r \in Regs(request.at), Pending(work', rows', request.at, r)
        PROVE  Pending(work, rows, request.at, r)
    <3>1. PICK w2, c, k : w2 = work' /\ c = HeadChild /\ k = request.at
      OBVIOUS
    <3>2. Pending(w2, rows, k, r) /\ TableOK(w2, rows)
      BY <2>1, <2>3, <2>5, <3>1
    <3>3. Pending(work, rows, k, r)
      BY <2>2, <2>3, <2>4, <2>5, <3>1, <3>2, NewChildIsNotPending
    <3>4. QED
      BY <3>1, <3>3
  <2>6. Searching(todo, work, rows, request) => Searching(todo', work', rows', request)
    BY <2>1, <2>5 DEF Searching
  <2>7. QED
    BY <1>2, <1>3, <2>1, <2>2, <2>6
<1>12. CASE ForwardToChild
  <2> DEFINE k == Head(todo).at
             r == Head(todo).region
             c == <<EventCall(HeadChild, TRUE), AfterCall(k, r, Head(todo).state)>>
  <2>1. /\ Forwarding /\ HeadChild \in DOMAIN work /\ ~ IsFinal(work[HeadChild], HeadSub)
        /\ ReturnOnly(c)
    BY <1>12 DEF ForwardToChild, OpenChild
  <2>2. /\ Running("forward") /\ phase = "tx" /\ work[k].states[r] = Head(todo).state /\ HeadChild = ChildKey(k, r, Head(todo).state)
        /\ HeadSub = SubOf(k, r, Head(todo).state)
    BY <1>2, <2>1, ForwardingIs DEF Running
  <2>3. /\ todo' = c \o Tail(todo) /\ phase' = phase /\ request' = request
        /\ work' = work /\ rows' = rows /\ reply' = reply
    BY <2>1 DEF ReturnOnly, Return
  <2>4. Elements(Tail(todo)) \subseteq Elements(todo')
    <3>1. IsSeq(c)
      BY FewElements
    <3>2. IsSeq(Tail(todo))
      BY <1>2, <2>2, AtHead, HeadAndTail DEF StackOK
    <3> HIDE DEF c
    <3>3. QED
      BY <2>3, <3>1, <3>2, ConcatElements
  <2>5. ~ Pending(work, rows, k, r)
    BY <2>1, <2>2 DEF Pending
  <2> HIDE DEF c, k, r
  <2>6. request.kind = "event" /\ reply' = "no_transition" => Searching(todo', work', rows', request)
    BY <1>2, <2>2, <2>3, <2>4, <2>5, OnlyRegionsLeft DEF Searching, k, r
  <2>7. QED
    BY <1>3, <2>2, <2>3, <2>6
<1>13. CASE SkipTimeout \/ CreateEntity
  <2>1. PICK op \in {"timer", "create"} : Running(op)
    BY <1>13 DEF SkipTimeout, CreateEntity
  <2>2. request.kind # "event"
    BY <1>2, <2>1, AloneUnlessEvent
  <2>3. phase = "tx" /\ phase' = phase /\ request' = request
    BY <1>13 DEF SkipTimeout, CreateEntity, ReturnOnly, Return, Running
  <2>4. QED
    BY <1>3, <2>2, <2>3
<1>14. CASE UNCHANGED vars
  BY <1>1, <1>2, <1>14 DEF vars, NoTransitionInv, NoTransitionMeansNothingPending
<1>15. QED
  BY <1>4, <1>5, <1>6, <1>7, <1>8, <1>9, <1>10, <1>11, <1>12, <1>13, <1>14, StepKinds

\* Recovery is certain: an entity that answers "no transition" to an event has no
\* final child it could have advanced on, in any region.
THEOREM NothingPendingBehindNoTransition == Spec => []NoTransitionMeansNothingPending
<1>1. Init => NoTransitionInv
  <2>1. SUFFICES ASSUME Init PROVE NoTransitionInv
    OBVIOUS
  <2>2. phase = "idle" /\ reply = "none"
    BY <2>1 DEF Init
  <2>3. QED
    BY <2>1, <2>2, LegacyInit DEF NoTransitionInv, NoTransitionMeansNothingPending
<1>2. NoTransitionInv /\ [Next]_vars => NoTransitionInv'
  BY SearchStep
<1>3. NoTransitionInv => NoTransitionMeansNothingPending
  BY DEF NoTransitionInv
<1>4. QED
  BY <1>1, <1>2, <1>3, PTL DEF Spec

-----------------------------------------------------------------------------
(* One event, one effect.                                                  *)

\* Nobody submits an event of a type the engine gives its own rows.
NoEngineTypes == \A ev \in Events : ev.type \notin {"$sub_complete", "$join"}

NewIds(h, h2) == DOMAIN h2 \ DOMAIN h

Effects(h, h2, ev) ==
  {i \in NewIds(h, h2) : \/ h2[i].cause.via = "recovery"
                         \/ h2[i].type = ev.type /\ h2[i].ts = ev.ts}

Placed(k, req) == k = req.at \/ Below(k.path, req.at.path)

\* Row i is the one effect of the event since h, and the completions are those of
\* ancestors between it and the addressee.
HandledBy(i, h, h2, req) ==
  /\ Effects(h, h2, req.event) = {i} /\ Placed(h2[i].at, req)
  /\ \A j \in NewIds(h, h2) : h2[j].cause.via = "forward" =>
       Below(h2[i].at.path, h2[j].at.path) /\ Placed(h2[j].at, req)

EffectInv ==
  phase = "tx" /\ request.kind = "event" /\ reply = "applied" =>
    \E i : /\ HandledBy(i, history, rows, request)
           /\ \A x \in Elements(todo) : x.op = "after" => Below(rows[i].at.path, x.at.path)

\* The new rows of a write.
LEMMA WroteRows ==
  ASSUME NEW k, NEW spec, NEW w, NEW h, NEW w2, NEW h2, IsSeq(h), Wrote(k, spec, w, h, w2, h2)
  PROVE  /\ IsSeq(h2) /\ DOMAIN h \subseteq DOMAIN h2 /\ \A i \in DOMAIN h : h2[i] = h[i]
         /\ Len(h) + 1 \in NewIds(h, h2) /\ MainRowIs(h2[Len(h) + 1], k, spec)
         /\ \A i \in NewIds(h, h2) :
              i = Len(h) + 1 \/ (h2[i].at = k /\ h2[i].type = "$join" /\ h2[i].cause = NoCause)
<1>1. /\ Continues(h, h2) /\ Len(h) < Len(h2) /\ IsSeq(h2) /\ MainRowIs(h2[Len(h) + 1], k, spec)
      /\ \A i \in Len(h) + 2..Len(h2) : h2[i].at = k /\ h2[i].type = "$join" /\ h2[i].cause = NoCause
  BY DEF Wrote, TableOK
<1>2. Len(h) \in Nat /\ DOMAIN h = 1..Len(h) /\ Len(h2) \in Nat /\ DOMAIN h2 = 1..Len(h2)
  BY <1>1, SeqDomain
<1>3. NewIds(h, h2) = Len(h) + 1..Len(h2)
  BY <1>1, <1>2 DEF NewIds
<1>4. Len(h) + 1 \in Len(h) + 1..Len(h2)
  BY <1>1, <1>2
<1>5. \A i \in Len(h) + 1..Len(h2) : i = Len(h) + 1 \/ i \in Len(h) + 2..Len(h2)
  BY <1>2
<1>6. DOMAIN h \subseteq DOMAIN h2 /\ \A i \in DOMAIN h : h2[i] = h[i]
  BY <1>1, <1>2 DEF Continues
<1>7. QED
  BY <1>1, <1>3, <1>4, <1>5, <1>6

\* The first write of an event is its effect.
LEMMA FirstWriteHandles ==
  ASSUME NEW k, NEW spec, NEW w, NEW h, NEW w2, NEW h2, IsSeq(h), Wrote(k, spec, w, h, w2, h2),
         NEW req, Placed(k, req), req.event.type # "$join", spec.cause.via # "forward",
         \/ spec.cause.via = "recovery"
         \/ spec.type = req.event.type /\ spec.ts = req.event.ts
  PROVE  HandledBy(Len(h) + 1, h, h2, req) /\ h2[Len(h) + 1].at = k
<1> DEFINE i == Len(h) + 1
<1>1. /\ i \in NewIds(h, h2) /\ MainRowIs(h2[i], k, spec)
      /\ \A j \in NewIds(h, h2) : j = i \/ (h2[j].type = "$join" /\ h2[j].cause = NoCause)
  BY WroteRows
<1> HIDE DEF i
<1>2. h2[i].at = k /\ h2[i].cause = spec.cause /\ h2[i].type = spec.type /\ h2[i].ts = spec.ts
  BY <1>1 DEF MainRowIs
<1>3. NoCause.via = "none"
  BY DEF NoCause
<1>4. i \in Effects(h, h2, req.event)
  BY <1>1, <1>2 DEF Effects
<1>5. \A j \in Effects(h, h2, req.event) : j = i
  BY <1>1, <1>3 DEF Effects
<1>6. \A j \in NewIds(h, h2) : h2[j].cause.via # "forward"
  BY <1>1, <1>2, <1>3
<1>7. HandledBy(i, h, h2, req)
  BY <1>2, <1>4, <1>5, <1>6 DEF HandledBy
<1>8. QED
  BY <1>2, <1>7 DEF i

\* The completion of an ancestor is no other effect.
LEMMA CompletionIsNoEffect ==
  ASSUME NEW h0, IsSeq(h0), NEW h, IsSeq(h), Continues(h0, h),
         NEW req, NEW n, HandledBy(n, h0, h, req),
         NEW k, NEW spec, NEW w, NEW w2, NEW h2, Wrote(k, spec, w, h, w2, h2),
         spec.cause.via = "forward", spec.type # req.event.type, req.event.type # "$join",
         Placed(k, req), Below(h[n].at.path, k.path)
  PROVE  HandledBy(n, h0, h2, req) /\ h2[n] = h[n]
<1> DEFINE i == Len(h) + 1
<1>1. /\ IsSeq(h2) /\ DOMAIN h \subseteq DOMAIN h2 /\ \A j \in DOMAIN h : h2[j] = h[j]
      /\ i \in NewIds(h, h2) /\ MainRowIs(h2[i], k, spec)
      /\ \A j \in NewIds(h, h2) : j = i \/ (h2[j].type = "$join" /\ h2[j].cause = NoCause)
  BY WroteRows
<1>2. DOMAIN h0 \subseteq DOMAIN h
  BY SeqDomain DEF Continues
<1> HIDE DEF i
<1>3. h2[i].at = k /\ h2[i].cause = spec.cause /\ h2[i].type = spec.type
  BY <1>1 DEF MainRowIs
<1>4. NoCause.via = "none"
  BY DEF NoCause
<1>5. n \in NewIds(h0, h) /\ n \in DOMAIN h
  BY DEF HandledBy, Effects, NewIds
<1>6. h2[n] = h[n]
  BY <1>1, <1>5
<1>7. \A j : j \in NewIds(h0, h2) <=> j \in NewIds(h0, h) \/ j \in NewIds(h, h2)
  BY <1>1, <1>2 DEF NewIds
<1>8. \A j \in NewIds(h, h2) : j \notin Effects(h0, h2, req.event)
  BY <1>1, <1>3, <1>4 DEF Effects
<1>9. \A j \in NewIds(h0, h) : h2[j] = h[j]
  BY <1>1 DEF NewIds
<1>10. Effects(h0, h2, req.event) = Effects(h0, h, req.event)
  BY <1>7, <1>8, <1>9 DEF Effects
<1>11. ASSUME NEW j \in NewIds(h0, h2), h2[j].cause.via = "forward"
       PROVE  Below(h2[n].at.path, h2[j].at.path) /\ Placed(h2[j].at, req)
  <2>1. CASE j \in NewIds(h0, h)
    BY <1>6, <1>9, <1>11, <2>1 DEF HandledBy
  <2>2. CASE j \in NewIds(h, h2)
    BY <1>1, <1>3, <1>4, <1>6, <1>11, <2>2
  <2>3. QED
    BY <1>7, <2>1, <2>2
<1>12. HandledBy(n, h0, h2, req)
  BY <1>6, <1>10, <1>11 DEF HandledBy
<1>13. QED
  BY <1>6, <1>12

HandlerInv ==
  /\ LegacyInv
  /\ phase = "tx" /\ request.kind = "event" => request.event \in Events
  /\ EffectInv

\* The call at hand belongs to the addressee or an entity below it.
LEMMA HeadIsPlaced ==
  ASSUME LegacyInv, NEW op, Running(op)
  PROVE  /\ Placed(Head(todo).at, request)
         /\ op \in {"event", "forward"} /\ reply # "applied" => rows = history /\ request.kind = "event"
         /\ IsSeq(rows) /\ IsSeq(history) /\ Continues(history, rows)
         /\ \A y \in Elements(Tail(todo)) : y.op = "after" => Below(Head(todo).at.path, y.at.path)
<1>1. /\ PlaceOK(Head(todo), Elements(todo), request) /\ TxOK /\ TableOK(work, rows) /\ Head(todo).op = op
      /\ \A y \in Elements(Tail(todo)) : Above(Head(todo), y)
  BY AtHead
<1>2. op \in {"event", "forward"} => request.kind = "event"
  BY <1>1 DEF PlaceOK, OpsOf, TxOK
<1>3. QED
  BY <1>1, <1>2 DEF PlaceOK, Placed, TxOK, TableOK, Above, LegacyInv

LEMMA WritesKeepEffect ==
  ASSUME NoEngineTypes, HandlerInv, Writes
  PROVE  EffectInv'
<1>1. LegacyInv /\ EffectInv /\ (phase = "tx" /\ request.kind = "event" => request.event \in Events)
  BY DEF HandlerInv
<1> DEFINE k == Head(todo).at
<1>2. ASSUME Return(<<>>), NEW op, Running(op)
      PROVE  /\ Elements(todo') = Elements(Tail(todo)) /\ phase = "tx" /\ request' = request /\ history' = history
             /\ Elements(Tail(todo)) \subseteq Elements(todo)
             /\ (request.kind = "event" => request.event.type \notin {"$sub_complete", "$join"})
  <2>1. todo' = <<>> \o Tail(todo)
    BY <1>2 DEF Return
  <2>2. Elements(todo') = Elements(Tail(todo)) /\ Elements(Tail(todo)) \subseteq Elements(todo)
    BY <1>1, <1>2, <2>1, AtHead, HeadAndTail, ConcatElements, FewElements DEF StackOK
  <2>3. QED
    BY <1>1, <1>2, <2>2 DEF Return, committed, Running, NoEngineTypes
<1>3. ASSUME NEW op \in {"event", "forward"}, Running(op), reply # "applied", Return(<<>>), NEW spec,
             Wrote(k, spec, work, rows, work', rows'), spec.cause.via # "forward",
             \/ spec.cause.via = "recovery"
             \/ spec.type = request.event.type /\ spec.ts = request.event.ts
      PROVE  EffectInv'
  <2>1. /\ Placed(k, request) /\ rows = history /\ IsSeq(rows) /\ request.kind = "event"
        /\ \A y \in Elements(Tail(todo)) : y.op = "after" => Below(k.path, y.at.path)
    BY <1>1, <1>3, HeadIsPlaced
  <2>2. /\ Elements(todo') = Elements(Tail(todo)) /\ request' = request /\ history' = history
        /\ request.event.type # "$join"
    BY <1>2, <1>3, <2>1
  <2>3. PICK w2, h2, kk : w2 = work' /\ h2 = rows' /\ kk = k
    OBVIOUS
  <2>4. HandledBy(Len(rows) + 1, rows, h2, request) /\ h2[Len(rows) + 1].at = kk
    BY <1>3, <2>1, <2>2, <2>3, FirstWriteHandles
  <2>5. QED
    BY <2>1, <2>2, <2>3, <2>4 DEF EffectInv
<1>4. CASE ApplyEvent
  <2>1. Running("event") /\ Return(<<>>) /\ reply # "applied"
    BY <1>1, <1>4, ApplyEventWrites, AtHead DEF CallOK
  <2>2. PICK spec : /\ Wrote(k, spec, work, rows, work', rows')
                    /\ spec.type = request.event.type /\ spec.ts = request.event.ts
                    /\ spec.cause = NoCause
    BY <1>1, <1>4, ApplyEventWrites
  <2>3. spec.cause.via # "forward"
    BY <2>2 DEF NoCause
  <2>4. QED
    BY <1>3, <2>1, <2>2, <2>3
<1>5. CASE FireTimeout
  <2>1. request.kind = "timer" /\ request' = request
    BY <1>1, <1>5, FireTimeoutWrites DEF Return
  <2>2. QED
    BY <2>1 DEF EffectInv
<1>6. CASE Recover \/ ChildCompletes
  <2>1. PICK op, via, entered :
          /\ op \in {"forward", "after"} /\ via \in {"recovery", "forward"}
          /\ Running(op) /\ AdvanceParent(via, entered) /\ (op = "forward" <=> via = "recovery")
    BY <1>1, <1>6, AdvancesHaveEvidence
  <2>2. /\ Return(<<>>) /\ request.kind = "event"
        /\ \E spec : /\ Wrote(k, spec, work, rows, work', rows') /\ spec.type = "$sub_complete"
                     /\ spec.cause = [via |-> via, entered |-> entered, child |-> LastId(RowsOf(rows, HeadChild))]
    BY <1>1, <2>1, ParentAdvances
  <2>3. PICK spec : /\ Wrote(k, spec, work, rows, work', rows') /\ spec.type = "$sub_complete"
                    /\ spec.cause.via = via
    BY <2>2
  <2>4. Head(todo).op = op
    BY <2>1 DEF Running
  <2>5. CASE op = "forward"
    <3>1. reply # "applied"
      BY <1>6, <2>4, <2>5 DEF Recover, FinalChild, Forwarding, Handled, ChildCompletes, Running
    <3>2. via = "recovery"
      BY <2>1, <2>5
    <3>3. QED
      BY <1>3, <2>1, <2>2, <2>3, <2>5, <3>1, <3>2
  <2>6. CASE op = "after"
    <3>1. reply = "applied" /\ via = "forward"
      BY <1>6, <2>1, <2>4, <2>6 DEF Recover, FinalChild, Forwarding, ChildCompletes, Running
    <3>2. phase = "tx" /\ Head(todo) \in Elements(todo)
      BY <1>1, <2>1, AtHead
    <3>3. PICK n : /\ HandledBy(n, history, rows, request)
                   /\ \A x \in Elements(todo) : x.op = "after" => Below(rows[n].at.path, x.at.path)
      BY <1>1, <2>2, <3>1, <3>2 DEF EffectInv
    <3>4. /\ Elements(todo') = Elements(Tail(todo)) /\ Elements(Tail(todo)) \subseteq Elements(todo)
          /\ request' = request /\ history' = history
          /\ request.event.type \notin {"$sub_complete", "$join"}
      BY <1>2, <2>1, <2>2
    <3>5. Placed(k, request) /\ IsSeq(rows) /\ IsSeq(history) /\ Continues(history, rows)
      BY <1>1, <2>1, HeadIsPlaced
    <3>6. Below(rows[n].at.path, k.path)
      BY <2>4, <2>6, <3>2, <3>3
    <3>7. PICK w2, h2, kk : w2 = work' /\ h2 = rows' /\ kk = k
      OBVIOUS
    <3>8. HandledBy(n, history, h2, request) /\ h2[n] = rows[n]
      <4>1. Wrote(kk, spec, work, rows, w2, h2) /\ spec.cause.via = "forward"
        BY <2>3, <3>1, <3>7
      <4>2. spec.type # request.event.type /\ request.event.type # "$join"
        BY <2>3, <3>4
      <4>3. QED
        BY <3>3, <3>5, <3>6, <3>7, <4>1, <4>2, CompletionIsNoEffect
    <3>9. QED
      BY <3>3, <3>4, <3>7, <3>8 DEF EffectInv
  <2>7. QED
    BY <2>1, <2>5, <2>6
<1>7. QED
  BY <1>4, <1>5, <1>6 DEF Writes

LEMMA HandlerStep ==
  ASSUME NoEngineTypes, HandlerInv, [Next]_vars
  PROVE  HandlerInv'
<1>1. LegacyInv'
  BY LegacyStep DEF HandlerInv
<1>2. LegacyInv /\ EffectInv /\ (phase = "tx" /\ request.kind = "event" => request.event \in Events)
  BY DEF HandlerInv
<1>3. CASE Writes
  <2>1. EffectInv'
    BY <1>3, WritesKeepEffect
  <2>2. Return(<<>>)
    BY <1>2, <1>3, ApplyEventWrites, FireTimeoutWrites, AdvancesHaveEvidence, ParentAdvances DEF Writes
  <2>3. QED
    BY <1>1, <1>2, <2>1, <2>2 DEF Return, HandlerInv
<1>4. CASE Fails \/ Commit
  <2>1. phase' = "idle"
    BY <1>4 DEF Fails, Fail, Commit
  <2>2. QED
    BY <1>1, <2>1 DEF HandlerInv, EffectInv
<1>5. CASE BeginTransaction
  <2>1. request'.kind = "event" => request'.event \in Events /\ reply' # "applied"
    BY <1>2, <1>5, BeginKeepsInv
  <2>2. QED
    BY <1>1, <2>1 DEF HandlerInv, EffectInv
<1>6. CASE PassOver \/ ChildStays \/ AnswerDuplicate \/ SkipTimeout
  <2>1. PICK op : Running(op)
    BY <1>6 DEF PassOver, ChildStays, AnswerDuplicate, SkipTimeout
  <2>2. /\ Return(<<>>) /\ rows' = rows
        /\ reply' = "applied" => reply = "applied"
    BY <1>6 DEF PassOver, ChildStays, AnswerDuplicate, SkipTimeout, ReturnOnly
  <2>3. /\ todo' = <<>> \o Tail(todo) /\ phase' = phase /\ request' = request /\ history' = history
    BY <2>2 DEF Return, committed
  <2>4. Elements(todo') \subseteq Elements(todo)
    BY <1>2, <2>1, <2>3, AtHead, HeadAndTail, ConcatElements, FewElements DEF StackOK
  <2>5. EffectInv'
    BY <1>2, <2>2, <2>3, <2>4 DEF EffectInv
  <2>6. QED
    BY <1>1, <1>2, <2>3, <2>5 DEF HandlerInv
<1>7. CASE NoTransition \/ CreateChild \/ ForwardToChild
  <2>1. reply = "no_transition"
    <3>1. Running("event") => reply = "no_transition"
      BY <1>2, AtHead DEF CallOK
    <3>2. Forwarding => reply = "no_transition"
      BY <1>2, ForwardingIs
    <3>3. QED
      BY <1>7, <3>1, <3>2 DEF NoTransition, CreateChild, ForwardToChild, OpenChild
  <2>2. reply' = reply /\ request' = request
    BY <1>7 DEF NoTransition, CreateChild, ForwardToChild, ReturnOnly, Return
  <2>3. phase' = phase
    BY <1>7 DEF NoTransition, CreateChild, ForwardToChild, ReturnOnly, Return
  <2>4. QED
    BY <1>1, <1>2, <2>1, <2>2, <2>3 DEF HandlerInv, EffectInv
<1>8. CASE CreateEntity
  <2>1. request.kind = "create" /\ request' = request
    BY <1>2, <1>8, CreateEntityKeepsInv DEF CreateEntity, Return
  <2>2. QED
    BY <1>1, <2>1 DEF HandlerInv, EffectInv
<1>9. CASE UNCHANGED vars
  BY <1>1, <1>2, <1>9 DEF vars, HandlerInv, EffectInv
<1>10. QED
  BY <1>3, <1>4, <1>5, <1>6, <1>7, <1>8, <1>9, StepKinds

\* Only a commit changes what is committed.
LEMMA OnlyCommitsPublish ==
  ASSUME LegacyInv, [Next]_vars, ~ Commit
  PROVE  entities' = entities /\ history' = history
<1>1. CASE Writes
  BY <1>1, ApplyEventWrites, FireTimeoutWrites, AdvancesHaveEvidence, ParentAdvances DEF Writes, Return, committed
<1>2. CASE Fails
  BY <1>2 DEF Fails, Fail, committed
<1>3. CASE BeginTransaction
  BY <1>3, BeginKeepsInv DEF committed
<1>4. CASE \/ AnswerDuplicate \/ NoTransition \/ PassOver \/ CreateChild \/ ForwardToChild
           \/ ChildStays \/ SkipTimeout \/ CreateEntity
  BY <1>4 DEF AnswerDuplicate, NoTransition, PassOver, CreateChild, ForwardToChild, ChildStays,
              SkipTimeout, CreateEntity, ReturnOnly, Return, committed
<1>5. CASE UNCHANGED vars
  BY <1>5 DEF vars
<1>6. QED
  BY <1>1, <1>2, <1>3, <1>4, <1>5, StepKinds

\* One event has one effect, however far down it is passed: one row of the event,
\* by the addressee or below it, or one recovery; any other row is a join or the
\* completion of an ancestor in between.
THEOREM EventsHaveOneHandler ==
  NoEngineTypes => (Spec => OneHandlerPerEvent)
<1> SUFFICES ASSUME NoEngineTypes PROVE Spec => OneHandlerPerEvent
  OBVIOUS
<1>1. Init => HandlerInv
  <2>1. SUFFICES ASSUME Init PROVE HandlerInv
    OBVIOUS
  <2>2. phase = "idle"
    BY <2>1 DEF Init
  <2>3. QED
    BY <2>1, <2>2, LegacyInit DEF HandlerInv, EffectInv
<1>2. HandlerInv /\ [Next]_vars => HandlerInv'
  BY HandlerStep
<1>3. HandlerInv /\ [Next]_vars =>
        [ request.kind = "event" /\ history' # history =>
            LET new     == DOMAIN history' \ DOMAIN history
                effects == {i \in new : \/ history'[i].cause.via = "recovery"
                                        \/ /\ history'[i].type = request.event.type
                                           /\ history'[i].ts = request.event.ts}
                below(p, q) == Len(p) > Len(q) /\ SubSeq(p, 1, Len(q)) = q
            IN \E i \in effects :
                 /\ effects = {i}
                 /\ history'[i].at = request.at \/ below(history'[i].at.path, request.at.path)
                 /\ \A j \in new :
                      history'[j].cause.via = "forward" =>
                        /\ below(history'[i].at.path, history'[j].at.path)
                        /\ history'[j].at = request.at \/ below(history'[j].at.path, request.at.path)
        ]_vars
  <2>1. SUFFICES ASSUME HandlerInv, [Next]_vars, request.kind = "event", history' # history
                 PROVE  \E i : HandledBy(i, history, history', request)
    BY DEF HandledBy, Effects, NewIds, Placed, Below
  <2>2. LegacyInv /\ EffectInv
    BY <2>1 DEF HandlerInv
  <2>3. Commit
    BY <2>1, <2>2, OnlyCommitsPublish
  <2>4. phase = "tx" /\ history' = rows /\ TxOK
    BY <2>2, <2>3 DEF Commit, LegacyInv, PhaseOK
  <2>5. reply = "applied"
    BY <2>1, <2>4 DEF TxOK
  <2>6. QED
    BY <2>1, <2>2, <2>4, <2>5 DEF EffectInv
<1>4. QED
  BY <1>1, <1>2, <1>3, PTL DEF Spec, OneHandlerPerEvent

-----------------------------------------------------------------------------
(* What a commit leaves unlearnt.                                          *)

\* No two machines have a compound state of one name with one sub-machine: two
\* entities of one root id that did would share a child.
NoSharedChildren ==
  \A m, n \in DOMAIN Defs :
    \A c \in DOMAIN Defs[m].subs, d \in DOMAIN Defs[n].subs :
      c[2] = d[2] /\ Defs[m].subs[c].machine = Defs[n].subs[d].machine => m = n

\* A child then has one parent.
LEMMA OneParent ==
  ASSUME NoSharedChildren, NEW k \in Keys, NEW q \in Keys, NEW r, NEW s, NEW z, NEW t,
         IsCompound(k, r, s), IsCompound(q, z, t), ChildKey(k, r, s) = ChildKey(q, z, t)
  PROVE  k = q /\ r = z /\ s = t
<1>1. /\ k = [machine |-> k.machine, path |-> k.path] /\ q = [machine |-> q.machine, path |-> q.path]
      /\ k.path \in Seq(StateNames) /\ q.path \in Seq(StateNames)
      /\ k.machine \in DOMAIN Defs /\ q.machine \in DOMAIN Defs
      /\ s \in StateNames /\ t \in StateNames
  BY DefinitionIs
<1>2. Append(k.path, s) = Append(q.path, t) /\ SubOf(k, r, s).machine = SubOf(q, z, t).machine
  BY DEF ChildKey
<1>3. \A p \in Seq(StateNames), x \in StateNames :
        Len(Append(p, x)) = Len(p) + 1 /\ Append(p, x)[Len(p) + 1] = x /\ SubSeq(Append(p, x), 1, Len(p)) = p
        /\ Len(p) \in Nat
  OBVIOUS
<1>4. Len(k.path) = Len(q.path)
  BY <1>1, <1>2, <1>3
<1>5. s = t /\ k.path = q.path
  <2>1. PICK n : n = Len(k.path)
    OBVIOUS
  <2>2. Append(k.path, s)[n + 1] = s /\ SubSeq(Append(k.path, s), 1, n) = k.path
    BY <1>1, <1>3, <2>1
  <2>3. Append(q.path, t)[n + 1] = t /\ SubSeq(Append(q.path, t), 1, n) = q.path
    BY <1>1, <1>3, <1>4, <2>1
  <2>4. QED
    BY <1>2, <2>2, <2>3
<1>6. <<r, s>> \in DOMAIN Defs[k.machine].subs /\ <<z, t>> \in DOMAIN Defs[q.machine].subs
  BY DEF IsCompound
<1>7. <<r, s>>[2] = s /\ <<z, t>>[2] = t
  OBVIOUS
<1>8. Defs[k.machine].subs[<<r, s>>].machine = Defs[q.machine].subs[<<z, t>>].machine
  BY <1>2 DEF SubOf
<1>9. k.machine = q.machine
  BY <1>1, <1>5, <1>6, <1>7, <1>8 DEF NoSharedChildren
<1>10. k = q
  BY <1>1, <1>5, <1>9
<1>11. r = z
  BY <1>5, <1>10, DefinitionIs
<1>12. QED
  BY <1>5, <1>10, <1>11

\* A write of k leaves nothing new to learn, except for the parent of k.
LEMMA WriteLeaves ==
  ASSUME NEW w, NEW h, TableOK(w, h), NEW k \in DOMAIN w, NEW spec, spec.region \in Regs(k), NEW w2, NEW h2,
         Wrote(k, spec, w, h, w2, h2), NEW p \in DOMAIN w, NEW r \in Regs(p), Pending(w2, h2, p, r)
  PROVE  \/ Pending(w, h, p, r) /\ (p = k => r # spec.region)
         \/ /\ p # k /\ IsCompound(p, r, w[p].states[r]) /\ k = ChildKey(p, r, w[p].states[r])
<1> DEFINE s == w2[p].states[r]
           child == ChildKey(p, r, s)
<1>1. /\ DOMAIN w2 = DOMAIN w /\ \A q \in DOMAIN w : q # k => w2[q] = w[q]
      /\ w2[k].version > w[k].version
      /\ \A q : q # k => RowsOf(h2, q) = RowsOf(h, q)
      /\ \A q, z : q # k => LastOf(h2, q, z) = LastOf(h, q, z)
      /\ LastOf(h2, k, spec.region) > Len(h)
      /\ \A z \in Regs(k) : RegionKept(k, z, w, h, w2, h2) \/ LastOf(h2, k, z) > Len(h)
      /\ TableOK(w2, h2)
  BY DEF Wrote
<1>2. /\ IsCompound(p, r, s) /\ child \in DOMAIN w2
      /\ IsFinal(w2[child], SubOf(p, r, s))
      /\ LastId(RowsOf(h2, child)) > LastOf(h2, p, r)
      /\ Knows(h2, p, w2[p], r)
  BY <1>1, PendingIs
<1>3. p \in Keys
  BY DEF TableOK
<1>4. child # p
  BY <1>2, <1>3, ChildKeyIs
<1>5. CASE p # k /\ child # k
  <2>1. w2[p] = w[p] /\ w2[child] = w[child] /\ RowsOf(h2, child) = RowsOf(h, child)
        /\ LastOf(h2, p, r) = LastOf(h, p, r)
    BY <1>1, <1>2, <1>5
  <2>2. Knows(h, p, w[p], r)
    BY <1>2, <2>1 DEF Knows
  <2>3. Pending(w, h, p, r)
    BY <1>1, <1>2, <2>1, <2>2, PendingIs
  <2>4. QED
    BY <1>5, <2>3
<1>6. CASE p # k /\ child = k
  BY <1>1, <1>2, <1>6
<1>7. CASE p = k
  <2>1. /\ Len(h) \in Nat /\ LastId(RowsOf(h, child)) \in 0..Len(h)
        /\ LastOf(h, p, r) \in 0..Len(h) /\ LastOf(h2, p, r) \in 0..Len(h2) /\ Len(h2) \in Nat
    <3>1. IsSeq(h) /\ IsSeq(h2)
      BY <1>1 DEF TableOK
    <3>2. QED
      BY <3>1, RowsOfIs
  <2>2. RowsOf(h2, child) = RowsOf(h, child) /\ w2[child] = w[child] /\ child \in DOMAIN w
    BY <1>1, <1>2, <1>4, <1>7
  <2>3. ~ (LastOf(h2, p, r) > Len(h))
    BY <1>2, <2>1, <2>2
  <2>4. RegionKept(k, r, w, h, w2, h2) /\ r # spec.region
    BY <1>1, <1>7, <2>3
  <2>5. /\ w2[k].states[r] = w[k].states[r] /\ Entry(k, w2[k], r) = Entry(k, w[k], r)
        /\ LastOf(h2, k, r) = LastOf(h, k, r)
    BY <2>4 DEF RegionKept
  <2>6. w[k].version \in Nat \ {0} /\ w2[k].version \in Nat
    BY <1>1 DEF TableOK, Shape
  <2>7. Knows(h, k, w[k], r)
    BY <1>1, <1>2, <1>7, <2>5, <2>6 DEF Knows
  <2>8. Pending(w, h, p, r)
    <3>1. /\ IsCompound(k, r, w[k].states[r]) /\ child = ChildKey(k, r, w[k].states[r])
          /\ IsFinal(w[child], SubOf(k, r, w[k].states[r]))
          /\ LastId(RowsOf(h, child)) > LastOf(h, k, r)
      BY <1>2, <1>7, <2>2, <2>5
    <3> HIDE DEF child, s
    <3>2. QED
      BY <1>7, <2>2, <2>7, <3>1, PendingIs
  <2>9. QED
    BY <2>4, <2>8
<1>8. QED
  BY <1>5, <1>6, <1>7

\* What entities from the addressee's level on were left with, unless a parent is
\* still to look at its child.
Learns(s, a, k, r) ==
  a = "applied" /\ \E x \in Elements(s) : x.op = "after" /\ x.at = k /\ x.region = r

LeavesInv ==
  phase = "tx" /\ request.kind # "timer" =>
    \A k \in DOMAIN entities : \A r \in Regs(k) :
      Len(k.path) >= Len(request.at.path) /\ Pending(work, rows, k, r) =>
        Pending(entities, history, k, r) \/ Learns(todo, reply, k, r)

\* The parent of the entity that a call writes waits for the call.
LEMMA ParentWaits ==
  ASSUME NoSharedChildren, LegacyInv, NEW op, Running(op), NEW p \in DOMAIN entities, NEW r \in Regs(p),
         Len(p.path) >= Len(request.at.path),
         LET s == work[p].states[r] IN p # Head(todo).at /\ IsCompound(p, r, s) /\ Head(todo).at = ChildKey(p, r, s)
  PROVE  \E x \in Elements(Tail(todo)) : x.op = "after" /\ x.at = p /\ x.region = r
<1> DEFINE k == Head(todo).at
           s == work[p].states[r]
<1>1. /\ PlaceOK(Head(todo), Elements(todo), request) /\ TxOK /\ TableOK(work, rows)
      /\ Elements(todo) = {Head(todo)} \union Elements(Tail(todo))
      /\ \A y \in Elements(todo) : y.at \in Keys /\ (y.op = "after" => IsCompound(y.at, y.region, y.state))
  BY AtHead
<1>2. p \in Keys /\ request.at \in Keys
  BY <1>1 DEF LegacyInv, TableOK, TxOK
<1>3. Len(k.path) = Len(p.path) + 1 /\ Len(p.path) \in Nat /\ Len(request.at.path) \in Nat
  <2>1. Len(ChildKey(p, r, s).path) = Len(p.path) + 1
    BY <1>2, ChildKeyIs
  <2>2. p.path \in Seq(StateNames) /\ request.at.path \in Seq(StateNames)
    BY <1>2, DefinitionIs
  <2>3. QED
    BY <2>1, <2>2
<1>4. k # request.at
  BY <1>3
<1>5. PICK y \in Elements(todo) : y.op = "after" /\ k = ChildKey(y.at, y.region, y.state)
  BY <1>1, <1>4 DEF PlaceOK
<1>6. y.at = p /\ y.region = r
  BY <1>1, <1>2, <1>5, OneParent
<1>7. y # Head(todo)
  BY <1>6
<1>8. QED
  BY <1>1, <1>5, <1>6, <1>7

\* A write for an event keeps the claim.
LEMMA WriteKeepsLeaves ==
  ASSUME NoSharedChildren, LegacyInv, LeavesInv, NEW op, Running(op), request.kind = "event",
         NEW spec, spec.region \in Regs(Head(todo).at), Wrote(Head(todo).at, spec, work, rows, work', rows'),
         op = "after" => Head(todo).region = spec.region,
         reply' = "applied", Return(<<>>)
  PROVE  LeavesInv'
<1> DEFINE k == Head(todo).at
<1>1. /\ phase = "tx" /\ Head(todo).op = op /\ TxOK /\ TableOK(work, rows) /\ IsSeq(todo) /\ todo # <<>>
      /\ Elements(todo) = {Head(todo)} \union Elements(Tail(todo))
      /\ Head(todo) \in Elements(todo)
      /\ \A y \in Elements(todo) : (y.op # "create" => y.at \in DOMAIN work)
  BY AtHead DEF StackOK
<1>2. op # "create"
  BY AloneUnlessEvent
<1>3. k \in DOMAIN work /\ DOMAIN entities \subseteq DOMAIN work
  BY <1>1, <1>2 DEF TxOK
<1>4. /\ todo' = <<>> \o Tail(todo) /\ entities' = entities /\ history' = history /\ request' = request
      /\ phase' = phase
  BY DEF Return, committed
<1>5. Elements(todo') = Elements(Tail(todo))
  BY <1>1, <1>4, HeadAndTail, ConcatElements, FewElements
<1>6. ASSUME NEW p \in DOMAIN entities, NEW r \in Regs(p), Len(p.path) >= Len(request.at.path),
             Pending(work', rows', p, r)
      PROVE  Pending(entities, history, p, r) \/ Learns(todo', reply', p, r)
  <2>1. PICK w2, h2, kk : w2 = work' /\ h2 = rows' /\ kk = k
    OBVIOUS
  <2>2. \/ Pending(work, rows, p, r) /\ (p = kk => r # spec.region)
        \/ p # kk /\ IsCompound(p, r, work[p].states[r]) /\ kk = ChildKey(p, r, work[p].states[r])
    <3>1. /\ kk \in DOMAIN work /\ spec.region \in Regs(kk) /\ Wrote(kk, spec, work, rows, w2, h2)
          /\ p \in DOMAIN work /\ Pending(w2, h2, p, r)
      BY <1>3, <1>6, <2>1
    <3>2. QED
      BY <1>1, <1>6, <3>1, WriteLeaves
  <2>3. CASE Pending(work, rows, p, r) /\ (p = kk => r # spec.region)
    <3>1. Pending(entities, history, p, r) \/ Learns(todo, reply, p, r)
      BY <1>1, <1>6, <2>3 DEF LeavesInv
    <3>2. ASSUME Learns(todo, reply, p, r) PROVE Learns(todo', reply', p, r)
      <4>1. PICK x \in Elements(todo) : x.op = "after" /\ x.at = p /\ x.region = r
        BY <3>2 DEF Learns
      <4>2. x # Head(todo)
        BY <1>1, <2>1, <2>3, <4>1
      <4>3. QED
        BY <1>1, <1>5, <4>1, <4>2 DEF Learns
    <3>3. QED
      BY <3>1, <3>2
  <2>4. CASE p # kk /\ IsCompound(p, r, work[p].states[r]) /\ kk = ChildKey(p, r, work[p].states[r])
    <3>1. \E x \in Elements(Tail(todo)) : x.op = "after" /\ x.at = p /\ x.region = r
      BY <1>6, <2>1, <2>4, ParentWaits
    <3>2. QED
      BY <1>5, <3>1 DEF Learns
  <2>5. QED
    BY <2>2, <2>3, <2>4
<1>7. QED
  BY <1>4, <1>6 DEF LeavesInv

\* A transaction that has not written has nothing to learn.
LEMMA NothingToLearn ==
  ASSUME LegacyInv, request.kind = "create" \/ (request.kind = "event" /\ reply # "applied")
  PROVE  LeavesInv
<1> SUFFICES ASSUME phase = "tx", NEW k \in DOMAIN entities, NEW r \in Regs(k), Pending(work, rows, k, r)
             PROVE  Pending(entities, history, k, r)
  BY DEF LeavesInv
<1> DEFINE s == work[k].states[r]
           child == ChildKey(k, r, s)
<1>1. /\ rows = history /\ TableOK(work, history) /\ TableOK(entities, history) /\ k \in DOMAIN work
      /\ \A p \in DOMAIN entities : work[p] = entities[p]
  BY DEF LegacyInv, PhaseOK, TxOK
<1>2. /\ IsCompound(k, r, s) /\ child \in DOMAIN work /\ IsFinal(work[child], SubOf(k, r, s))
      /\ LastId(RowsOf(history, child)) > LastOf(history, k, r) /\ Knows(history, k, work[k], r)
  BY <1>1, PendingIs
<1>3. child \in DOMAIN entities
  <2>1. SUFFICES ASSUME child \notin DOMAIN entities PROVE FALSE
    OBVIOUS
  <2>2. RowsOf(history, child) = {}
    BY <1>1, <2>1 DEF RowsOf, TableOK, RowOK
  <2>3. LastId(RowsOf(history, child)) = 0
    BY <2>2 DEF LastId
  <2>4. Len(history) \in Nat /\ LastOf(history, k, r) \in 0..Len(history)
    BY <1>1, RowsOfIs DEF TableOK
  <2>5. QED
    BY <1>2, <2>3, <2>4
<1>4. entities[k] = work[k] /\ entities[child] = work[child]
  BY <1>1, <1>3
<1> HIDE DEF child, s
<1>5. s = entities[k].states[r] /\ child = ChildKey(k, r, s)
  BY <1>4 DEF s, child
<1>6. QED
  BY <1>1, <1>2, <1>3, <1>4, <1>5, PendingIs

\* The region of a write is one of the entity's.
LEMMA WroteRegion ==
  ASSUME NEW w, NEW h, IsSeq(h), NEW k, NEW spec, NEW w2, NEW h2, Wrote(k, spec, w, h, w2, h2)
  PROVE  spec.region \in Regs(k)
<1>1. Len(h) \in Nat /\ Len(h) < Len(h2) /\ TableOK(w2, h2) /\ MainRowIs(h2[Len(h) + 1], k, spec)
  BY SeqDomain DEF Wrote
<1>2. Len(h2) \in Nat /\ DOMAIN h2 = 1..Len(h2)
  BY <1>1, SeqDomain DEF TableOK
<1>3. Len(h) + 1 \in DOMAIN h2
  BY <1>1, <1>2
<1>4. RowOK(w2, h2[Len(h) + 1])
  BY <1>1, <1>3 DEF TableOK
<1>5. QED
  BY <1>1, <1>4 DEF RowOK, MainRowIs

\* Every step keeps the claim.
LEMMA LeavesStep ==
  ASSUME NoSharedChildren, LegacyInv, LeavesInv, [Next]_vars
  PROVE  LeavesInv'
<1>1. LegacyInv'
  BY LegacyStep
<1>2. CASE phase' # "tx" \/ request'.kind = "timer"
  BY <1>2 DEF LeavesInv
<1>3. CASE request'.kind = "create" \/ (request'.kind = "event" /\ reply' # "applied")
  <2>1. LegacyInv' /\ (request.kind = "create" \/ (request.kind = "event" /\ reply # "applied"))'
    BY <1>1, <1>3
  <2>2. QED
    BY <2>1, NothingToLearn, PTL
<1>4. CASE phase' = "tx" /\ request'.kind = "event" /\ reply' = "applied"
  <2>1. CASE Writes
    <3>1. ~ FireTimeout
      BY <1>4, FireTimeoutWrites DEF Return
    <3>2. \E op, spec : /\ Running(op) /\ request.kind = "event" /\ reply' = "applied" /\ Return(<<>>)
                        /\ Wrote(Head(todo).at, spec, work, rows, work', rows')
                        /\ op = "after" => Head(todo).region = spec.region
      <4>1. CASE ApplyEvent
        BY <4>1, ApplyEventWrites
      <4>2. CASE Recover \/ ChildCompletes
        <5>1. PICK op, via, entered :
              op \in {"forward", "after"} /\ Running(op) /\ AdvanceParent(via, entered)
          BY <4>2, AdvancesHaveEvidence
        <5>2. QED
          BY <5>1, ParentAdvances
      <4>3. QED
        BY <2>1, <3>1, <4>1, <4>2 DEF Writes
    <3>3. PICK op, spec : /\ Running(op) /\ request.kind = "event" /\ reply' = "applied" /\ Return(<<>>)
                          /\ Wrote(Head(todo).at, spec, work, rows, work', rows')
                          /\ op = "after" => Head(todo).region = spec.region
      BY <3>2
    <3>4. spec.region \in Regs(Head(todo).at)
      <4>1. PICK w2, h2 : w2 = work' /\ h2 = rows'
        OBVIOUS
      <4>2. IsSeq(rows) /\ Wrote(Head(todo).at, spec, work, rows, w2, h2)
        BY <3>3, <4>1 DEF LegacyInv, TableOK
      <4>3. QED
        BY <4>2, WroteRegion
    <3>5. QED
      BY <3>3, <3>4, WriteKeepsLeaves
  <2>2. CASE Fails \/ Commit \/ BeginTransaction
    <3>1. ~ Fails /\ ~ Commit
      BY <1>4 DEF Fails, Fail, Commit
    <3>2. ~ BeginTransaction
      BY <1>4, BeginKeepsInv
    <3>3. QED
      BY <2>2, <3>1, <3>2
  <2>3. CASE AnswerDuplicate \/ NoTransition \/ CreateChild \/ ForwardToChild \/ SkipTimeout \/ CreateEntity
    <3>1. Running("event") => reply = "no_transition"
      BY AtHead DEF CallOK
    <3>2. Forwarding => reply = "no_transition"
      BY ForwardingIs
    <3>3. Running("timer") \/ Running("create") => request.kind # "event"
      BY AloneUnlessEvent
    <3>4. QED
      BY <1>4, <2>3, <3>1, <3>2, <3>3
         DEF AnswerDuplicate, NoTransition, CreateChild, ForwardToChild, OpenChild, SkipTimeout, CreateEntity,
             ReturnOnly, Return
  <2>4. CASE PassOver \/ ChildStays
    <3>1. PICK op \in {"forward", "after"} : Running(op)
      BY <2>4 DEF PassOver, ChildStays
    <3>2. ReturnOnly(<<>>)
      BY <2>4 DEF PassOver, ChildStays
    <3>3. /\ phase = "tx" /\ todo' = <<>> \o Tail(todo) /\ request' = request /\ reply' = reply
          /\ work' = work /\ rows' = rows /\ entities' = entities /\ history' = history
      BY <3>1, <3>2 DEF ReturnOnly, Return, Running, committed
    <3>4. /\ Elements(todo') = Elements(Tail(todo))
          /\ Elements(todo) = {Head(todo)} \union Elements(Tail(todo))
      BY <3>1, <3>3, AtHead, HeadAndTail, ConcatElements, FewElements DEF StackOK
    <3>5. ASSUME NEW k \in DOMAIN entities, NEW r \in Regs(k), Pending(work, rows, k, r), Learns(todo, reply, k, r)
          PROVE  Learns(todo', reply', k, r)
      <4>1. PICK x \in Elements(todo) : x.op = "after" /\ x.at = k /\ x.region = r
        BY <3>5 DEF Learns
      <4>2. x # Head(todo)
        <5>1. SUFFICES ASSUME x = Head(todo) PROVE FALSE
          OBVIOUS
        <5>2. /\ op = "after" /\ CallOK(x, work, rows, reply)
              /\ HeadChild = ChildKey(k, r, x.state) /\ HeadSub = SubOf(k, r, x.state)
          BY <3>1, <4>1, <5>1, AtHead DEF HeadChild, HeadSub
        <5>3. work[k].states[r] = x.state
          BY <4>1, <5>2 DEF CallOK
        <5>4. ~ IsFinal(work[HeadChild], HeadSub)
          <6>1. reply = "applied" /\ ~ Running("forward")
            BY <1>4, <3>1, <3>3, <5>2 DEF Running
          <6>2. QED
            BY <2>4, <6>1 DEF PassOver, ChildStays
        <5>5. QED
          BY <3>5, <5>2, <5>3, <5>4 DEF Pending
      <4>3. QED
        BY <3>3, <3>4, <3>5, <4>1, <4>2 DEF Learns
    <3>6. QED
      BY <1>4, <3>3, <3>5 DEF LeavesInv
  <2>5. CASE UNCHANGED vars
    BY <2>5 DEF vars, LeavesInv, Learns
  <2>6. QED
    BY <2>1, <2>2, <2>3, <2>4, <2>5, StepKinds
<1>5. request'.kind \in {"event", "timer", "create"} \/ phase' # "tx"
  BY <1>1 DEF LegacyInv, PhaseOK, TxOK
<1>6. QED
  BY <1>2, <1>3, <1>4, <1>5

\* A completion is overlooked only by those who do not come through the parent:
\* a commit that leaves a parent with a final child it has not learnt of, and had
\* not left it so, is a timeout's or was addressed to an entity below that parent.
THEOREM CompletionsAreLearnt ==
  NoSharedChildren => (Spec => OnlyOutsidersLeavePending)
<1> SUFFICES ASSUME NoSharedChildren PROVE Spec => OnlyOutsidersLeavePending
  OBVIOUS
<1> DEFINE Inv == LegacyInv /\ LeavesInv
<1>1. Init => Inv
  BY LegacyInit DEF Init, LeavesInv
<1>2. Inv /\ [Next]_vars => Inv'
  BY LegacyStep, LeavesStep
<1>3. Inv /\ [Next]_vars =>
        [ \A k \in DOMAIN entities :
            \A region \in DOMAIN entities'[k].states :
              /\ Pending(entities', history', k, region)
              /\ ~ Pending(entities, history, k, region)
              => \/ request.kind = "timer"
                 \/ Len(request.at.path) > Len(k.path) ]_vars
  <2>1. SUFFICES ASSUME Inv, [Next]_vars, NEW k \in DOMAIN entities, NEW region \in DOMAIN entities'[k].states,
                        Pending(entities', history', k, region), ~ Pending(entities, history, k, region),
                        request.kind # "timer"
                 PROVE  Len(request.at.path) > Len(k.path)
    OBVIOUS
  <2>2. Commit
    <3>1. SUFFICES ASSUME entities' = entities /\ history' = history PROVE FALSE
      BY <2>1, OnlyCommitsPublish
    <3>2. QED
      BY <2>1, <3>1
  <2>3. phase = "tx" /\ todo = <<>> /\ entities' = work /\ history' = rows
    BY <2>2 DEF Commit
  <2>4. TxOK /\ TableOK(work, rows) /\ k \in DOMAIN work /\ request.at \in Keys
    BY <2>1, <2>3 DEF LegacyInv, PhaseOK, TxOK
  <2>5. region \in Regs(k) /\ k \in Keys
    BY <2>1, <2>3, <2>4 DEF TableOK, Shape
  <2>6. ~ Learns(todo, reply, k, region)
    BY <2>3, FewElements DEF Learns
  <2>7. ~ (Len(k.path) >= Len(request.at.path))
    BY <2>1, <2>3, <2>5, <2>6 DEF LeavesInv
  <2>8. Len(k.path) \in Nat /\ Len(request.at.path) \in Nat
    <3>1. k.path \in Seq(StateNames) /\ request.at.path \in Seq(StateNames)
      BY <2>4, <2>5, DefinitionIs
    <3>2. QED
      BY <3>1
  <2>9. QED
    BY <2>7, <2>8
<1> HIDE DEF Inv
<1>4. QED
  BY <1>1, <1>2, <1>3, PTL DEF Spec, OnlyOutsidersLeavePending
=============================================================================
