------------------------ MODULE ManagedChildrenProofs ------------------------
(***************************************************************************)
(* Theorems about ManagedChildren, and about ManagedDeletion, which adds   *)
(* deletes to it, for every set of definitions, every depth and number of  *)
(* transactions.                                                           *)
(*                                                                         *)
(* A transaction breaks what holds between transactions and restores it    *)
(* call by call.  So the invariant says what holds of the rows *given the  *)
(* calls that are still to be made*: Coherent(w, h, C) is about entities   *)
(* w, rows h and a set C of pending calls, and every exception it makes    *)
(* names the pending call that will end it.  It is true of the running     *)
(* transaction (Coherent(work, rows, Pending)) and of the committed tables *)
(* with no call pending, where it has no exception left.  The order of the *)
(* calls matters in one way only: what is on top of what (Above).          *)
(*                                                                         *)
(* Deletes break that tree for good.  What survives them is weaker, and    *)
(* has the same form: Apart(w, made, n, C) excuses an owner that stands in *)
(* the state of a child older than itself only while a call is pending     *)
(* that will be refused because of that child.                             *)
(***************************************************************************)
EXTENDS ManagedDeletion, RegionEngineProofs

-----------------------------------------------------------------------------
(* The rows.                                                               *)

Regs(k) == DOMAIN Defs[k.machine].initial

\* The stored entry of a region, which is the effective one (EntriesAreStored).
Entry(e, r) == e.stored.regions[r]

InstanceOK(k, x) ==
  \/ x = NotManaged
  \/ /\ x.status \in {"active", "completed", "cancelled"}
     /\ x = [status |-> x.status, depth |-> x.depth, link |-> x.link]
     /\ x.depth \in 1..MaxDepth
     /\ x.link.owner \in Keys
     /\ IsCompound(x.link.owner, x.link.region, x.link.state)
     /\ k = ChildKey(x.link.owner, x.link.region, x.link.state)

IsRow(e) ==
  e = [states |-> e.states, context |-> e.context, version |-> e.version,
       created_at |-> e.created_at, updated_at |-> e.updated_at,
       stored |-> e.stored, instance |-> e.instance]

Shape(k, e) ==
  /\ IsRow(e)
  /\ DOMAIN e.states = Regs(k)
  /\ e.version \in Nat \ {0}
  /\ e.stored.version = e.version
  /\ DOMAIN e.stored.regions = DOMAIN e.states
  /\ \A r \in DOMAIN e.states : Entry(e, r).state = e.states[r] /\ Entry(e, r).seq \in 1..e.version
  /\ InstanceOK(k, e.instance)

RowsOK(w) == \A k \in DOMAIN w : k \in Keys /\ Shape(k, w[k])

\* Instance n of region r is over.
Older(e, r, n) == r \in DOMAIN e.states /\ n \in Nat /\ n < Entry(e, r).seq

\* The key of a row is the event's own or lies behind its entity.
KeyOK(row, e) ==
  \/ row.key = EventIdentity(row.type, row.ts)
  \/ /\ row.key.kind = "timeout"
     /\ row.key = TimeoutIdentity(row.key.name, row.key.n)
     /\ Older(e, row.key.name, row.key.n)
  \/ /\ row.key.kind = "join"
     /\ row.key = JoinIdentity(row.key.name, row.key.n, row.key.step)
     /\ row.key.n \in 0..e.version
  \/ /\ row.key.kind = "sub"
     /\ row.key = SubCompleteIdentity(row.key.name, row.key.state, row.key.n)
     /\ Older(e, row.key.name, row.key.n)
  \/ e.instance.status = "cancelled" /\ row.key = CancelIdentity(e.instance.link.seq)

KeysOK(w, h) ==
  IsSeq(h) /\ \A i \in DOMAIN h : h[i].at \in DOMAIN w /\ KeyOK(h[i], w[h[i].at])

-----------------------------------------------------------------------------
(* The pending calls.                                                      *)

\* The child of a compound state was started by its owner k.
OwnChild(w, k, r, s) ==
  IsCompound(k, r, s) =>
    /\ ChildKey(k, r, s) \in DOMAIN w
    /\ w[ChildKey(k, r, s)].instance # NotManaged
    /\ w[ChildKey(k, r, s)].instance.link.owner = k

\* k does not need its child in state s of region r any more: it has ended or
\* will, it is in another state, or it will start a new child there.
Leaving(w, C, k, r, s) ==
  \/ ~ Live(w[k])
  \/ w[k].states[r] # s
  \/ \E y \in C : y.op = "end" /\ y.at = k
  \/ \E y \in C : y.op = "start" /\ y.at = k /\ y.region = r

VisitOK(x, w) ==
  /\ x.region \in DOMAIN w[x.at].states
  /\ x.new = Entry(w[x.at], x.region)
  /\ x.ended \in BOOLEAN
  /\ x.ended => w[x.at].instance.status = "completed"
  /\ ~ x.ended => Live(w[x.at])
  /\ OwnChild(w, x.at, x.region, x.old.state)

StartOK(x, w) ==
  /\ Live(w[x.at])
  /\ x.region \in DOMAIN w[x.at].states
  /\ x.state = Entry(w[x.at], x.region).state
  /\ x.seq = Entry(w[x.at], x.region).seq

CancelOK(x, w, C) ==
  /\ x.region \in DOMAIN w[x.at].states
  /\ OwnChild(w, x.at, x.region, x.state)
  /\ Leaving(w, C, x.at, x.region, x.state)

\* An entity ends after its children.
EndOK(x, w, C) ==
  LET e == w[x.at] IN
  /\ e.instance.status = "active"
  /\ Leaving(w, C, e.instance.link.owner, e.instance.link.region, e.instance.link.state)
  /\ \A r \in DOMAIN e.states :
       LET child == ChildKey(x.at, r, e.states[r])
       IN IsCompound(x.at, r, e.states[r]) /\ child \in DOMAIN w /\ w[child].instance.status = "active" =>
            \/ \E y \in C : y.op = "cancel" /\ y.at = x.at /\ y.region = r /\ y.state = e.states[r]
            \/ \E y \in C : y.op = "end" /\ y.at = child

\* k's owner is in the entry that started k.
Current(w, k) ==
  LET link == w[k].instance.link
  IN /\ Live(w[link.owner])
     /\ Entry(w[link.owner], link.region).state = link.state
     /\ Entry(w[link.owner], link.region).seq = link.seq

CompleteOK(x, w) ==
  /\ w[x.at].instance.status = "completed"
  /\ w[x.at].instance.link.owner \in DOMAIN w
  /\ Current(w, x.at)

Asks == {"event", "forward"}
Descends == {"visit", "start", "cancel", "end"}
Alone == {"target", "timer", "create", "complete"}

CallOK(x, w, C) ==
  /\ x.op \in Asks \union Descends \union Alone
  /\ x.op = "create" => x.at \in Keys
  /\ x.op = "target" => Root \in DOMAIN w
  /\ x.op \notin {"create", "target"} => x.at \in DOMAIN w
  /\ x.op = "visit" => VisitOK(x, w)
  /\ x.op = "start" => StartOK(x, w)
  /\ x.op = "cancel" => CancelOK(x, w, C)
  /\ x.op = "end" => EndOK(x, w, C)
  /\ x.op = "complete" => CompleteOK(x, w)

CallsOK(w, C) == \A x \in C : CallOK(x, w, C)

\* What may be on top of what in `todo`: the calls of an ancestor, or of the
\* entity itself, are below; nothing of an entity is below its end; what starts
\* or visits has nothing to cancel below it.  Other calls stand alone.
Above(x, y) ==
  \/ x.op \in Asks /\ y.op \in Asks
  \/ /\ x.op \in Descends /\ y.op \in Descends \union {"complete"}
     /\ Len(y.at.path) <= Len(x.at.path)
     /\ x.op = "end" => Len(y.at.path) < Len(x.at.path)
     /\ x.op \in {"visit", "start"} => y.op \notin {"cancel", "end"}

Ordered(calls) == \A i, j \in DOMAIN calls : i < j => Above(calls[i], calls[j])

-----------------------------------------------------------------------------
(* Children and entries.                                                   *)

\* A pending call will cancel k, or end it.
Ending(w, C, k) ==
  LET link == w[k].instance.link
  IN \/ \E x \in C : /\ x.op = "visit" /\ x.at = link.owner /\ x.region = link.region
                     /\ x.old.state = link.state /\ (x.old.seq # x.new.seq \/ x.ended)
     \/ \E x \in C : x.op = "cancel" /\ x.at = link.owner /\ x.region = link.region /\ x.state = link.state
     \/ \E x \in C : x.op = "end" /\ x.at = k

BelongOK(w, C) ==
  \A k \in DOMAIN w :
    w[k].instance.status = "active" =>
      w[k].instance.link.owner \in DOMAIN w /\ (Current(w, k) \/ Ending(w, C, k))

\* The child of the state that k is in: active, or completing k's parent.
HasChild(w, C, k, r) ==
  LET child == ChildKey(k, r, w[k].states[r])
  IN /\ child \in DOMAIN w
     /\ w[child].instance # NotManaged
     /\ w[child].instance.link.owner = k
     /\ w[child].instance.link.seq = Entry(w[k], r).seq
     /\ \/ w[child].instance.status = "active"
        \/ /\ w[child].instance.status = "completed"
           /\ \E x \in C : x.op = "complete" /\ x.at = child

\* A pending call will start it, or end k.
Awaiting(C, k, r) ==
  \/ \E x \in C : x.op = "start" /\ x.at = k /\ x.region = r
  \/ \E x \in C : x.op = "visit" /\ x.at = k /\ x.region = r /\ x.old.seq # x.new.seq
  \/ \E x \in C : x.op = "end" /\ x.at = k

HaveOK(w, C) ==
  \A k \in DOMAIN w :
    Live(w[k]) =>
      \A r \in DOMAIN w[k].states :
        IsCompound(k, r, w[k].states[r]) => HasChild(w, C, k, r) \/ Awaiting(C, k, r)

Has(h, k, key) == \E i \in DOMAIN h : h[i].at = k /\ h[i].key = key

Completed(w, h, C, k) ==
  LET link == w[k].instance.link
  IN Has(h, link.owner, SubCompleteIdentity(link.region, link.state, link.seq))
       <=> /\ w[k].instance.status = "completed"
           /\ \A x \in C : ~ (x.op = "complete" /\ x.at = k)

Cancelled(w, h, k) ==
  Has(h, k, CancelIdentity(w[k].instance.link.seq)) <=> w[k].instance.status = "cancelled"

WinnerOK(w, h, C) ==
  \A k \in DOMAIN w : w[k].instance # NotManaged => Completed(w, h, C, k) /\ Cancelled(w, h, k)

ImmediateOK(w) ==
  \A k \in DOMAIN w :
    w[k].instance.status = "active" /\ w[k].version > 1 => Completion(w[k], w[k].states) = {}

Coherent(w, h, C) ==
  /\ RowsOK(w) /\ KeysOK(w, h) /\ CallsOK(w, C)
  /\ BelongOK(w, C) /\ HaveOK(w, C) /\ WinnerOK(w, h, C) /\ ImmediateOK(w)

-----------------------------------------------------------------------------
(* The invariant.                                                          *)

Calls(s) == {s[i] : i \in DOMAIN s}

Pending == Calls(todo)

StackOK == IsSeq(todo) /\ Ordered(todo)

\* What has ended before the transaction is not written by it.
Frozen ==
  \A k \in DOMAIN entities :
    /\ k \in DOMAIN work
    /\ entities[k].instance.status \in {"completed", "cancelled"} => work[k] = entities[k]

\* The target's history holds the event.
Recorded(h) ==
  \E i \in DOMAIN h : /\ h[i].at = TargetKey(request.target)
                      /\ h[i].type = request.event.type
                      /\ h[i].ts = request.event.ts
                      /\ h[i].params = request.event.params

\* A targeted request under way has not been answered, and has written nothing,
\* or it has, and the target's rows say so.
TargetInv ==
  /\ IsSeq(request.target)
  /\ phase = "tx" /\ request.kind = "targeted" =>
       \/ /\ reply = "no_transition" /\ rows = history
          /\ \/ todo = <<[op |-> "target"]>>
             \/ todo = <<EventCall(TargetKey(request.target), FALSE, FALSE)>>
             \/ todo = <<>> /\ ~ Recorded(rows)
       \/ /\ reply \in {"applied", "duplicate"} /\ Recorded(rows)
          /\ \A x \in Pending : x.op \in Descends \union {"complete"}

PhaseInv ==
  /\ phase \in {"idle", "tx"}
  /\ phase = "idle" => work = entities /\ rows = history /\ todo = <<>>
  /\ transactions \in 0..MaxTransactions

TreeInv ==
  /\ Coherent(work, rows, Pending) /\ Coherent(entities, history, {})
  /\ StackOK /\ PhaseInv

\* What every step keeps, but the answers to targeted requests.
CoreInv == TreeInv /\ Frozen /\ NoInternalError

ManagedInv == CoreInv /\ TargetInv /\ TargetedAnswersAreTruthful

-----------------------------------------------------------------------------
(* Names.                                                                  *)

\* What DefsAssumption says of one definition.
LEMMA DefinitionIs ==
  ASSUME NEW id \in DOMAIN Defs
  PROVE  /\ IsSeq(Defs[id].regions) /\ IsSeq(Defs[id].joins)
         /\ {Defs[id].regions[i] : i \in DOMAIN Defs[id].regions} = DOMAIN Defs[id].initial
         /\ \A c \in DOMAIN Defs[id].managed :
              c[1] \in DOMAIN Defs[id].initial /\ Defs[id].managed[c].machine \in DOMAIN Defs
         /\ \A c, d \in DOMAIN Defs[id].managed : c[2] = d[2] => c = d
BY DefsAssumption

\* A child's name is its owner's with one state more.
LEMMA ChildKeyIsKey ==
  ASSUME NEW k \in Keys, NEW r, NEW s, IsCompound(k, r, s)
  PROVE  /\ ChildKey(k, r, s) \in Keys
         /\ Len(k.path) \in Nat
         /\ Len(ChildKey(k, r, s).path) = Len(k.path) + 1
         /\ ChildKey(k, r, s) # k
         /\ r \in Regs(k)
<1>1. k.machine \in DOMAIN Defs /\ k.path \in Seq(StateNames)
  BY DEF Keys
<1>2. <<r, s>> \in DOMAIN Defs[k.machine].managed
  BY DEF IsCompound
<1>3. r \in Regs(k) /\ ManagedSub(k, r, s).machine \in DOMAIN Defs
  <2>1. <<r, s>>[1] = r
    OBVIOUS
  <2>2. QED
    BY <1>1, <1>2, <2>1, DefinitionIs DEF ManagedSub, Regs
<1>4. s \in StateNames
  <2>1. s = <<r, s>>[2]
    OBVIOUS
  <2>2. s \in {c[2] : c \in DOMAIN Defs[k.machine].managed}
    BY <1>2, <2>1
  <2>3. QED
    BY <1>1, <2>2 DEF StateNames
<1>5. /\ Append(k.path, s) \in Seq(StateNames)
      /\ Len(k.path) \in Nat
      /\ Len(Append(k.path, s)) = Len(k.path) + 1
  <2> DEFINE S == StateNames
  <2>1. k.path \in Seq(S) /\ s \in S
    BY <1>1, <1>4
  <2> HIDE DEF S
  <2>2. Append(k.path, s) \in Seq(S) /\ Len(k.path) \in Nat /\ Len(Append(k.path, s)) = Len(k.path) + 1
    BY <2>1
  <2>3. QED
    BY <2>2 DEF S
<1>6. ChildKey(k, r, s) = [machine |-> ManagedSub(k, r, s).machine, path |-> Append(k.path, s)]
  BY DEF ChildKey
<1>7. QED
  BY <1>3, <1>5, <1>6 DEF Keys

\* Two owners of one name lie at the same place, in the same state.
LEMMA ChildKeyIsInjective ==
  ASSUME NEW k \in Keys, NEW r, NEW s, NEW j \in Keys, NEW q, NEW t,
         IsCompound(k, r, s), IsCompound(j, q, t), ChildKey(k, r, s) = ChildKey(j, q, t)
  PROVE  k.path = j.path /\ s = t /\ (k = j => r = q)
<1>1. Append(k.path, s) = Append(j.path, t)
  BY DEF ChildKey
<1>2. k.path \in Seq(StateNames) /\ j.path \in Seq(StateNames)
  BY DEF Keys
<1>3. k.path = j.path /\ s = t
  <2> DEFINE p == k.path
             o == j.path
             S == StateNames \union {s, t}
  <2>1. p \in Seq(S) /\ o \in Seq(S)
    BY <1>2
  <2>2. Append(p, s) = Append(o, t)
    BY <1>1
  <2> HIDE DEF p, o, S
  <2>3. Len(p) = Len(o)
    BY <2>1, <2>2
  <2>4. p = o /\ s = t
    BY <2>1, <2>2, <2>3
  <2>5. QED
    BY <2>4 DEF p, o
<1>4. ASSUME k = j PROVE r = q
  <2>1. k.machine \in DOMAIN Defs
    BY DEF Keys
  <2>2. /\ <<r, s>> \in DOMAIN Defs[k.machine].managed
        /\ <<q, s>> \in DOMAIN Defs[k.machine].managed
    BY <1>3, <1>4 DEF IsCompound
  <2>3. <<r, s>>[2] = <<q, s>>[2]
    OBVIOUS
  <2>4. <<r, s>> = <<q, s>>
    BY <2>1, <2>2, <2>3, DefinitionIs
  <2>5. QED
    BY <2>4
<1>5. QED
  BY <1>3, <1>4

\* So an owner has a child in one state of one region.
LEMMA SameChild ==
  ASSUME NEW k \in Keys, NEW r, NEW s, NEW q, NEW t,
         IsCompound(k, r, s), IsCompound(k, q, t), ChildKey(k, r, s) = ChildKey(k, q, t)
  PROVE  r = q /\ s = t
BY ChildKeyIsInjective

-----------------------------------------------------------------------------
(* Entries of rows.                                                        *)

\* Readers see the stored entries.
LEMMA EntriesAreStored ==
  ASSUME NEW k, NEW e, Shape(k, e)
  PROVE  /\ DOMAIN Entries(k, e) = DOMAIN e.states
         /\ \A r \in DOMAIN e.states : Entries(k, e)[r] = Entry(e, r)
         /\ \A r \in DOMAIN e.states : EffectiveEntries(Defs[k.machine], e)[r] = Entry(e, r)
<1>1. ASSUME NEW r \in DOMAIN e.states
      PROVE  /\ e.stored.version = e.version
             /\ r \in DOMAIN e.stored.regions
             /\ e.stored.regions[r].state = e.states[r]
  BY DEF Shape, Entry
<1>2. QED
  BY <1>1 DEF Entries, EffectiveEntries, Entry

\* A new row.
LEMMA NewRowShape ==
  ASSUME NEW k, NEW x, InstanceOK(k, x)
  PROVE  LET e == NewEntity(k, x)
         IN /\ Shape(k, e) /\ e.instance = x /\ e.version = 1
            /\ e.states = Defs[k.machine].initial
            /\ \A r \in Regs(k) : Entry(e, r).state = Defs[k.machine].initial[r] /\ Entry(e, r).seq = 1
<1> DEFINE e == NewEntity(k, x)
<1>1. /\ e.instance = x /\ e.version = 1 /\ e.states = Defs[k.machine].initial
      /\ e.stored = InitialEntries(Defs[k.machine].initial, Now)
  BY DEF NewEntity
<1>2. /\ e.stored.version = 1 /\ DOMAIN e.stored.regions = Regs(k)
      /\ \A r \in Regs(k) : Entry(e, r).state = Defs[k.machine].initial[r] /\ Entry(e, r).seq = 1
  BY <1>1 DEF InitialEntries, Entry, Regs
<1>3. IsRow(e)
  BY DEF NewEntity, IsRow
<1> HIDE DEF e
<1>4. Shape(k, e)
  BY <1>1, <1>2, <1>3 DEF Shape, Regs
<1>5. QED
  BY <1>1, <1>2, <1>4 DEF e

-----------------------------------------------------------------------------
(* What a write writes.                                                    *)

\* A write sets its region and the joins it fires.
SpecOK(e, spec) ==
  /\ spec.region \in DOMAIN e.states
  /\ IsSeq(spec.fired)
  /\ DOMAIN spec.states = DOMAIN e.states
  /\ spec.states = SetAll([e.states EXCEPT ![spec.region] = spec.to], spec.fired)

\* One state set, and what the joins make of it.
LEMMA CascadeOfWrite ==
  ASSUME NEW m, IsSeq(m.joins), NEW e, NEW r \in DOMAIN e.states, NEW to,
         NEW c \in ApplyJoins(m, [e.states EXCEPT ![r] = to])
  PROVE  /\ IsSeq(c.fired) /\ DOMAIN c.states = DOMAIN e.states
         /\ c.states = SetAll([e.states EXCEPT ![r] = to], c.fired)
<1> DEFINE moved == [e.states EXCEPT ![r] = to]
<1>1. DOMAIN moved = DOMAIN e.states /\ moved = [x \in DOMAIN moved |-> moved[x]]
  OBVIOUS
<1>2. c \in ApplyJoins(m, moved)
  OBVIOUS
<1> HIDE DEF moved
<1>3. IsCascade(c, DOMAIN moved)
  BY <1>2, ApplyJoinsYieldsCascades
<1>4. Accounts(moved, c)
  BY <1>1, <1>2, ApplyJoinsAccounts
<1>5. QED
  BY <1>1, <1>3, <1>4 DEF IsCascade, Accounts, moved

\* The writes of an event.
LEMMA EventSpecs ==
  ASSUME NEW m, IsSeq(m.joins), NEW e, NEW ev, NEW t, t.region \in DOMAIN e.states,
         NEW spec \in EventWrites(e, ev, t, m)
  PROVE  /\ SpecOK(e, spec) /\ spec.region = t.region
         /\ spec.key = EventIdentity(spec.type, spec.ts)
         /\ spec.type = ev.type /\ spec.ts = ev.ts /\ spec.params = ev.params
<1>1. PICK c \in ApplyJoins(m, [e.states EXCEPT ![t.region] = t.to]) :
        spec = [type |-> ev.type, region |-> t.region, to |-> t.to, key |-> EventIdentity(ev.type, ev.ts),
                params |-> ev.params, ts |-> ev.ts, states |-> c.states, fired |-> c.fired,
                context |-> Merge(ev.params, e.context)]
  BY DEF EventWrites
<1>2. /\ IsSeq(c.fired) /\ DOMAIN c.states = DOMAIN e.states
      /\ c.states = SetAll([e.states EXCEPT ![t.region] = t.to], c.fired)
  BY CascadeOfWrite
<1>3. /\ spec.region = t.region /\ spec.to = t.to /\ spec.states = c.states /\ spec.fired = c.fired
      /\ spec.key = EventIdentity(spec.type, spec.ts)
      /\ spec.type = ev.type /\ spec.ts = ev.ts /\ spec.params = ev.params
  BY <1>1
<1>4. QED
  BY <1>2, <1>3 DEF SpecOK

\* The write of a completion in the parent.
LEMMA ParentSpecs ==
  ASSUME NEW m, IsSeq(m.joins), NEW e, NEW link, link.region \in DOMAIN e.states, NEW target,
         NEW spec \in ParentWrites(e, link, target, m)
  PROVE  /\ SpecOK(e, spec) /\ spec.region = link.region
         /\ spec.key = SubCompleteIdentity(link.region, link.state, EffectiveEntries(m, e)[link.region].seq)
<1>1. PICK c \in ApplyJoins(m, [e.states EXCEPT ![link.region] = target]) :
        spec = [type |-> "$sub_complete", region |-> link.region, to |-> target,
                key |-> SubCompleteIdentity(link.region, link.state, EffectiveEntries(m, e)[link.region].seq),
                params |-> <<>>, ts |-> 0, states |-> c.states, fired |-> c.fired,
                context |-> e.context]
  BY DEF ParentWrites
<1>2. /\ IsSeq(c.fired) /\ DOMAIN c.states = DOMAIN e.states
      /\ c.states = SetAll([e.states EXCEPT ![link.region] = target], c.fired)
  BY CascadeOfWrite
<1>3. /\ spec.region = link.region /\ spec.to = target /\ spec.states = c.states /\ spec.fired = c.fired
      /\ spec.key = SubCompleteIdentity(link.region, link.state, EffectiveEntries(m, e)[link.region].seq)
  BY <1>1
<1>4. QED
  BY <1>2, <1>3 DEF SpecOK

\* The write of a timer; a flat machine applies no joins.
LEMMA TimeoutSpecs ==
  ASSUME NEW m, IsSeq(m.joins), NEW e, NEW t, t.region \in DOMAIN e.states,
         NEW spec \in TimeoutWrites(e, t, m)
  PROVE  /\ SpecOK(e, spec) /\ spec.region = t.region
         /\ spec.key = TimeoutIdentity(t.region, EffectiveEntries(m, e)[t.region].seq)
<1> DEFINE moved == [e.states EXCEPT ![t.region] = t.to]
           Fits(c) == IsSeq(c.fired) /\ DOMAIN c.states = DOMAIN e.states /\ c.states = SetAll(moved, c.fired)
           flat == [states |-> moved, fired |-> <<>>]
<1>1. \A c \in ApplyJoins(m, moved) : Fits(c)
  BY CascadeOfWrite
<1>2. Fits(flat)
  <2>1. DOMAIN moved = DOMAIN e.states /\ moved = [x \in DOMAIN moved |-> moved[x]]
    OBVIOUS
  <2>2. flat.states = moved /\ flat.fired = <<>>
    OBVIOUS
  <2> HIDE DEF moved, flat
  <2>3. SetAll(moved, <<>>) = moved
    BY <2>1, SetNothing
  <2>4. IsSeq(<<>>)
    <3>1. <<>> \in Seq({})
      OBVIOUS
    <3>2. QED
      BY <3>1, SeqIsSeq
  <2>5. QED
    BY <2>1, <2>2, <2>3, <2>4
<1> HIDE DEF Fits
<1>3. PICK c \in IF m.parallel THEN ApplyJoins(m, moved) ELSE {flat} :
        spec = [type |-> "$timeout", region |-> t.region, to |-> t.to,
                key |-> TimeoutIdentity(t.region, EffectiveEntries(m, e)[t.region].seq),
                params |-> <<>>, ts |-> 0, states |-> c.states, fired |-> c.fired,
                context |-> e.context]
  BY DEF TimeoutWrites
<1>4. Fits(c)
  <2> HIDE DEF moved, flat
  <2>1. QED
    BY <1>1, <1>2
<1>5. /\ spec.region = t.region /\ spec.to = t.to /\ spec.states = c.states /\ spec.fired = c.fired
      /\ spec.key = TimeoutIdentity(t.region, EffectiveEntries(m, e)[t.region].seq)
  <2> HIDE DEF moved
  <2>1. QED
    BY <1>3
<1>6. QED
  BY <1>4, <1>5 DEF SpecOK, Fits

\* The history rows of one write.
LEMMA WrittenRowsAre ==
  ASSUME NEW k, NEW spec, NEW version, IsSeq(spec.fired)
  PROVE  LET new == WrittenRows(k, spec, version)
         IN /\ IsSeq(new) /\ DOMAIN new = 1..Len(new) /\ Len(new) \in Nat \ {0}
            /\ new[1] = MainRow(k, spec)
            /\ \A i \in DOMAIN new : \/ i = 1
                                     \/ \E j \in DOMAIN spec.fired :
                                          new[i] = JoinRow(k, spec.ts, spec.fired[j], version, j - 1)
<1> DEFINE new == WrittenRows(k, spec, version)
           join(j) == JoinRow(k, spec.ts, spec.fired[j], version, j - 1)
           t == [j \in DOMAIN spec.fired |-> join(j)]
<1>1. Len(spec.fired) \in Nat /\ DOMAIN spec.fired = 1..Len(spec.fired)
  BY SeqDomain
<1>2. IsSeq(t) /\ Len(t) = Len(spec.fired)
  <2>1. t \in [1..Len(spec.fired) -> {join(j) : j \in 1..Len(spec.fired)}]
    BY <1>1
  <2> HIDE DEF t, join
  <2>2. QED
    BY <1>1, <2>1, FunctionIsSeq
<1>3. new = <<MainRow(k, spec)>> \o t
  BY DEF WrittenRows
<1>4. \A j \in DOMAIN spec.fired : t[j] = join(j)
  OBVIOUS
<1> HIDE DEF t, new
<1>5. /\ IsSeq(new) /\ Len(new) = 1 + Len(t) /\ new[1] = MainRow(k, spec)
      /\ \A i \in 1..Len(t) : new[1 + i] = t[i]
  BY <1>2, <1>3, PrependIsSeq
<1>6. DOMAIN new = 1..Len(new) /\ Len(new) \in Nat \ {0}
  BY <1>1, <1>2, <1>5, SeqDomain
<1>7. ASSUME NEW i \in DOMAIN new, i # 1 PROVE \E j \in DOMAIN spec.fired : new[i] = join(j)
  <2>1. i - 1 \in DOMAIN spec.fired /\ i = 1 + (i - 1)
    BY <1>1, <1>2, <1>5, <1>6, <1>7
  <2>2. new[i] = t[i - 1]
    BY <1>1, <1>2, <1>5, <2>1
  <2>3. QED
    BY <1>4, <2>1, <2>2
<1>8. QED
  BY <1>5, <1>6, <1>7 DEF new

\* The entries after a write: an entry is kept with its state, or is new and
\* numbered by the new version; that of the write's own region is new.
EntriesMoved(stored, e, spec, old, version) ==
  /\ stored.version = version /\ DOMAIN stored.regions = DOMAIN e.states
  /\ \A r \in DOMAIN e.states :
       \/ stored.regions[r] = old[r] /\ spec.states[r] = e.states[r]
       \/ stored.regions[r].state = spec.states[r] /\ stored.regions[r].seq = version
  /\ stored.regions[spec.region].seq = version

\* So they are after every write.
LEMMA EntriesAfterWrite ==
  ASSUME NEW e, NEW spec, NEW old, NEW first, NEW version,
         SpecOK(e, spec), \A r \in DOMAIN e.states : old[r].state = e.states[r]
  PROVE  EntriesMoved(AdvanceEntries(old, spec.states, Entered(spec, first), version, Now), e, spec, old, version)
<1> DEFINE stored == AdvanceEntries(old, spec.states, Entered(spec, first), version, Now)
           item(j) == [region |-> spec.fired[j].region, state |-> spec.fired[j].to, row |-> first + j]
           main == [region |-> spec.region, state |-> spec.to, row |-> first]
           s == <<main>>
           t == [j \in DOMAIN spec.fired |-> item(j)]
           entered == Entered(spec, first)
           last(r) == entered[CHOOSE i \in LastFor(entered, r) : TRUE]
<1>1. entered = s \o t
  BY DEF Entered
<1>2. IsSeq(s) /\ Len(s) = 1 /\ s[1] = main
  <2>1. s \in Seq({main})
    OBVIOUS
  <2>2. QED
    BY <2>1, SeqIsSeq
<1>3. Len(spec.fired) \in Nat /\ DOMAIN spec.fired = 1..Len(spec.fired) /\ IsSeq(spec.fired)
  BY SeqDomain DEF SpecOK
<1>4. IsSeq(t) /\ Len(t) = Len(spec.fired) /\ DOMAIN t = DOMAIN spec.fired
  <2>1. t \in [1..Len(spec.fired) -> {item(j) : j \in 1..Len(spec.fired)}]
    BY <1>3
  <2>2. DOMAIN t = DOMAIN spec.fired
    OBVIOUS
  <2> HIDE DEF t, item
  <2>3. QED
    BY <1>3, <2>1, <2>2, FunctionIsSeq
<1>5. \A j \in DOMAIN spec.fired : t[j].region = spec.fired[j].region /\ t[j].state = spec.fired[j].to
  OBVIOUS
<1>6. main.region = spec.region /\ main.state = spec.to
  OBVIOUS
<1>7. /\ stored.version = version /\ DOMAIN stored.regions = DOMAIN e.states
      /\ \A r \in DOMAIN e.states :
           stored.regions[r] =
             IF LastFor(entered, r) # {} THEN NewEntry(last(r).state, version, Now, last(r).row)
             ELSE IF old[r].state = spec.states[r] THEN old[r]
             ELSE NewEntry(spec.states[r], version, Now, 0)
  BY DEF AdvanceEntries, SpecOK
<1> HIDE DEF s, t, main, entered, stored
<1>8. \A r : LastFor(t, r) = LastFor(spec.fired, r)
  BY <1>4, <1>5 DEF LastFor
<1>9. \A r : LastFor(entered, r) = IF LastFor(spec.fired, r) = {} THEN LastFor(s, r)
                                   ELSE {Len(s) + i : i \in LastFor(spec.fired, r)}
  <2>1. \A r : LastFor(s \o t, r) = IF LastFor(t, r) = {} THEN LastFor(s, r)
                                    ELSE {Len(s) + i : i \in LastFor(t, r)}
    BY <1>2, <1>4, LastForConcat
  <2>2. ASSUME NEW r
        PROVE  LastFor(entered, r) = IF LastFor(spec.fired, r) = {} THEN LastFor(s, r)
                                     ELSE {Len(s) + i : i \in LastFor(spec.fired, r)}
    <3>1. LastFor(t, r) = LastFor(spec.fired, r)
      BY <1>8
    <3>2. LastFor(entered, r) = IF LastFor(t, r) = {} THEN LastFor(s, r)
                                ELSE {Len(s) + i : i \in LastFor(t, r)}
      BY <1>1, <2>1
    <3>3. QED
      BY <3>1, <3>2
  <2>3. QED
    BY <2>2
<1>10. \A r : LastFor(s, r) = IF r = spec.region THEN {1} ELSE {}
  <2>1. DOMAIN s = {1}
    BY <1>2, SeqDomain
  <2>2. s[1].region = spec.region
    BY <1>2, <1>6
  <2>3. QED
    BY <2>1, <2>2 DEF LastFor
<1>11. \A r \in DOMAIN e.states :
         spec.states[r] = IF LastFor(spec.fired, r) = {}
                          THEN IF r = spec.region THEN spec.to ELSE e.states[r]
                          ELSE spec.fired[CHOOSE i \in LastFor(spec.fired, r) : TRUE].to
  <2> DEFINE moved == [e.states EXCEPT ![spec.region] = spec.to]
  <2>1. /\ DOMAIN moved = DOMAIN e.states
        /\ \A r \in DOMAIN e.states : moved[r] = IF r = spec.region THEN spec.to ELSE e.states[r]
    OBVIOUS
  <2>2. spec.states = SetAll(moved, spec.fired)
    BY DEF SpecOK
  <2> HIDE DEF moved
  <2>3. QED
    BY <2>1, <2>2 DEF SetAll
<1>12. ASSUME NEW r \in DOMAIN e.states, LastFor(entered, r) # {}
       PROVE  last(r).state = spec.states[r]
  <2>1. CASE LastFor(spec.fired, r) = {}
    <3>1. r = spec.region /\ LastFor(entered, r) = {1}
      BY <1>9, <1>10, <1>12, <2>1
    <3>2. entered[1] = main
      <4>1. 1 \in 1..Len(s)
        BY <1>2
      <4>2. (s \o t)[1] = s[1]
        BY <1>2, <1>4, <4>1, ConcatIsSeq
      <4>3. QED
        BY <1>1, <1>2, <4>2
    <3>3. last(r) = main
      BY <3>1, <3>2
    <3>4. QED
      BY <1>6, <1>11, <2>1, <3>1, <3>3
  <2>2. CASE LastFor(spec.fired, r) # {}
    <3>1. PICK n \in LastFor(spec.fired, r) : TRUE
      BY <2>2
    <3>2. LastFor(spec.fired, r) = {n} /\ n \in 1..Len(spec.fired)
      BY <1>3, <3>1, LastForIsUnique
    <3>3. LastFor(entered, r) = {1 + n}
      <4>1. LastFor(entered, r) = {1 + i : i \in {n}}
        BY <1>2, <1>9, <2>2, <3>2
      <4>2. QED
        BY <4>1
    <3>4. entered[1 + n] = t[n]
      <4>1. IsSeq(s) /\ IsSeq(t) /\ n \in 1..Len(t)
        BY <1>2, <1>4, <3>2
      <4>2. (s \o t)[Len(s) + n] = t[n]
        BY <4>1, ConcatIsSeq
      <4>3. QED
        BY <1>1, <1>2, <4>2
    <3>5. last(r) = t[n]
      BY <3>3, <3>4
    <3>6. spec.states[r] = spec.fired[n].to
      BY <1>11, <2>2, <3>2
    <3>7. QED
      BY <1>3, <1>5, <3>2, <3>5, <3>6
  <2>3. QED
    BY <2>1, <2>2
<1>13. LastFor(entered, spec.region) # {}
  <2>1. CASE LastFor(spec.fired, spec.region) = {}
    BY <1>9, <1>10, <2>1
  <2>2. CASE LastFor(spec.fired, spec.region) # {}
    BY <1>9, <2>2
  <2>3. QED
    BY <2>1, <2>2
<1> HIDE DEF last
<1>14. \A state, row : /\ NewEntry(state, version, Now, row).state = state
                       /\ NewEntry(state, version, Now, row).seq = version
  BY DEF NewEntry
<1>15. ASSUME NEW r \in DOMAIN e.states
       PROVE  \/ stored.regions[r] = old[r] /\ spec.states[r] = e.states[r]
              \/ stored.regions[r].state = spec.states[r] /\ stored.regions[r].seq = version
  <2>1. CASE LastFor(entered, r) # {}
    BY <1>7, <1>12, <1>14, <2>1
  <2>2. CASE LastFor(entered, r) = {} /\ old[r].state = spec.states[r]
    BY <1>7, <2>2
  <2>3. CASE LastFor(entered, r) = {} /\ old[r].state # spec.states[r]
    BY <1>7, <1>14, <2>3
  <2>4. QED
    BY <2>1, <2>2, <2>3
<1>16. stored.regions[spec.region].seq = version
  BY <1>7, <1>13, <1>14 DEF SpecOK
<1>17. QED
  BY <1>7, <1>15, <1>16 DEF stored, EntriesMoved

-----------------------------------------------------------------------------
(* One write of entity k, from rows w to w2.                               *)

\* What it makes of k's row e.  It `ended` k if k's new states complete its owner.
Written(k, e, spec, e2, ended) ==
  /\ Shape(k, e2)
  /\ e2.version = e.version + 1
  /\ DOMAIN e2.states = DOMAIN e.states
  /\ spec.region \in DOMAIN e.states
  /\ \A r \in DOMAIN e.states : Entry(e2, r) = Entry(e, r) \/ Entry(e2, r).seq = e2.version
  /\ Entry(e2, spec.region).seq = e2.version
  /\ \/ /\ ended = FALSE /\ e2.instance = e.instance
        /\ Completion(e2, e2.states) = {}
     \/ /\ ended = TRUE /\ e.instance.status = "active"
        /\ e2.instance = [e.instance EXCEPT !.status = "completed"]

Effect(w, k, spec, w2, ended) ==
  /\ DOMAIN w2 = DOMAIN w /\ \A j \in DOMAIN w : j # k => w2[j] = w[j]
  /\ Written(k, w[k], spec, w2[k], ended)

\* The calls it makes.
Visits(w, k, w2, ended, C) ==
  /\ \A x \in C :
       /\ x.at = k
       /\ \/ x.op = "complete" /\ ended = TRUE
          \/ /\ x.op = "visit" /\ x.region \in DOMAIN w[k].states /\ x.ended = ended
             /\ x.old = Entry(w[k], x.region) /\ x.new = Entry(w2[k], x.region)
  /\ \A r \in DOMAIN w[k].states : \E x \in C : x.op = "visit" /\ x.region = r
  /\ ended = TRUE => \E x \in C : x.op = "complete"

\* The rows it appends.
NewKeyOK(row, w, k, spec) ==
  \/ row.key = EventIdentity(row.type, row.ts)
  \/ row.key = TimeoutIdentity(spec.region, Entry(w[k], spec.region).seq)
  \/ \E region, step : row.key = JoinIdentity(region, w[k].version + 1, step)
  \/ \E state : row.key = SubCompleteIdentity(spec.region, state, Entry(w[k], spec.region).seq)

\* An instance of a managed entity is a record.
LEMMA InstanceIs ==
  ASSUME NEW k, NEW x, InstanceOK(k, x), x # NotManaged
  PROVE  /\ x.status \in {"active", "completed", "cancelled"}
         /\ x = [status |-> x.status, depth |-> x.depth, link |-> x.link]
         /\ x.link.owner \in Keys
         /\ IsCompound(x.link.owner, x.link.region, x.link.state)
         /\ k = ChildKey(x.link.owner, x.link.region, x.link.state)
         /\ x.link.region \in Regs(x.link.owner)
         /\ Len(x.link.owner.path) \in Nat
         /\ k \in Keys /\ Len(k.path) = Len(x.link.owner.path) + 1
         /\ k # x.link.owner
BY ChildKeyIsKey DEF InstanceOK

\* An instance is managed if its status is not "none".
LEMMA StatusIs ==
  ASSUME NEW k, NEW x, InstanceOK(k, x)
  PROVE  /\ x = NotManaged <=> x.status = "none"
         /\ x.status \in {"none", "active", "completed", "cancelled"}
         /\ x.status = "none" => x.depth = 0
         /\ x.status # "none" => x.depth \in 1..MaxDepth
BY DEF InstanceOK, NotManaged

\* A row with the fields that a write sets.
RowWith(e, states, context, version, stored, instance) ==
  [e EXCEPT !.states = states, !.context = context, !.version = version,
            !.stored = stored, !.instance = instance]

\* It has those fields, and the others of the row.
LEMMA RowSet ==
  ASSUME NEW e, IsRow(e), NEW states, NEW context, NEW version, NEW stored, NEW instance
  PROVE  /\ IsRow(RowWith(e, states, context, version, stored, instance))
         /\ RowWith(e, states, context, version, stored, instance).states = states
         /\ RowWith(e, states, context, version, stored, instance).context = context
         /\ RowWith(e, states, context, version, stored, instance).version = version
         /\ RowWith(e, states, context, version, stored, instance).stored = stored
         /\ RowWith(e, states, context, version, stored, instance).instance = instance
<1> DEFINE e2 == RowWith(e, states, context, version, stored, instance)
<1>1. DOMAIN e = {"states", "context", "version", "created_at", "updated_at", "stored", "instance"}
  BY DEF IsRow
<1>2. e2 = [f \in DOMAIN e |-> e2[f]] /\ DOMAIN e2 = DOMAIN e
  BY DEF RowWith
<1>3. /\ e2.states = states /\ e2.context = context /\ e2.version = version
      /\ e2.stored = stored /\ e2.instance = instance
  BY <1>1 DEF RowWith
<1>4. IsRow(e2)
  <2> HIDE DEF e2
  <2>1. QED
    BY <1>1, <1>2 DEF IsRow
<1>5. QED
  BY <1>3, <1>4

\* The entries, the instance and the row that a write of e leaves.
StoredAfter(k, e, spec, first) ==
  AdvanceEntries(Entries(k, e), spec.states, Entered(spec, first), e.version + 1, Now)

InstanceAfter(e, spec) ==
  IF Completion(e, spec.states) # {} THEN [e.instance EXCEPT !.status = "completed"] ELSE e.instance

RowAfter(k, e, spec, first) ==
  RowWith(e, spec.states, spec.context, e.version + 1, StoredAfter(k, e, spec, first), InstanceAfter(e, spec))

\* What WriteEntity makes of a live entity's row e.
LEMMA RowAfterIs ==
  ASSUME NEW k, NEW e, Shape(k, e), Live(e), NEW spec, SpecOK(e, spec), NEW first
  PROVE  LET e2 == RowAfter(k, e, spec, first)
         IN /\ Written(k, e, spec, e2, Completion(e, spec.states) # {})
            /\ \A r \in DOMAIN e.states : Entry(e2, r) = StoredAfter(k, e, spec, first).regions[r]
<1> DEFINE e2 == RowAfter(k, e, spec, first)
           version == e.version + 1
           target == Completion(e, spec.states)
           instance == InstanceAfter(e, spec)
           stored == StoredAfter(k, e, spec, first)
<1>1. /\ IsRow(e2)
      /\ e2.states = spec.states /\ e2.context = spec.context /\ e2.version = version
      /\ e2.stored = stored /\ e2.instance = instance
  <2>1. IsRow(e)
    BY DEF Shape
  <2>2. e2 = RowWith(e, spec.states, spec.context, version, stored, instance)
    BY DEF RowAfter
  <2> HIDE DEF e2, version, instance, stored
  <2>3. QED
    BY <2>1, <2>2, RowSet
<1> HIDE DEF e2
<1>2. /\ DOMAIN e.states = Regs(k) /\ version \in Nat \ {0} /\ InstanceOK(k, e.instance)
      /\ e.version \in Nat \ {0}
      /\ \A r \in DOMAIN e.states : Entry(e, r).state = e.states[r] /\ Entry(e, r).seq \in 1..e.version
  BY DEF Shape
<1>3. /\ DOMAIN Entries(k, e) = DOMAIN e.states
      /\ \A r \in DOMAIN e.states : Entries(k, e)[r] = Entry(e, r)
  BY EntriesAreStored
<1>4. /\ stored.version = version /\ DOMAIN stored.regions = DOMAIN e.states
      /\ \A r \in DOMAIN e.states :
           \/ stored.regions[r] = Entries(k, e)[r] /\ spec.states[r] = e.states[r]
           \/ stored.regions[r].state = spec.states[r] /\ stored.regions[r].seq = version
      /\ stored.regions[spec.region].seq = version
  <2> DEFINE old == Entries(k, e)
  <2>1. \A r \in DOMAIN e.states : old[r].state = e.states[r]
    BY <1>2, <1>3
  <2>2. stored = AdvanceEntries(old, spec.states, Entered(spec, first), version, Now)
    BY DEF StoredAfter
  <2> HIDE DEF version, stored, old
  <2>3. EntriesMoved(stored, e, spec, old, version)
    BY <2>1, <2>2, EntriesAfterWrite
  <2>4. QED
    BY <2>3 DEF old, EntriesMoved
<1> HIDE DEF version, stored
<1>5. \A r \in DOMAIN e.states : Entry(e2, r) = stored.regions[r]
  BY <1>1 DEF Entry
<1>6. DOMAIN spec.states = DOMAIN e.states /\ spec.region \in DOMAIN e.states
  BY DEF SpecOK
<1>7. \A r \in DOMAIN e.states :
        /\ Entry(e2, r).state = spec.states[r] /\ Entry(e2, r).seq \in 1..version
        /\ Entry(e2, r) = Entry(e, r) \/ Entry(e2, r).seq = version
  <2> TAKE r \in DOMAIN e.states
  <2>0. version = e.version + 1
    BY DEF version
  <2>1. CASE stored.regions[r] = Entries(k, e)[r] /\ spec.states[r] = e.states[r]
    BY <1>2, <1>3, <1>5, <2>0, <2>1
  <2>2. CASE stored.regions[r].state = spec.states[r] /\ stored.regions[r].seq = version
    BY <1>2, <1>5, <2>0, <2>2
  <2>3. QED
    BY <1>4, <2>1, <2>2
<1>8. /\ Completion(e2, e2.states) = target \/ target # {}
      /\ target # {} => e.instance.status = "active" /\ e.instance # NotManaged
  <2>1. target = {} => instance = e.instance
    BY DEF InstanceAfter
  <2>2. target # {} => e.instance # NotManaged
    BY DEF Completion
  <2>3. e.instance # NotManaged => e.instance.status = "active"
    BY <1>2, StatusIs DEF Live
  <2>4. target = {} => Completion(e2, e2.states) = target
    BY <1>1, <2>1 DEF Completion
  <2>5. QED
    BY <2>2, <2>3, <2>4
<1>9. InstanceOK(k, instance)
  <2>1. CASE target = {}
    BY <1>2, <2>1 DEF InstanceAfter
  <2>2. CASE target # {}
    <3> DEFINE x == e.instance
               y == [x EXCEPT !.status = "completed"]
    <3>1. InstanceOK(k, x) /\ x # NotManaged /\ instance = y
      BY <1>2, <1>8, <2>2 DEF InstanceAfter
    <3> HIDE DEF x, instance
    <3>2. /\ y = [status |-> "completed", depth |-> x.depth, link |-> x.link]
          /\ y.status = "completed" /\ y.depth = x.depth /\ y.link = x.link
      BY <3>1, InstanceIs
    <3> HIDE DEF y
    <3>3. InstanceOK(k, y)
      BY <3>1, <3>2 DEF InstanceOK
    <3>4. QED
      BY <3>1, <3>3
  <2>3. QED
    BY <2>1, <2>2
<1>10. Shape(k, e2)
  <2> HIDE DEF instance
  <2>1. QED
    BY <1>1, <1>2, <1>4, <1>5, <1>6, <1>7, <1>9 DEF Shape
<1>11. \/ /\ (target # {}) = FALSE /\ e2.instance = e.instance /\ Completion(e2, e2.states) = {}
       \/ /\ (target # {}) = TRUE /\ e.instance.status = "active"
          /\ e2.instance = [e.instance EXCEPT !.status = "completed"]
  BY <1>1, <1>8 DEF InstanceAfter
<1>12. \A r \in DOMAIN e.states : Entry(e2, r) = Entry(e, r) \/ Entry(e2, r).seq = e2.version
  BY <1>1, <1>7
<1>13. Entry(e2, spec.region).seq = e2.version
  BY <1>1, <1>4, <1>5, <1>6
<1>14. e2.version = e.version + 1 /\ DOMAIN e2.states = DOMAIN e.states
  BY <1>1, <1>6 DEF version
<1>15. Written(k, e, spec, e2, target # {})
  <2> HIDE DEF target
  <2>1. QED
    BY <1>6, <1>10, <1>11, <1>12, <1>13, <1>14, Zenon DEF Written
<1>16. QED
  BY <1>5, <1>15 DEF e2, stored, target

-----------------------------------------------------------------------------
(* The stack of calls.                                                     *)

\* The first call is above the others.
LEMMA StackSplits ==
  ASSUME NEW s, IsSeq(s), s # <<>>, Ordered(s)
  PROVE  /\ Calls(s) = {Head(s)} \union Calls(Tail(s))
         /\ \A y \in Calls(Tail(s)) : Above(Head(s), y)
         /\ IsSeq(Tail(s)) /\ Ordered(Tail(s))
<1> DEFINE S == Calls(s)
           t == Tail(s)
<1>1. s \in Seq(S)
  BY DEF IsSeq, Calls
<1> HIDE DEF S
<1>2. /\ Len(s) \in Nat \ {0} /\ DOMAIN s = 1..Len(s) /\ Head(s) = s[1]
      /\ t \in Seq(S) /\ Len(t) = Len(s) - 1
      /\ \A i \in 1..Len(t) : t[i] = s[i + 1]
  BY <1>1
<1> HIDE DEF t
<1>3. IsSeq(t) /\ DOMAIN t = 1..Len(t)
  BY <1>2, SeqIsSeq, SeqDomain
<1>4. \A y : y \in Calls(t) <=> \E i \in 2..Len(s) : y = s[i]
  <2>1. ASSUME NEW y \in Calls(t) PROVE \E i \in 2..Len(s) : y = s[i]
    <3>1. PICK i \in 1..Len(t) : y = t[i]
      BY <1>3 DEF Calls
    <3>2. i + 1 \in 2..Len(s) /\ y = s[i + 1]
      BY <1>2, <3>1
    <3>3. QED
      BY <3>2
  <2>2. ASSUME NEW i \in 2..Len(s) PROVE s[i] \in Calls(t)
    <3>1. i - 1 \in 1..Len(t) /\ (i - 1) + 1 = i
      BY <1>2
    <3>2. s[i] = t[i - 1]
      BY <1>2, <3>1
    <3>3. QED
      BY <1>3, <3>1, <3>2 DEF Calls
  <2>3. QED
    BY <2>1, <2>2
<1>5. Calls(s) = {Head(s)} \union Calls(t)
  <2>1. \A i \in 1..Len(s) : i = 1 \/ i \in 2..Len(s)
    BY <1>2
  <2>2. \A i \in 2..Len(s) : i \in 1..Len(s)
    BY <1>2
  <2>3. 1 \in 1..Len(s)
    BY <1>2
  <2>4. QED
    BY <1>2, <1>4, <2>1, <2>2, <2>3 DEF Calls
<1>6. ASSUME NEW y \in Calls(t) PROVE Above(Head(s), y)
  <2>1. PICK i \in 2..Len(s) : y = s[i]
    BY <1>4
  <2>2. 1 \in DOMAIN s /\ i \in DOMAIN s /\ 1 < i
    BY <1>2
  <2>3. QED
    BY <1>2, <2>1, <2>2 DEF Ordered
<1>7. Ordered(t)
  <2>1. ASSUME NEW i \in DOMAIN t, NEW j \in DOMAIN t, i < j PROVE Above(t[i], t[j])
    <3>1. /\ i + 1 \in DOMAIN s /\ j + 1 \in DOMAIN s /\ i + 1 < j + 1
          /\ t[i] = s[i + 1] /\ t[j] = s[j + 1]
      BY <1>2, <1>3, <2>1
    <3>2. QED
      BY <3>1 DEF Ordered
  <2>2. QED
    BY <2>1 DEF Ordered
<1>8. QED
  BY <1>3, <1>5, <1>6, <1>7 DEF t

\* New calls on top of old ones.
LEMMA StackGrows ==
  ASSUME NEW s, IsSeq(s), Ordered(s), NEW t, IsSeq(t), Ordered(t),
         \A y \in Calls(s), z \in Calls(t) : Above(y, z)
  PROVE  IsSeq(s \o t) /\ Ordered(s \o t) /\ Calls(s \o t) = Calls(s) \union Calls(t)
<1> DEFINE u == s \o t
<1>1. /\ Len(s) \in Nat /\ DOMAIN s = 1..Len(s)
      /\ Len(t) \in Nat /\ DOMAIN t = 1..Len(t)
  BY SeqDomain
<1>2. /\ Len(u) = Len(s) + Len(t) /\ IsSeq(u)
      /\ \A i \in 1..Len(s) : u[i] = s[i]
      /\ \A i \in 1..Len(t) : u[Len(s) + i] = t[i]
  BY ConcatIsSeq
<1>3. DOMAIN u = 1..(Len(s) + Len(t))
  BY <1>2, SeqDomain
<1> HIDE DEF u
<1>4. ASSUME NEW i \in DOMAIN u
      PROVE  \/ i \in DOMAIN s /\ u[i] = s[i]
             \/ i - Len(s) \in DOMAIN t /\ u[i] = t[i - Len(s)] /\ i > Len(s)
  <2>1. CASE i <= Len(s)
    BY <1>1, <1>2, <1>3, <2>1
  <2>2. CASE i > Len(s)
    <3>1. i - Len(s) \in 1..Len(t) /\ Len(s) + (i - Len(s)) = i
      BY <1>1, <1>3, <2>2
    <3>2. u[i] = t[i - Len(s)]
      BY <1>2, <3>1
    <3>3. QED
      BY <1>1, <2>2, <3>1, <3>2
  <2>3. QED
    BY <1>1, <1>3, <2>1, <2>2
<1>5. Calls(u) = Calls(s) \union Calls(t)
  <2>1. ASSUME NEW i \in DOMAIN u PROVE u[i] \in Calls(s) \union Calls(t)
    BY <1>4 DEF Calls
  <2>2. ASSUME NEW i \in DOMAIN s PROVE i \in DOMAIN u /\ u[i] = s[i]
    BY <1>1, <1>2, <1>3
  <2>3. ASSUME NEW i \in DOMAIN t PROVE Len(s) + i \in DOMAIN u /\ u[Len(s) + i] = t[i]
    BY <1>1, <1>2, <1>3
  <2>4. QED
    BY <2>1, <2>2, <2>3 DEF Calls
<1>6. ASSUME NEW i \in DOMAIN u, NEW j \in DOMAIN u, i < j PROVE Above(u[i], u[j])
  <2>1. CASE i \in DOMAIN s /\ j \in DOMAIN s /\ u[i] = s[i] /\ u[j] = s[j]
    BY <1>6, <2>1 DEF Ordered
  <2>2. CASE i \in DOMAIN s /\ u[i] = s[i] /\ j - Len(s) \in DOMAIN t /\ u[j] = t[j - Len(s)]
    BY <2>2 DEF Calls
  <2>3. CASE /\ i - Len(s) \in DOMAIN t /\ u[i] = t[i - Len(s)]
             /\ j - Len(s) \in DOMAIN t /\ u[j] = t[j - Len(s)]
    <3>1. i - Len(s) < j - Len(s)
      BY <1>1, <1>3, <1>6
    <3>2. QED
      BY <2>3, <3>1 DEF Ordered
  <2>4. CASE i > Len(s) /\ j \in DOMAIN s
    BY <1>1, <1>3, <1>6, <2>4
  <2>5. QED
    BY <1>4, <2>1, <2>2, <2>3, <2>4
<1>7. QED
  BY <1>2, <1>5, <1>6 DEF u, Ordered

\* No call, and one call.
LEMMA SmallStacks ==
  /\ IsSeq(<<>>) /\ Ordered(<<>>) /\ Calls(<<>>) = {}
  /\ \A x : IsSeq(<<x>>) /\ Ordered(<<x>>) /\ Calls(<<x>>) = {x}
<1>1. IsSeq(<<>>)
  <2>1. <<>> \in Seq({})
    OBVIOUS
  <2>2. QED
    BY <2>1, SeqIsSeq
<1>2. DOMAIN <<>> = {}
  OBVIOUS
<1>3. ASSUME NEW x PROVE IsSeq(<<x>>) /\ Ordered(<<x>>) /\ Calls(<<x>>) = {x}
  <2>1. <<x>> \in Seq({x}) /\ DOMAIN <<x>> = {1} /\ <<x>>[1] = x
    OBVIOUS
  <2>2. IsSeq(<<x>>)
    BY <2>1, SeqIsSeq
  <2>3. Ordered(<<x>>)
    BY <2>1 DEF Ordered
  <2>4. Calls(<<x>>) = {x}
    BY <2>1 DEF Calls
  <2>5. QED
    BY <2>2, <2>3, <2>4
<1>4. QED
  BY <1>1, <1>2, <1>3 DEF Ordered, Calls

\* One call for each region.
LEMMA RegionCalls ==
  ASSUME NEW k \in Keys, NEW f, \A r, q \in Regs(k) : Above(f[r], f[q])
  PROVE  LET s == [i \in DOMAIN RegionsOf(k) |-> f[RegionsOf(k)[i]]]
         IN IsSeq(s) /\ Ordered(s) /\ Calls(s) = {f[r] : r \in Regs(k)}
<1> DEFINE R == RegionsOf(k)
           s == [i \in DOMAIN R |-> f[R[i]]]
<1>1. IsSeq(R) /\ {R[i] : i \in DOMAIN R} = Regs(k)
  BY DefinitionIs DEF Keys, RegionsOf, Regs
<1>2. Len(R) \in Nat /\ DOMAIN R = 1..Len(R)
  BY <1>1, SeqDomain
<1> HIDE DEF R
<1>3. DOMAIN s = DOMAIN R /\ \A i \in DOMAIN R : s[i] = f[R[i]] /\ R[i] \in Regs(k)
  BY <1>1
<1>4. IsSeq(s)
  <2>1. s \in [1..Len(R) -> {f[R[i]] : i \in 1..Len(R)}]
    BY <1>2
  <2> HIDE DEF s
  <2>2. QED
    BY <1>2, <2>1, FunctionIsSeq
<1> HIDE DEF s
<1>5. Calls(s) = {f[r] : r \in Regs(k)}
  BY <1>1, <1>3 DEF Calls
<1>6. Ordered(s)
  BY <1>3 DEF Ordered
<1>7. QED
  BY <1>4, <1>5, <1>6 DEF s, R

-----------------------------------------------------------------------------
(* Steps that write nothing.                                               *)

Quiet == Asks \union {"target", "timer", "create"}

\* Calls of the quiet kind excuse nothing.
LEMMA QuietCalls ==
  ASSUME NEW w, NEW h, NEW C, Coherent(w, h, C), \A y \in C : y.op \in Quiet,
         NEW D, CallsOK(w, D), \A y \in D : y.op \in Quiet
  PROVE  Coherent(w, h, D)
<1>1. /\ \A y \in C : y.op \notin {"visit", "start", "cancel", "end", "complete"}
      /\ \A y \in D : y.op \notin {"visit", "start", "cancel", "end", "complete"}
  BY DEF Quiet, Asks
<1>2. BelongOK(w, D)
  <2>1. \A k \in DOMAIN w : Ending(w, C, k) => Ending(w, D, k)
    BY <1>1 DEF Ending
  <2>2. QED
    BY <2>1 DEF Coherent, BelongOK
<1>3. HaveOK(w, D)
  <2>1. \A k, r : HasChild(w, C, k, r) => HasChild(w, D, k, r)
    BY <1>1 DEF HasChild
  <2>2. \A k, r : Awaiting(C, k, r) => Awaiting(D, k, r)
    BY <1>1 DEF Awaiting
  <2>3. QED
    BY <2>1, <2>2 DEF Coherent, HaveOK
<1>4. WinnerOK(w, h, D)
  <2>1. \A k \in DOMAIN w : Completed(w, h, C, k) => Completed(w, h, D, k)
    BY <1>1 DEF Completed
  <2>2. QED
    BY <2>1 DEF Coherent, WinnerOK
<1>5. QED
  BY <1>2, <1>3, <1>4 DEF Coherent

\* The rows that excuses are about.
LEMMA RowIs ==
  ASSUME NEW w, RowsOK(w), NEW k \in DOMAIN w
  PROVE  /\ k \in Keys /\ Shape(k, w[k])
         /\ Len(k.path) \in Nat
         /\ w[k].instance = NotManaged <=> w[k].instance.status = "none"
         /\ w[k].instance.status \in {"none", "active", "completed", "cancelled"}
         /\ DOMAIN w[k].states = Regs(k)
         /\ \A r \in DOMAIN w[k].states : Entry(w[k], r).state = w[k].states[r]
         /\ \A r \in DOMAIN w[k].states : Entry(w[k], r).seq \in 1..w[k].version
<1>1. k \in Keys /\ Shape(k, w[k])
  BY DEF RowsOK
<1>2. Len(k.path) \in Nat
  <2>1. k.path \in Seq(StateNames)
    BY <1>1 DEF Keys
  <2>2. QED
    BY <2>1
<1>3. InstanceOK(k, w[k].instance)
  BY <1>1 DEF Shape
<1>4. QED
  BY <1>1, <1>2, <1>3, StatusIs DEF Shape

\* A managed row lies in its owner's compound state.
LEMMA LinkIs ==
  ASSUME NEW w, RowsOK(w), NEW k \in DOMAIN w, w[k].instance # NotManaged
  PROVE  LET link == w[k].instance.link
         IN /\ link.owner \in Keys /\ link.owner # k
            /\ link.region \in Regs(link.owner)
            /\ IsCompound(link.owner, link.region, link.state)
            /\ k = ChildKey(link.owner, link.region, link.state)
            /\ Len(link.owner.path) \in Nat /\ Len(k.path) = Len(link.owner.path) + 1
BY RowIs, InstanceIs DEF Shape

\* And its owner is in one state and region with it only.
LEMMA LinkIsUnique ==
  ASSUME NEW w, RowsOK(w), NEW k \in DOMAIN w, w[k].instance # NotManaged,
         NEW r, NEW s, IsCompound(w[k].instance.link.owner, r, s),
         k = ChildKey(w[k].instance.link.owner, r, s)
  PROVE  r = w[k].instance.link.region /\ s = w[k].instance.link.state
<1> DEFINE owner == w[k].instance.link.owner
           q == w[k].instance.link.region
           t == w[k].instance.link.state
<1>1. /\ owner \in Keys /\ IsCompound(owner, q, t) /\ k = ChildKey(owner, q, t)
      /\ IsCompound(owner, r, s) /\ k = ChildKey(owner, r, s)
  BY LinkIs
<1> HIDE DEF owner, q, t
<1>2. ChildKey(owner, r, s) = ChildKey(owner, q, t)
  BY <1>1
<1>3. s = t /\ r = q
  BY <1>1, <1>2, SameChild
<1>4. QED
  BY <1>3 DEF q, t

\* So the call that is for its place is for its link.
LEMMA LinkOfCall ==
  ASSUME NEW w, RowsOK(w), NEW k \in DOMAIN w, w[k].instance # NotManaged,
         NEW x, w[k].instance.link.owner = x.at,
         IsCompound(x.at, x.region, x.state), k = ChildKey(x.at, x.region, x.state)
  PROVE  w[k].instance.link.region = x.region /\ w[k].instance.link.state = x.state
<1>1. /\ IsCompound(w[k].instance.link.owner, x.region, x.state)
      /\ k = ChildKey(w[k].instance.link.owner, x.region, x.state)
  OBVIOUS
<1>2. QED
  BY <1>1, LinkIsUnique

\* A start or a visit stands on no cancellation; what runs is not yet complete.
LEMMA BelowStart ==
  ASSUME NEW x, x.op \in {"visit", "start"}, NEW R, \A y \in R : Above(x, y)
  PROVE  \A y \in R : y.op \in {"visit", "start", "complete"} /\ Len(y.at.path) <= Len(x.at.path)
<1>1. x.op \notin Asks /\ x.op # "end"
  BY DEF Asks
<1>2. QED
  BY <1>1 DEF Above, Descends

LEMMA BelowCancel ==
  ASSUME NEW x, x.op = "cancel", NEW R, \A y \in R : Above(x, y)
  PROVE  \A y \in R : y.op \in Descends \union {"complete"} /\ Len(y.at.path) <= Len(x.at.path)
<1>1. x.op \notin Asks
  BY DEF Asks
<1>2. QED
  BY <1>1 DEF Above

LEMMA BelowEnd ==
  ASSUME NEW x, x.op = "end", NEW R, \A y \in R : Above(x, y)
  PROVE  \A y \in R : y.op \in Descends \union {"complete"} /\ Len(y.at.path) < Len(x.at.path)
<1>1. x.op \notin Asks
  BY DEF Asks
<1>2. QED
  BY <1>1 DEF Above

\* A start in a state that is no compound state is over at once.
LEMMA SkippedStart ==
  ASSUME NEW w, NEW h, NEW x, NEW R, Coherent(w, h, {x} \union R), \A y \in R : Above(x, y),
         x.op = "start", ~ IsCompound(x.at, x.region, x.state)
  PROVE  Coherent(w, h, R)
<1> DEFINE C == {x} \union R
<1>1. Coherent(w, h, C) /\ x \in C /\ R \subseteq C /\ \A y \in C : y = x \/ y \in R
  OBVIOUS
<1>2. \A y \in R : y.op \in {"visit", "start", "complete"}
  BY BelowStart
<1> HIDE DEF C
<1>3. StartOK(x, w)
  BY <1>1 DEF Coherent, CallsOK, CallOK
<1>4. CallsOK(w, R)
  BY <1>1, <1>2 DEF Coherent, CallsOK, CallOK
<1>5. BelongOK(w, R)
  <2>1. \A k \in DOMAIN w : Ending(w, C, k) => Ending(w, R, k)
    BY <1>1 DEF Ending
  <2>2. QED
    BY <1>1, <2>1 DEF Coherent, BelongOK
<1>6. HaveOK(w, R)
  <2>1. ASSUME NEW k \in DOMAIN w, Live(w[k]), NEW r \in DOMAIN w[k].states, IsCompound(k, r, w[k].states[r])
        PROVE  HasChild(w, R, k, r) \/ Awaiting(R, k, r)
    <3>1. HasChild(w, C, k, r) => HasChild(w, R, k, r)
      BY <1>1 DEF HasChild
    <3>2. ~ (x.at = k /\ x.region = r)
      BY <1>1, <1>3, <2>1, RowIs DEF Coherent, StartOK
    <3>3. Awaiting(C, k, r) => Awaiting(R, k, r)
      BY <1>1, <3>2 DEF Awaiting
    <3>4. QED
      BY <1>1, <2>1, <3>1, <3>3 DEF Coherent, HaveOK
  <2>2. QED
    BY <2>1 DEF HaveOK
<1>7. WinnerOK(w, h, R)
  <2>1. \A k \in DOMAIN w : Completed(w, h, C, k) => Completed(w, h, R, k)
    BY <1>1 DEF Completed
  <2>2. QED
    BY <1>1, <2>1 DEF Coherent, WinnerOK
<1>8. QED
  BY <1>1, <1>4, <1>5, <1>6, <1>7 DEF Coherent

\* A visit cancels the child of the region's old entry, and starts that of the
\* new one.
LEMMA Visited ==
  ASSUME NEW w, NEW h, NEW x, NEW R, Coherent(w, h, {x} \union R), \A y \in R : Above(x, y),
         x.op = "visit", NEW N, NEW changed \in BOOLEAN, changed <=> x.old.seq # x.new.seq,
         changed \/ x.ended <=> CancelCall(x.at, x.region, x.old.state) \in N,
         changed /\ ~ x.ended <=> StartCall(x.at, x.region, x.new.state, x.new.seq) \in N,
         \A y \in N : \/ y = CancelCall(x.at, x.region, x.old.state)
                      \/ y = StartCall(x.at, x.region, x.new.state, x.new.seq)
  PROVE  Coherent(w, h, N \union R)
<1> DEFINE C == {x} \union R
           D == N \union R
           gone == CancelCall(x.at, x.region, x.old.state)
           next == StartCall(x.at, x.region, x.new.state, x.new.seq)
<1>1. Coherent(w, h, C) /\ x \in C /\ \A y \in C : y = x \/ y \in R
  OBVIOUS
<1>2. \A y \in R : y.op \in {"visit", "start", "complete"}
  BY BelowStart
<1>3. /\ gone.op = "cancel" /\ gone.at = x.at /\ gone.region = x.region /\ gone.state = x.old.state
      /\ next.op = "start" /\ next.at = x.at /\ next.region = x.region
      /\ next.state = x.new.state /\ next.seq = x.new.seq
  BY DEF CancelCall, StartCall
<1>4. N \subseteq D /\ R \subseteq D /\ \A y \in D : y \in N \/ y \in R
  OBVIOUS
<1>5. /\ changed \/ x.ended <=> gone \in N
      /\ changed /\ ~ x.ended <=> next \in N
      /\ \A y \in N : y = gone \/ y = next
  OBVIOUS
<1> HIDE DEF C, D, gone, next
<1>6. VisitOK(x, w) /\ x.at \in DOMAIN w
  BY <1>1 DEF Coherent, CallsOK, CallOK
<1>7. CallsOK(w, D)
  <2>1. ASSUME NEW y \in R PROVE CallOK(y, w, D)
    BY <1>1, <1>2, <2>1 DEF Coherent, CallsOK, CallOK
  <2>2. ASSUME gone \in N PROVE CallOK(gone, w, D)
    <3>1. Leaving(w, D, x.at, x.region, x.old.state)
      <4>1. CASE x.ended
        BY <1>6, <4>1 DEF VisitOK, Leaving, Live
      <4>2. CASE ~ x.ended
        <5>1. next \in D
          BY <1>4, <1>5, <2>2, <4>2
        <5>2. QED
          BY <1>3, <5>1 DEF Leaving
      <4>3. QED
        BY <4>1, <4>2
    <3>2. CancelOK(gone, w, D)
      BY <1>3, <1>6, <3>1 DEF CancelOK, VisitOK
    <3>3. QED
      BY <1>3, <1>6, <3>2 DEF CallOK, Descends
  <2>3. ASSUME next \in N PROVE CallOK(next, w, D)
    <3>1. StartOK(next, w)
      BY <1>3, <1>5, <1>6, <2>3 DEF StartOK, VisitOK
    <3>2. QED
      BY <1>3, <1>6, <3>1 DEF CallOK, Descends
  <2>4. QED
    BY <1>4, <1>5, <2>1, <2>2, <2>3 DEF CallsOK
<1>8. BelongOK(w, D)
  <2>1. ASSUME NEW k \in DOMAIN w, Ending(w, C, k) PROVE Ending(w, D, k)
    <3> DEFINE link == w[k].instance.link
    <3>1. CASE /\ x.at = link.owner /\ x.region = link.region /\ x.old.state = link.state
               /\ x.old.seq # x.new.seq \/ x.ended
      <4>1. gone \in D
        BY <1>4, <1>5, <3>1
      <4>2. QED
        BY <1>3, <3>1, <4>1 DEF Ending
    <3>2. CASE ~ (/\ x.at = link.owner /\ x.region = link.region /\ x.old.state = link.state
                  /\ x.old.seq # x.new.seq \/ x.ended)
      BY <1>1, <1>4, <2>1, <3>2 DEF Ending
    <3>3. QED
      BY <3>1, <3>2
  <2>2. QED
    BY <1>1, <2>1 DEF Coherent, BelongOK
<1>9. HaveOK(w, D)
  <2>1. ASSUME NEW k \in DOMAIN w, Live(w[k]), NEW r \in DOMAIN w[k].states, Awaiting(C, k, r)
        PROVE  Awaiting(D, k, r)
    <3>1. CASE x.at = k /\ x.region = r /\ x.old.seq # x.new.seq
      <4>1. ~ x.ended
        BY <1>6, <2>1, <3>1 DEF VisitOK, Live
      <4>2. next \in D
        BY <1>4, <1>5, <3>1, <4>1
      <4>3. QED
        BY <1>3, <3>1, <4>2 DEF Awaiting
    <3>2. CASE ~ (x.at = k /\ x.region = r /\ x.old.seq # x.new.seq)
      BY <1>1, <1>4, <2>1, <3>2 DEF Awaiting
    <3>3. QED
      BY <3>1, <3>2
  <2>2. \A k, r : HasChild(w, C, k, r) => HasChild(w, D, k, r)
    BY <1>1, <1>4 DEF HasChild
  <2>3. QED
    BY <1>1, <2>1, <2>2 DEF Coherent, HaveOK
<1>10. WinnerOK(w, h, D)
  <2>1. \A y \in D : y.op = "complete" => y \in C
    BY <1>3, <1>4, <1>5 DEF C
  <2>2. \A y \in C : y.op = "complete" => y \in D
    BY <1>1, <1>4
  <2>3. \A k \in DOMAIN w : Completed(w, h, C, k) => Completed(w, h, D, k)
    BY <2>1, <2>2 DEF Completed
  <2>4. QED
    BY <1>1, <2>3 DEF Coherent, WinnerOK
<1>11. QED
  BY <1>1, <1>7, <1>8, <1>9, <1>10 DEF Coherent, D

-----------------------------------------------------------------------------
(* Steps that write.                                                       *)

\* What the key of a row says of its entity.
LEMMA KeyKinds ==
  ASSUME NEW row, NEW e, KeyOK(row, e)
  PROVE  /\ row.key.kind = "evt" => row.key = EventIdentity(row.type, row.ts)
         /\ row.key.kind = "timeout" => Older(e, row.key.name, row.key.n)
         /\ row.key.kind = "join" => row.key.n \in 0..e.version
         /\ row.key.kind = "sub" => Older(e, row.key.name, row.key.n)
         /\ row.key.kind = "cancel" => /\ e.instance.status = "cancelled"
                                       /\ row.key = CancelIdentity(e.instance.link.seq)
<1>1. \A type, ts, n : EventIdentity(type, ts).kind = "evt" /\ CancelIdentity(n).kind = "cancel"
  BY DEF EventIdentity, CancelIdentity
<1>2. CASE row.key = EventIdentity(row.type, row.ts)
  BY <1>1, <1>2
<1>3. CASE row.key.kind = "timeout" /\ Older(e, row.key.name, row.key.n)
  BY <1>3
<1>4. CASE row.key.kind = "join" /\ row.key.n \in 0..e.version
  BY <1>4
<1>5. CASE row.key.kind = "sub" /\ Older(e, row.key.name, row.key.n)
  BY <1>5
<1>6. CASE e.instance.status = "cancelled" /\ row.key = CancelIdentity(e.instance.link.seq)
  BY <1>1, <1>6
<1>7. QED
  BY <1>2, <1>3, <1>4, <1>5, <1>6 DEF KeyOK

\* A new row, of a created root or of a started child: its own states' children
\* are still to be started.
LEMMA Inserted ==
  ASSUME NEW w, NEW h, NEW x, NEW R, Coherent(w, h, {x} \union R), \A y \in R : Above(x, y),
         NEW k \in Keys, k \notin DOMAIN w, NEW instance, InstanceOK(k, instance),
         \/ x.op = "create" /\ instance = NotManaged
         \/ /\ x.op = "start" /\ instance.status = "active" /\ instance # NotManaged
            /\ IsCompound(x.at, x.region, x.state) /\ k = ChildKey(x.at, x.region, x.state)
            /\ instance.link = [owner |-> x.at, region |-> x.region, state |-> x.state, seq |-> x.seq],
         NEW N, \A r \in Regs(k) : StartCall(k, r, Defs[k.machine].initial[r], 1) \in N,
         \A y \in N : \E r \in Regs(k) : y = StartCall(k, r, Defs[k.machine].initial[r], 1)
  PROVE  Coherent(Insert(w, k, NewEntity(k, instance)), h, N \union R)
<1> DEFINE C == {x} \union R
           D == N \union R
           e == NewEntity(k, instance)
           v == Insert(w, k, e)
           call(r) == StartCall(k, r, Defs[k.machine].initial[r], 1)
           link == instance.link
<1>1. Coherent(w, h, C) /\ x \in C /\ \A y \in C : y = x \/ y \in R
  OBVIOUS
<1>2. N \subseteq D /\ R \subseteq D /\ \A y \in D : y \in N \/ y \in R
  OBVIOUS
<1>3. \A r \in Regs(k) : /\ call(r) \in N /\ call(r).op = "start" /\ call(r).at = k /\ call(r).region = r
                         /\ call(r).state = Defs[k.machine].initial[r] /\ call(r).seq = 1
  BY DEF StartCall
<1>4. \A y \in N : \E r \in Regs(k) : y = call(r)
  OBVIOUS
<1>5. /\ Shape(k, e) /\ e.instance = instance /\ e.version = 1
      /\ e.states = Defs[k.machine].initial
      /\ \A r \in Regs(k) : Entry(e, r).state = Defs[k.machine].initial[r] /\ Entry(e, r).seq = 1
  BY NewRowShape
<1>6. DOMAIN v = DOMAIN w \union {k} /\ v[k] = e /\ \A j \in DOMAIN w : v[j] = w[j]
  BY DEF Insert
<1> HIDE DEF C, D, e, v, call
<1>7. \A y \in R : y.op \in {"visit", "start", "complete"}
  <2>1. CASE x.op = "start"
    BY <2>1, BelowStart
  <2>2. CASE x.op = "create"
    BY <2>2 DEF Above, Asks, Descends
  <2>3. QED
    BY <2>1, <2>2
<1>8. RowsOK(w) /\ KeysOK(w, h)
  BY <1>1 DEF Coherent
<1>9. \A y \in D : y.op \in {"visit", "start", "complete"}
  <2>1. \A y \in N : y.op = "start"
    BY <1>3, <1>4
  <2>2. QED
    BY <1>2, <1>7, <2>1
<1>10. Live(e)
  <2>1. NotManaged.status = "none"
    BY DEF NotManaged
  <2>2. QED
    BY <1>5, <2>1 DEF Live
<1>11. x.op = "start" => x.at \in DOMAIN w /\ StartOK(x, w)
  BY <1>1 DEF Coherent, CallsOK, CallOK
<1>12. x.op = "start" => /\ link.owner = x.at /\ link.region = x.region
                         /\ link.state = x.state /\ link.seq = x.seq
                         /\ instance # NotManaged /\ instance.status = "active"
                         /\ k = ChildKey(x.at, x.region, x.state)
  OBVIOUS
<1>13. x.op # "start" => x.op = "create" /\ instance = NotManaged
  OBVIOUS
<1> HIDE DEF link
<1>14. RowsOK(v)
  BY <1>5, <1>6, <1>8 DEF RowsOK
<1>15. KeysOK(v, h)
  BY <1>6, <1>8 DEF KeysOK
<1>16. CallsOK(v, D)
  <2>1. ASSUME NEW y \in R PROVE CallOK(y, v, D)
    <3>1. CallOK(y, w, C) /\ y.at \in DOMAIN w
      BY <1>1, <1>7, <2>1 DEF Coherent, CallsOK, CallOK, C
    <3>2. v[y.at] = w[y.at] /\ y.at \in DOMAIN v
      BY <1>6, <3>1
    <3>3. \A r, s : OwnChild(w, y.at, r, s) => OwnChild(v, y.at, r, s)
      BY <1>6 DEF OwnChild
    <3>4. y.op = "visit" => VisitOK(y, v)
      BY <3>1, <3>2, <3>3 DEF VisitOK, CallOK
    <3>5. y.op = "start" => StartOK(y, v)
      BY <3>1, <3>2 DEF StartOK, CallOK
    <3>6. y.op = "complete" => CompleteOK(y, v)
      BY <1>6, <3>1, <3>2 DEF CompleteOK, CallOK, Current
    <3>7. QED
      BY <1>7, <3>1, <3>2, <3>4, <3>5, <3>6 DEF CallOK
  <2>2. ASSUME NEW r \in Regs(k) PROVE CallOK(call(r), v, D)
    <3>1. StartOK(call(r), v)
      BY <1>3, <1>5, <1>6, <1>10 DEF StartOK, Shape
    <3>2. QED
      BY <1>3, <1>6, <3>1 DEF CallOK, Descends
  <2>3. QED
    BY <1>2, <1>4, <2>1, <2>2 DEF CallsOK
<1>17. BelongOK(v, D)
  <2>1. ASSUME NEW j \in DOMAIN w, w[j].instance.status = "active"
        PROVE  v[j].instance.link.owner \in DOMAIN v /\ (Current(v, j) \/ Ending(v, D, j))
    <3>1. w[j].instance.link.owner \in DOMAIN w /\ (Current(w, j) \/ Ending(w, C, j))
      BY <1>1, <2>1 DEF Coherent, BelongOK
    <3>2. v[j] = w[j] /\ v[w[j].instance.link.owner] = w[w[j].instance.link.owner]
      BY <1>6, <3>1
    <3>3. Current(w, j) => Current(v, j)
      BY <3>2 DEF Current
    <3>4. Ending(w, C, j) => Ending(v, D, j)
      BY <1>1, <1>2, <1>12, <1>13, <3>2 DEF Ending
    <3>5. QED
      BY <1>6, <3>1, <3>2, <3>3, <3>4
  <2>2. ASSUME v[k].instance.status = "active"
        PROVE  v[k].instance.link.owner \in DOMAIN v /\ Current(v, k)
    <3>1. x.op = "start"
      <4>1. NotManaged.status = "none"
        BY DEF NotManaged
      <4>2. QED
        BY <1>5, <1>6, <1>13, <2>2, <4>1
    <3>2. v[k].instance.link = link
      BY <1>5, <1>6 DEF link
    <3>3. x.at \in DOMAIN v /\ v[x.at] = w[x.at]
      BY <1>6, <1>11, <3>1
    <3>4. QED
      BY <1>11, <1>12, <3>1, <3>2, <3>3 DEF Current, StartOK
  <2>3. QED
    BY <1>6, <2>1, <2>2 DEF BelongOK
<1>18. HaveOK(v, D)
  <2>1. ASSUME NEW j \in DOMAIN w, Live(v[j]), NEW r \in DOMAIN v[j].states, IsCompound(j, r, v[j].states[r])
        PROVE  HasChild(v, D, j, r) \/ Awaiting(D, j, r)
    <3>1. v[j] = w[j]
      BY <1>6
    <3>2. HasChild(w, C, j, r) \/ Awaiting(C, j, r)
      BY <1>1, <2>1, <3>1 DEF Coherent, HaveOK
    <3>3. HasChild(w, C, j, r) => HasChild(v, D, j, r)
      BY <1>1, <1>2, <1>6, <1>12, <1>13, <3>1 DEF HasChild
    <3>4. CASE x.op = "start" /\ x.at = j /\ x.region = r
      <4>1. x.state = w[j].states[r] /\ x.seq = Entry(w[j], r).seq
        BY <1>8, <1>11, <3>4, RowIs DEF StartOK
      <4>2. ChildKey(j, r, v[j].states[r]) = k
        BY <1>12, <3>1, <3>4, <4>1
      <4>3. v[k].instance.link = link
        BY <1>5, <1>6 DEF link
      <4>4. QED
        BY <1>5, <1>6, <1>12, <3>1, <3>4, <4>1, <4>2, <4>3 DEF HasChild
    <3>5. CASE ~ (x.op = "start" /\ x.at = j /\ x.region = r)
      <4>1. Awaiting(C, j, r) => Awaiting(D, j, r)
        BY <1>1, <1>2, <1>13, <3>5 DEF Awaiting
      <4>2. QED
        BY <3>2, <3>3, <4>1
    <3>6. QED
      BY <3>4, <3>5
  <2>2. \A r \in DOMAIN v[k].states : Awaiting(D, k, r)
    <3>1. DOMAIN v[k].states = Regs(k)
      BY <1>5, <1>6 DEF Shape
    <3>2. QED
      BY <1>2, <1>3, <3>1 DEF Awaiting
  <2>3. QED
    BY <1>6, <2>1, <2>2 DEF HaveOK
<1>19. WinnerOK(v, h, D)
  <2>1. \A y \in D : y.op = "complete" => y \in C
    BY <1>2, <1>3, <1>4 DEF C
  <2>2. \A y \in C : y.op = "complete" => y \in D
    BY <1>1, <1>2, <1>12, <1>13
  <2>3. ASSUME NEW j \in DOMAIN w, w[j].instance # NotManaged
        PROVE  Completed(v, h, D, j) /\ Cancelled(v, h, j)
    <3>1. v[j] = w[j]
      BY <1>6
    <3>2. Completed(w, h, C, j) /\ Cancelled(w, h, j)
      BY <1>1, <2>3 DEF Coherent, WinnerOK
    <3>3. QED
      BY <2>1, <2>2, <3>1, <3>2 DEF Completed, Cancelled
  <2>4. ASSUME instance # NotManaged PROVE Completed(v, h, D, k) /\ Cancelled(v, h, k)
    <3>1. x.op = "start"
      BY <1>13, <2>4
    <3>2. ~ Has(h, x.at, SubCompleteIdentity(x.region, x.state, x.seq))
      <4> SUFFICES ASSUME NEW i \in DOMAIN h, h[i].at = x.at,
                          h[i].key = SubCompleteIdentity(x.region, x.state, x.seq)
                   PROVE  FALSE
        BY DEF Has
      <4>1. h[i].key.kind = "sub" /\ h[i].key.name = x.region /\ h[i].key.n = x.seq
        BY DEF SubCompleteIdentity
      <4>2. KeyOK(h[i], w[x.at])
        BY <1>8 DEF KeysOK
      <4>3. Older(w[x.at], x.region, x.seq)
        BY <4>1, <4>2, KeyKinds
      <4>4. x.seq = Entry(w[x.at], x.region).seq /\ x.seq \in Nat
        BY <1>11, <3>1, <4>3 DEF StartOK, Older
      <4>5. QED
        BY <4>3, <4>4 DEF Older
    <3>3. \A key : ~ Has(h, k, key)
      BY <1>8 DEF Has, KeysOK
    <3>4. v[k].instance.link = link /\ v[k].instance.status = "active"
      BY <1>5, <1>6, <1>12, <3>1 DEF link
    <3>5. QED
      BY <1>12, <3>1, <3>2, <3>3, <3>4 DEF Completed, Cancelled
  <2>5. QED
    BY <1>5, <1>6, <2>3, <2>4 DEF WinnerOK
<1>20. ImmediateOK(v)
  <2>1. ASSUME NEW j \in DOMAIN w PROVE v[j] = w[j]
    BY <1>6
  <2>2. ~ (v[k].version > 1)
    BY <1>5, <1>6
  <2>3. QED
    BY <1>1, <1>6, <2>1, <2>2 DEF Coherent, ImmediateOK
<1>21. QED
  BY <1>14, <1>15, <1>16, <1>17, <1>18, <1>19, <1>20 DEF Coherent, v, D, e

\* The child of a state, if it is active.
LEMMA ActiveChildIs ==
  ASSUME NEW k, NEW r, NEW s, NEW child
  PROVE  child \in ActiveChild(k, r, s)
           <=> /\ IsCompound(k, r, s) /\ child = ChildKey(k, r, s)
               /\ child \in DOMAIN work /\ work[child].instance.status = "active"
BY DEF ActiveChild

\* A cancellation without an active child is over at once.
LEMMA NothingToCancel ==
  ASSUME NEW w, NEW h, NEW x, NEW R, Coherent(w, h, {x} \union R), \A y \in R : Above(x, y),
         x.op = "cancel",
         IsCompound(x.at, x.region, x.state) =>
           LET child == ChildKey(x.at, x.region, x.state)
           IN ~ (child \in DOMAIN w /\ w[child].instance.status = "active")
  PROVE  Coherent(w, h, R)
<1> DEFINE C == {x} \union R
<1>1. Coherent(w, h, C) /\ x \in C /\ R \subseteq C /\ \A y \in C : y = x \/ y \in R
  OBVIOUS
<1>2. \A y \in R : y.op \in Descends \union {"complete"}
  BY BelowCancel
<1> HIDE DEF C
<1>3. RowsOK(w)
  BY <1>1 DEF Coherent
<1>4. \A k, r, s : Leaving(w, C, k, r, s) => Leaving(w, R, k, r, s)
  BY <1>1 DEF Leaving
<1>5. CallsOK(w, R)
  <2>1. ASSUME NEW y \in R PROVE CallOK(y, w, R)
    <3>1. CallOK(y, w, C)
      BY <1>1 DEF Coherent, CallsOK
    <3>2. y.op = "cancel" => CancelOK(y, w, R)
      BY <1>4, <3>1 DEF CallOK, CancelOK
    <3>3. ASSUME y.op = "end" PROVE EndOK(y, w, R)
      <4>1. EndOK(y, w, C)
        BY <3>1, <3>3 DEF CallOK
      <4>2. ASSUME NEW r \in DOMAIN w[y.at].states, IsCompound(y.at, r, w[y.at].states[r]),
                   ChildKey(y.at, r, w[y.at].states[r]) \in DOMAIN w,
                   w[ChildKey(y.at, r, w[y.at].states[r])].instance.status = "active",
                   NEW z \in C, z.op = "cancel", z.at = y.at, z.region = r, z.state = w[y.at].states[r]
            PROVE  z \in R
        BY <1>1, <4>2
      <4>3. QED
        BY <1>1, <1>4, <4>1, <4>2 DEF EndOK
    <3>4. QED
      BY <3>1, <3>2, <3>3 DEF CallOK
  <2>2. QED
    BY <2>1 DEF CallsOK
<1>6. BelongOK(w, R)
  <2>1. ASSUME NEW k \in DOMAIN w, w[k].instance.status = "active", Ending(w, C, k)
        PROVE  Ending(w, R, k)
    <3> DEFINE link == w[k].instance.link
    <3>1. w[k].instance # NotManaged
      BY <1>3, <2>1, RowIs
    <3>2. IsCompound(link.owner, link.region, link.state) /\ k = ChildKey(link.owner, link.region, link.state)
      BY <1>3, <3>1, LinkIs
    <3>3. ~ (x.at = link.owner /\ x.region = link.region /\ x.state = link.state)
      BY <2>1, <3>2
    <3>4. QED
      BY <1>1, <2>1, <3>3 DEF Ending
  <2>2. QED
    BY <1>1, <2>1 DEF Coherent, BelongOK
<1>7. HaveOK(w, R)
  <2>1. \A k, r : HasChild(w, C, k, r) => HasChild(w, R, k, r)
    BY <1>1 DEF HasChild
  <2>2. \A k, r : Awaiting(C, k, r) => Awaiting(R, k, r)
    BY <1>1 DEF Awaiting
  <2>3. QED
    BY <1>1, <2>1, <2>2 DEF Coherent, HaveOK
<1>8. WinnerOK(w, h, R)
  <2>1. \A k \in DOMAIN w : Completed(w, h, C, k) => Completed(w, h, R, k)
    BY <1>1 DEF Completed
  <2>2. QED
    BY <1>1, <2>1 DEF Coherent, WinnerOK
<1>9. QED
  BY <1>1, <1>5, <1>6, <1>7, <1>8 DEF Coherent

\* A child is cancelled after its own children.
LEMMA ToCancel ==
  ASSUME NEW w, NEW h, NEW x, NEW R, Coherent(w, h, {x} \union R), \A y \in R : Above(x, y),
         x.op = "cancel", IsCompound(x.at, x.region, x.state),
         NEW k \in DOMAIN w, k = ChildKey(x.at, x.region, x.state), w[k].instance.status = "active",
         NEW N, EndCall(k) \in N, \A r \in Regs(k) : CancelCall(k, r, w[k].states[r]) \in N,
         \A y \in N : y = EndCall(k) \/ \E r \in Regs(k) : y = CancelCall(k, r, w[k].states[r])
  PROVE  Coherent(w, h, N \union R)
<1> DEFINE C == {x} \union R
           D == N \union R
           call(r) == CancelCall(k, r, w[k].states[r])
           end == EndCall(k)
<1>1. Coherent(w, h, C) /\ x \in C /\ \A y \in C : y = x \/ y \in R
  OBVIOUS
<1>2. N \subseteq D /\ R \subseteq D /\ \A y \in D : y \in N \/ y \in R
  OBVIOUS
<1>3. \A r \in Regs(k) : /\ call(r) \in N /\ call(r).op = "cancel" /\ call(r).at = k /\ call(r).region = r
                         /\ call(r).state = w[k].states[r]
  BY DEF CancelCall
<1>4. end \in N /\ end.op = "end" /\ end.at = k
  BY DEF EndCall
<1>5. \A y \in N : y = end \/ \E r \in Regs(k) : y = call(r)
  OBVIOUS
<1>6. \A y \in R : y.op \in Descends \union {"complete"} /\ Len(y.at.path) <= Len(x.at.path)
  BY BelowCancel
<1> HIDE DEF C, D, call, end
<1>7. RowsOK(w) /\ CancelOK(x, w, C) /\ x.at \in DOMAIN w
  BY <1>1 DEF Coherent, CallsOK, CallOK
<1>8. /\ w[k].instance # NotManaged /\ w[k].instance.link.owner = x.at
      /\ w[k].instance.link.region = x.region /\ w[k].instance.link.state = x.state
      /\ Len(x.at.path) \in Nat /\ Len(k.path) = Len(x.at.path) + 1
  <2>1. w[k].instance # NotManaged /\ w[k].instance.link.owner = x.at
    BY <1>7 DEF CancelOK, OwnChild
  <2>2. w[k].instance.link.region = x.region /\ w[k].instance.link.state = x.state
    BY <1>7, <2>1, LinkOfCall
  <2>3. QED
    BY <1>7, <2>1, <2>2, LinkIs
<1>9. \A y \in C : y.at # k
  <2>1. x.at # k
    BY <1>7, <1>8, LinkIs
  <2>2. ASSUME NEW y \in R, y.at = k PROVE FALSE
    <3>1. Len(k.path) <= Len(x.at.path)
      BY <1>6, <2>2
    <3>2. QED
      BY <1>8, <3>1
  <2>3. QED
    BY <1>1, <2>1, <2>2
<1>10. \A y \in N : y.op # "complete" /\ y.op # "start" /\ y.op # "visit"
  BY <1>3, <1>4, <1>5
<1>11. ASSUME NEW j, NEW r, NEW s, Leaving(w, C, j, r, s) PROVE Leaving(w, D, j, r, s)
  BY <1>1, <1>2, <1>11 DEF Leaving
<1>12. \A r \in Regs(k) : OwnChild(w, k, r, w[k].states[r])
  <2> SUFFICES ASSUME NEW r \in Regs(k), IsCompound(k, r, w[k].states[r])
               PROVE  OwnChild(w, k, r, w[k].states[r])
    BY DEF OwnChild
  <2>1. Live(w[k]) /\ r \in DOMAIN w[k].states
    BY <1>7, RowIs DEF Live
  <2>2. HasChild(w, C, k, r) \/ Awaiting(C, k, r)
    BY <1>1, <2>1 DEF Coherent, HaveOK
  <2>3. ~ Awaiting(C, k, r)
    BY <1>9 DEF Awaiting
  <2>4. QED
    BY <2>2, <2>3 DEF HasChild, OwnChild
<1>13. CallsOK(w, D)
  <2>1. ASSUME NEW y \in R PROVE CallOK(y, w, D)
    <3>1. CallOK(y, w, C)
      BY <1>1 DEF Coherent, CallsOK, C
    <3>2. y.op = "cancel" => CancelOK(y, w, D)
      BY <1>11, <3>1 DEF CallOK, CancelOK
    <3>3. ASSUME y.op = "end" PROVE EndOK(y, w, D)
      <4>1. EndOK(y, w, C)
        BY <3>1, <3>3 DEF CallOK
      <4>2. ASSUME NEW r \in DOMAIN w[y.at].states, IsCompound(y.at, r, w[y.at].states[r]),
                   ChildKey(y.at, r, w[y.at].states[r]) \in DOMAIN w,
                   w[ChildKey(y.at, r, w[y.at].states[r])].instance.status = "active"
            PROVE  \/ \E z \in D : z.op = "cancel" /\ z.at = y.at /\ z.region = r /\ z.state = w[y.at].states[r]
                   \/ \E z \in D : z.op = "end" /\ z.at = ChildKey(y.at, r, w[y.at].states[r])
        <5>1. CASE x.at = y.at /\ x.region = r /\ x.state = w[y.at].states[r]
          <6>1. end \in D /\ end.at = ChildKey(y.at, r, w[y.at].states[r])
            BY <1>2, <1>4, <5>1
          <6>2. QED
            BY <1>4, <6>1
        <5>2. CASE ~ (x.at = y.at /\ x.region = r /\ x.state = w[y.at].states[r])
          <6>1. \/ \E z \in C : z.op = "cancel" /\ z.at = y.at /\ z.region = r /\ z.state = w[y.at].states[r]
                \/ \E z \in C : z.op = "end" /\ z.at = ChildKey(y.at, r, w[y.at].states[r])
            BY <4>1, <4>2 DEF EndOK
          <6>2. QED
            BY <1>1, <1>2, <5>2, <6>1
        <5>3. QED
          BY <5>1, <5>2
      <4>3. QED
        BY <1>11, <4>1, <4>2 DEF EndOK
    <3>4. QED
      BY <3>1, <3>2, <3>3 DEF CallOK
  <2>2. ASSUME NEW r \in Regs(k) PROVE CallOK(call(r), w, D)
    <3>1. Leaving(w, D, k, r, w[k].states[r])
      BY <1>2, <1>4 DEF Leaving
    <3>2. r \in DOMAIN w[k].states
      BY <1>7, RowIs
    <3>3. CancelOK(call(r), w, D)
      BY <1>3, <1>12, <3>1, <3>2 DEF CancelOK
    <3>4. QED
      BY <1>3, <3>3 DEF CallOK, Descends
  <2>3. CallOK(end, w, D)
    <3>1. Leaving(w, D, x.at, x.region, x.state)
      BY <1>7, <1>11 DEF CancelOK
    <3>2. \A r \in DOMAIN w[k].states :
            \E y \in D : y.op = "cancel" /\ y.at = k /\ y.region = r /\ y.state = w[k].states[r]
      <4>1. DOMAIN w[k].states = Regs(k)
        BY <1>7, RowIs
      <4>2. QED
        BY <1>2, <1>3, <4>1
    <3>3. EndOK(end, w, D)
      BY <1>4, <1>8, <3>1, <3>2 DEF EndOK
    <3>4. QED
      BY <1>4, <3>3 DEF CallOK, Descends
  <2>4. QED
    BY <1>2, <1>5, <2>1, <2>2, <2>3 DEF CallsOK
<1>14. BelongOK(w, D)
  <2>1. ASSUME NEW j \in DOMAIN w, w[j].instance.status = "active", Ending(w, C, j)
        PROVE  Ending(w, D, j)
    <3> DEFINE link == w[j].instance.link
    <3>1. CASE x.at = link.owner /\ x.region = link.region /\ x.state = link.state
      <4>1. w[j].instance # NotManaged
        BY <1>7, <2>1, RowIs
      <4>2. j = ChildKey(link.owner, link.region, link.state)
        BY <1>7, <4>1, LinkIs
      <4>3. j = k
        BY <3>1, <4>2
      <4>4. QED
        BY <1>2, <1>4, <4>3 DEF Ending
    <3>2. CASE ~ (x.at = link.owner /\ x.region = link.region /\ x.state = link.state)
      BY <1>1, <1>2, <2>1, <3>2 DEF Ending
    <3>3. QED
      BY <3>1, <3>2
  <2>2. QED
    BY <1>1, <2>1 DEF Coherent, BelongOK
<1>15. HaveOK(w, D)
  <2>1. \A j, r : HasChild(w, C, j, r) => HasChild(w, D, j, r)
    BY <1>1, <1>2 DEF HasChild
  <2>2. \A j, r : Awaiting(C, j, r) => Awaiting(D, j, r)
    BY <1>1, <1>2 DEF Awaiting
  <2>3. QED
    BY <1>1, <2>1, <2>2 DEF Coherent, HaveOK
<1>16. WinnerOK(w, h, D)
  <2>1. \A y \in D : y.op = "complete" => y \in C
    BY <1>2, <1>10 DEF C
  <2>2. \A y \in C : y.op = "complete" => y \in D
    BY <1>1, <1>2
  <2>3. \A j \in DOMAIN w : Completed(w, h, C, j) => Completed(w, h, D, j)
    BY <2>1, <2>2 DEF Completed
  <2>4. QED
    BY <1>1, <2>3 DEF Coherent, WinnerOK
<1>17. QED
  BY <1>1, <1>13, <1>14, <1>15, <1>16 DEF Coherent, D

\* The rows of a longer history are the old ones and the new ones.
Longer(h, new, g) ==
  /\ IsSeq(g)
  /\ \A i \in DOMAIN g : \/ \E j \in DOMAIN h : g[i] = h[j]
                         \/ \E j \in DOMAIN new : g[i] = new[j]
  /\ \A j \in DOMAIN h : \E i \in DOMAIN g : g[i] = h[j]
  /\ \A j \in DOMAIN new : \E i \in DOMAIN g : g[i] = new[j]

LEMMA HistoryGrows ==
  ASSUME NEW h, NEW new, IsSeq(h), IsSeq(new)
  PROVE  Longer(h, new, h \o new)
<1> DEFINE g == h \o new
<1>1. /\ Len(h) \in Nat /\ DOMAIN h = 1..Len(h)
      /\ Len(new) \in Nat /\ DOMAIN new = 1..Len(new)
  BY SeqDomain
<1>2. /\ Len(g) = Len(h) + Len(new) /\ IsSeq(g)
      /\ \A i \in 1..Len(h) : g[i] = h[i]
      /\ \A i \in 1..Len(new) : g[Len(h) + i] = new[i]
  BY ConcatIsSeq
<1>3. DOMAIN g = 1..(Len(h) + Len(new))
  BY <1>2, SeqDomain
<1> HIDE DEF g
<1>4. ASSUME NEW i \in DOMAIN g
      PROVE  (\E j \in DOMAIN h : g[i] = h[j]) \/ (\E j \in DOMAIN new : g[i] = new[j])
  <2>1. CASE i <= Len(h)
    BY <1>1, <1>2, <1>3, <2>1
  <2>2. CASE i > Len(h)
    <3>1. i - Len(h) \in 1..Len(new) /\ Len(h) + (i - Len(h)) = i
      BY <1>1, <1>3, <2>2
    <3>2. g[i] = new[i - Len(h)]
      BY <1>2, <3>1
    <3>3. QED
      BY <1>1, <3>1, <3>2
  <2>3. QED
    BY <1>1, <1>3, <2>1, <2>2
<1>5. \A j \in DOMAIN h : j \in DOMAIN g /\ g[j] = h[j]
  BY <1>1, <1>2, <1>3
<1>6. \A j \in DOMAIN new : Len(h) + j \in DOMAIN g /\ g[Len(h) + j] = new[j]
  BY <1>1, <1>2, <1>3
<1>7. Longer(h, new, g)
  BY <1>2, <1>4, <1>5, <1>6 DEF Longer
<1>8. QED
  BY <1>7 DEF g

\* A newer row of an entity keeps the keys of its history behind it.
LEMMA KeysStay ==
  ASSUME NEW k, NEW e, Shape(k, e), NEW e2, Shape(k, e2), DOMAIN e2.states = DOMAIN e.states,
         e.version <= e2.version, e.instance.status # "cancelled",
         \A r \in DOMAIN e.states : Entry(e, r).seq <= Entry(e2, r).seq,
         NEW row, KeyOK(row, e)
  PROVE  KeyOK(row, e2)
<1>1. \A r \in DOMAIN e.states : Entry(e, r).seq \in Nat /\ Entry(e2, r).seq \in Nat
  BY DEF Shape
<1>2. \A r, n : Older(e, r, n) => Older(e2, r, n)
  BY <1>1 DEF Older
<1>3. e.version \in Nat /\ e2.version \in Nat
  BY DEF Shape
<1>4. \A n : n \in 0..e.version => n \in 0..e2.version
  BY <1>3
<1>5. CASE row.key = EventIdentity(row.type, row.ts)
  BY <1>5 DEF KeyOK
<1>6. CASE /\ row.key.kind = "timeout" /\ row.key = TimeoutIdentity(row.key.name, row.key.n)
           /\ Older(e, row.key.name, row.key.n)
  BY <1>2, <1>6 DEF KeyOK
<1>7. CASE /\ row.key.kind = "join" /\ row.key = JoinIdentity(row.key.name, row.key.n, row.key.step)
           /\ row.key.n \in 0..e.version
  BY <1>4, <1>7 DEF KeyOK
<1>8. CASE /\ row.key.kind = "sub" /\ row.key = SubCompleteIdentity(row.key.name, row.key.state, row.key.n)
           /\ Older(e, row.key.name, row.key.n)
  BY <1>2, <1>8 DEF KeyOK
<1>9. QED
  BY <1>5, <1>6, <1>7, <1>8 DEF KeyOK

\* An instance that is cancelled, once its children are.
LEMMA Ended ==
  ASSUME NEW w, NEW h, NEW x, NEW R, Coherent(w, h, {x} \union R), \A y \in R : Above(x, y),
         x.op = "end",
         NEW v, DOMAIN v = DOMAIN w, \A j \in DOMAIN w : j # x.at => v[j] = w[j],
         Shape(x.at, v[x.at]), v[x.at].states = w[x.at].states, v[x.at].version = w[x.at].version + 1,
         \A r \in DOMAIN w[x.at].states : Entry(v[x.at], r) = Entry(w[x.at], r),
         v[x.at].instance.status = "cancelled", v[x.at].instance.link = w[x.at].instance.link,
         NEW g, IsSeq(g),
         \A i \in DOMAIN g : \/ \E j \in DOMAIN h : g[i] = h[j]
                             \/ g[i].at = x.at /\ g[i].key = CancelIdentity(w[x.at].instance.link.seq),
         \A j \in DOMAIN h : \E i \in DOMAIN g : g[i] = h[j],
         Has(g, x.at, CancelIdentity(w[x.at].instance.link.seq))
  PROVE  Coherent(v, g, R)
<1> DEFINE C == {x} \union R
           k == x.at
           key == CancelIdentity(w[k].instance.link.seq)
<1>1. Coherent(w, h, C) /\ x \in C /\ R \subseteq C /\ \A y \in C : y = x \/ y \in R
  OBVIOUS
<1>2. \A y \in R : y.op \in Descends \union {"complete"} /\ Len(y.at.path) < Len(k.path)
  BY BelowEnd
<1>3. /\ \A j \in DOMAIN w : j # k => v[j] = w[j]
      /\ Shape(k, v[k]) /\ v[k].states = w[k].states /\ v[k].version = w[k].version + 1
      /\ \A r \in DOMAIN w[k].states : Entry(v[k], r) = Entry(w[k], r)
      /\ v[k].instance.status = "cancelled" /\ v[k].instance.link = w[k].instance.link
  OBVIOUS
<1>4. /\ \A i \in DOMAIN g : (\E j \in DOMAIN h : g[i] = h[j]) \/ (g[i].at = k /\ g[i].key = key)
      /\ Has(g, k, key)
  OBVIOUS
<1> HIDE DEF C, k, key
<1>5. /\ RowsOK(w) /\ KeysOK(w, h) /\ k \in DOMAIN w /\ EndOK(x, w, C)
      /\ x.op = "end" /\ x.at = k
  BY <1>1 DEF Coherent, CallsOK, CallOK, k
<1>6. /\ w[k].instance.status = "active" /\ w[k].instance # NotManaged
      /\ k \in Keys /\ Shape(k, w[k]) /\ Len(k.path) \in Nat
  BY <1>5, RowIs DEF EndOK
<1>7. v[k].instance # NotManaged
  BY <1>3 DEF NotManaged
<1>8. ASSUME NEW y \in R PROVE y.at # k
  BY <1>2, <1>6
<1>9. \A j \in DOMAIN w : j \in Keys /\ Len(j.path) \in Nat
  BY <1>5, RowIs
\* The only child that could be left behind is gone.
<1>10. ASSUME NEW j \in DOMAIN w, w[j].instance.status = "active", w[j].instance.link.owner = k PROVE FALSE
  <2> DEFINE r == w[j].instance.link.region
             s == w[j].instance.link.state
  <2>1. w[j].instance # NotManaged
    BY <1>5, <1>10, RowIs
  <2>2. /\ r \in Regs(k) /\ IsCompound(k, r, s) /\ j = ChildKey(k, r, s)
        /\ Len(j.path) = Len(k.path) + 1 /\ j # k
    BY <1>5, <1>10, <2>1, LinkIs
  <2>3. Current(w, j) \/ Ending(w, C, j)
    BY <1>1, <1>10 DEF Coherent, BelongOK
  <2>4. ~ \E y \in C : y.op = "end" /\ y.at = j
    <3>1. x.at # j
      BY <1>5, <2>2
    <3>2. ASSUME NEW y \in R, y.at = j PROVE FALSE
      BY <1>2, <1>6, <2>2, <3>2
    <3>3. QED
      BY <1>1, <3>1, <3>2
  <2>5. ~ \E y \in C : y.at = k /\ y.op \in {"visit", "cancel"}
    BY <1>1, <1>5, <1>8
  <2>6. ~ Ending(w, C, j)
    BY <1>10, <2>4, <2>5 DEF Ending
  <2>7. w[k].states[r] = s /\ r \in DOMAIN w[k].states
    BY <1>5, <1>10, <2>2, <2>3, <2>6, RowIs DEF Current
  <2>8. \/ \E y \in C : y.op = "cancel" /\ y.at = k /\ y.region = r /\ y.state = w[k].states[r]
        \/ \E y \in C : y.op = "end" /\ y.at = j
    BY <1>5, <1>10, <2>2, <2>7 DEF EndOK
  <2>9. QED
    BY <2>4, <2>5, <2>8
<1>11. ASSUME NEW j, j \in DOMAIN w, j # k, NEW r, NEW s, Leaving(w, C, j, r, s) PROVE Leaving(v, R, j, r, s)
  BY <1>1, <1>3, <1>5, <1>11 DEF Leaving
<1>12. RowsOK(v)
  <2>1. ASSUME NEW j \in DOMAIN w PROVE Shape(j, v[j])
    BY <1>3, <1>5, RowIs
  <2>2. QED
    BY <1>9, <2>1 DEF RowsOK
<1>13. KeysOK(v, g)
  <2>1. ASSUME NEW i \in DOMAIN h PROVE h[i].at \in DOMAIN v /\ KeyOK(h[i], v[h[i].at])
    <3>1. h[i].at \in DOMAIN w /\ KeyOK(h[i], w[h[i].at])
      BY <1>5 DEF KeysOK
    <3>2. CASE h[i].at # k
      BY <1>3, <3>1, <3>2
    <3>3. CASE h[i].at = k
      <4>1. /\ w[k].version <= v[k].version
            /\ \A r \in DOMAIN w[k].states : Entry(w[k], r).seq <= Entry(v[k], r).seq
        BY <1>3, <1>6 DEF Shape
      <4>2. KeyOK(h[i], w[k])
        BY <3>1, <3>3
      <4>3. KeyOK(h[i], v[k])
        BY <1>3, <1>6, <4>1, <4>2, KeysStay
      <4>4. QED
        BY <3>1, <3>3, <4>3
    <3>4. QED
      BY <3>2, <3>3
  <2>2. ASSUME NEW i \in DOMAIN g, g[i].at = k, g[i].key = key PROVE KeyOK(g[i], v[k])
    BY <1>3, <2>2 DEF KeyOK, key
  <2>3. QED
    BY <1>4, <1>5, <2>1, <2>2 DEF KeysOK
<1>14. CallsOK(v, R)
  <2>1. ASSUME NEW y \in R PROVE CallOK(y, v, R)
    <3>1. CallOK(y, w, C) /\ y.at \in DOMAIN w /\ y.at # k
      BY <1>1, <1>2, <1>8 DEF Coherent, CallsOK, CallOK, Descends
    <3>2. v[y.at] = w[y.at] /\ y.at \in DOMAIN v
      BY <1>3, <3>1
    <3>3. \A r, s : OwnChild(w, y.at, r, s) => OwnChild(v, y.at, r, s)
      BY <1>3, <1>7 DEF OwnChild
    <3>4. ASSUME w[y.at].instance # NotManaged PROVE w[y.at].instance.link.owner # k
      <4>1. Len(y.at.path) = Len(w[y.at].instance.link.owner.path) + 1
        BY <1>5, <3>1, <3>4, LinkIs
      <4>2. Len(y.at.path) < Len(k.path) /\ Len(y.at.path) \in Nat
        BY <1>2, <1>9, <3>1
      <4>3. Len(w[y.at].instance.link.owner.path) \in Nat
        BY <1>5, <3>1, <3>4, LinkIs
      <4>4. QED
        BY <1>6, <4>1, <4>2, <4>3
    <3>5. y.op = "visit" => VisitOK(y, v)
      BY <3>1, <3>2, <3>3 DEF VisitOK, CallOK
    <3>6. y.op = "start" => StartOK(y, v)
      BY <3>1, <3>2 DEF StartOK, CallOK
    <3>7. y.op = "cancel" => CancelOK(y, v, R)
      BY <1>11, <3>1, <3>2, <3>3 DEF CancelOK, CallOK
    <3>8. ASSUME y.op = "complete" PROVE CompleteOK(y, v)
      <4>1. CompleteOK(y, w)
        BY <3>1, <3>8 DEF CallOK
      <4>2. w[y.at].instance # NotManaged
        BY <4>1 DEF CompleteOK, NotManaged
      <4>3. v[w[y.at].instance.link.owner] = w[w[y.at].instance.link.owner]
        BY <1>3, <3>4, <4>1, <4>2 DEF CompleteOK
      <4>4. QED
        BY <3>2, <4>1, <4>3 DEF CompleteOK, Current
    <3>9. ASSUME y.op = "end" PROVE EndOK(y, v, R)
      <4> DEFINE link == w[y.at].instance.link
      <4>1. EndOK(y, w, C)
        BY <3>1, <3>9 DEF CallOK
      <4>2. w[y.at].instance.status = "active" /\ w[y.at].instance # NotManaged
        BY <4>1 DEF EndOK, NotManaged
      <4>3. link.owner \in DOMAIN w /\ link.owner # k
        BY <1>1, <3>1, <3>4, <4>2 DEF Coherent, BelongOK
      <4>4. Leaving(w, C, link.owner, link.region, link.state)
        BY <4>1 DEF EndOK
      <4>5. Leaving(v, R, link.owner, link.region, link.state)
        BY <1>11, <4>3, <4>4
      <4>6. ASSUME NEW r \in DOMAIN v[y.at].states, IsCompound(y.at, r, v[y.at].states[r]),
                   ChildKey(y.at, r, v[y.at].states[r]) \in DOMAIN v,
                   v[ChildKey(y.at, r, v[y.at].states[r])].instance.status = "active"
            PROVE  \/ \E z \in R : z.op = "cancel" /\ z.at = y.at /\ z.region = r /\ z.state = v[y.at].states[r]
                   \/ \E z \in R : z.op = "end" /\ z.at = ChildKey(y.at, r, v[y.at].states[r])
        <5> DEFINE child == ChildKey(y.at, r, w[y.at].states[r])
        <5>1. IsCompound(y.at, r, w[y.at].states[r]) /\ child \in DOMAIN w /\ v[child].instance.status = "active"
          BY <3>2, <4>6
        <5>2. child # k
          BY <1>3, <5>1
        <5>3. w[child].instance.status = "active"
          BY <1>3, <5>1, <5>2
        <5>4. \/ \E z \in C : z.op = "cancel" /\ z.at = y.at /\ z.region = r /\ z.state = w[y.at].states[r]
              \/ \E z \in C : z.op = "end" /\ z.at = child
          BY <3>2, <4>1, <4>6, <5>1, <5>3 DEF EndOK
        <5>5. x.at # child
          BY <1>5, <5>2
        <5>6. QED
          BY <1>1, <1>5, <3>2, <5>4, <5>5
      <4>7. QED
        BY <3>2, <4>2, <4>5, <4>6 DEF EndOK
    <3>10. QED
      BY <1>2, <3>1, <3>2, <3>5, <3>6, <3>7, <3>8, <3>9 DEF CallOK
  <2>2. QED
    BY <2>1 DEF CallsOK
<1>15. BelongOK(v, R)
  <2>1. ASSUME NEW j \in DOMAIN w, v[j].instance.status = "active"
        PROVE  v[j].instance.link.owner \in DOMAIN v /\ (Current(v, j) \/ Ending(v, R, j))
    <3>1. j # k /\ v[j] = w[j]
      BY <1>3, <2>1
    <3>2. w[j].instance.link.owner \in DOMAIN w /\ (Current(w, j) \/ Ending(w, C, j))
      BY <1>1, <2>1, <3>1 DEF Coherent, BelongOK
    <3>3. w[j].instance.link.owner # k
      BY <1>10, <2>1, <3>1
    <3>4. Current(w, j) => Current(v, j)
      BY <1>3, <3>1, <3>2, <3>3 DEF Current
    <3>5. Ending(w, C, j) => Ending(v, R, j)
      BY <1>1, <1>5, <3>1 DEF Ending
    <3>6. QED
      BY <3>1, <3>2, <3>4, <3>5
  <2>2. QED
    BY <2>1 DEF BelongOK
<1>16. HaveOK(v, R)
  <2>1. ASSUME NEW j \in DOMAIN w, Live(v[j]), NEW r \in DOMAIN v[j].states, IsCompound(j, r, v[j].states[r])
        PROVE  HasChild(v, R, j, r) \/ Awaiting(R, j, r)
    <3> DEFINE child == ChildKey(j, r, w[j].states[r])
    <3>1. j # k /\ v[j] = w[j]
      BY <1>3, <2>1 DEF Live
    <3>2. HasChild(w, C, j, r) \/ Awaiting(C, j, r)
      BY <1>1, <2>1, <3>1 DEF Coherent, HaveOK
    <3>3. Awaiting(C, j, r) => Awaiting(R, j, r)
      BY <1>1, <1>5, <3>1 DEF Awaiting
    <3>4. ASSUME HasChild(w, C, j, r), child # k PROVE HasChild(v, R, j, r)
      <4>1. v[child] = w[child]
        BY <1>3, <3>4 DEF HasChild
      <4>2. \A y \in C : y.op = "complete" => y \in R
        BY <1>1, <1>5
      <4>3. QED
        BY <3>1, <3>4, <4>1, <4>2 DEF HasChild
    <3>5. ASSUME HasChild(w, C, j, r), child = k PROVE Awaiting(R, j, r)
      <4>1. w[k].instance.link.owner = j
        BY <3>5 DEF HasChild
      <4>2. IsCompound(j, r, w[j].states[r]) /\ k = ChildKey(j, r, w[j].states[r])
        BY <2>1, <3>1, <3>5
      <4>3. w[k].instance.link.region = r /\ w[k].instance.link.state = w[j].states[r]
        <5> DEFINE s == w[j].states[r]
                   q == w[k].instance.link.region
                   t == w[k].instance.link.state
        <5>1. j \in Keys /\ IsCompound(j, q, t) /\ k = ChildKey(j, q, t)
          BY <1>5, <1>6, <4>1, LinkIs
        <5>2. IsCompound(j, r, s) /\ ChildKey(j, r, s) = ChildKey(j, q, t)
          BY <4>2, <5>1
        <5> HIDE DEF s, q, t
        <5>3. r = q /\ s = t
          BY <5>1, <5>2, SameChild
        <5>4. QED
          BY <5>3 DEF s, q, t
      <4>4. Leaving(w, C, j, r, w[j].states[r])
        BY <1>5, <4>1, <4>3 DEF EndOK
      <4>5. Leaving(v, R, j, r, w[j].states[r])
        BY <1>11, <3>1, <4>4
      <4>6. QED
        BY <2>1, <3>1, <4>5 DEF Leaving, Awaiting
    <3>6. QED
      BY <3>2, <3>3, <3>4, <3>5
  <2>2. QED
    BY <2>1 DEF HaveOK
<1>17. WinnerOK(v, g, R)
  <2>1. ASSUME NEW j, NEW other, Has(h, j, other) PROVE Has(g, j, other)
    BY <1>1, <2>1 DEF Has
  <2>2. ASSUME NEW j, NEW other, Has(g, j, other) PROVE Has(h, j, other) \/ (j = k /\ other = key)
    BY <1>4, <2>2 DEF Has
  <2>3. \A r, s, n : SubCompleteIdentity(r, s, n) # key
    BY DEF key, SubCompleteIdentity, CancelIdentity
  <2>4. \A y \in C : y.op = "complete" => y \in R
    BY <1>1, <1>5
  <2>5. ASSUME NEW j \in DOMAIN w, v[j].instance # NotManaged, j # k
        PROVE  Completed(v, g, R, j) /\ Cancelled(v, g, j)
    <3>1. v[j] = w[j]
      BY <1>3, <2>5
    <3>2. Completed(w, h, C, j) /\ Cancelled(w, h, j)
      BY <1>1, <2>5, <3>1 DEF Coherent, WinnerOK
    <3>3. Completed(v, g, R, j)
      BY <1>1, <2>1, <2>2, <2>3, <2>4, <3>1, <3>2 DEF Completed
    <3>4. Cancelled(v, g, j)
      BY <2>1, <2>2, <2>5, <3>1, <3>2 DEF Cancelled
    <3>5. QED
      BY <3>3, <3>4
  <2>6. Completed(v, g, R, k) /\ Cancelled(v, g, k)
    <3>1. Completed(w, h, C, k)
      BY <1>1, <1>5, <1>6 DEF Coherent, WinnerOK
    <3>2. Completed(v, g, R, k)
      BY <1>3, <1>6, <2>2, <2>3, <3>1 DEF Completed
    <3>3. Cancelled(v, g, k)
      BY <1>3, <1>4 DEF Cancelled, key
    <3>4. QED
      BY <3>2, <3>3
  <2>7. QED
    BY <2>5, <2>6 DEF WinnerOK
<1>18. ImmediateOK(v)
  <2>1. ASSUME NEW j \in DOMAIN w, v[j].instance.status = "active" PROVE v[j] = w[j]
    BY <1>3, <2>1
  <2>2. QED
    BY <1>1, <2>1 DEF Coherent, ImmediateOK
<1>19. QED
  BY <1>12, <1>13, <1>14, <1>15, <1>16, <1>17, <1>18 DEF Coherent

\* A key that a write appends is ordered behind the entity it leaves.
LEMMA NewKeysAreOK ==
  ASSUME NEW w, NEW k \in DOMAIN w, Shape(k, w[k]), NEW spec, NEW e2, NEW ended, Written(k, w[k], spec, e2, ended),
         NEW row, NewKeyOK(row, w, k, spec)
  PROVE  KeyOK(row, e2) /\ row.key.kind # "cancel"
<1> DEFINE r == spec.region
           n == Entry(w[k], r).seq
           next == w[k].version + 1
<1>1. r \in DOMAIN e2.states /\ n \in Nat /\ n < Entry(e2, r).seq /\ next \in 0..e2.version
  <2>1. r \in DOMAIN w[k].states /\ w[k].version \in Nat
    BY DEF Written, Shape
  <2>2. n \in 1..w[k].version
    BY <2>1 DEF Shape
  <2>3. Entry(e2, r).seq = next /\ e2.version = next /\ r \in DOMAIN e2.states
    BY <2>1 DEF Written
  <2>4. QED
    BY <2>1, <2>2, <2>3
<1> HIDE DEF r, n, next
<1>2. Older(e2, r, n)
  BY <1>1 DEF Older
<1>3. CASE row.key = EventIdentity(row.type, row.ts)
  BY <1>3 DEF KeyOK, EventIdentity
<1>4. CASE row.key = TimeoutIdentity(r, n)
  <2>1. row.key.kind = "timeout" /\ row.key.name = r /\ row.key.n = n
    BY <1>4 DEF TimeoutIdentity
  <2>2. QED
    BY <1>2, <1>4, <2>1 DEF KeyOK
<1>5. ASSUME NEW region, NEW step, row.key = JoinIdentity(region, next, step)
      PROVE  KeyOK(row, e2) /\ row.key.kind # "cancel"
  <2>1. row.key.kind = "join" /\ row.key.name = region /\ row.key.n = next /\ row.key.step = step
    BY <1>5 DEF JoinIdentity
  <2>2. QED
    BY <1>1, <1>5, <2>1 DEF KeyOK
<1>6. ASSUME NEW state, row.key = SubCompleteIdentity(r, state, n)
      PROVE  KeyOK(row, e2) /\ row.key.kind # "cancel"
  <2>1. row.key.kind = "sub" /\ row.key.name = r /\ row.key.n = n /\ row.key.state = state
    BY <1>6 DEF SubCompleteIdentity
  <2>2. QED
    BY <1>2, <1>6, <2>1 DEF KeyOK
<1>7. QED
  BY <1>3, <1>4, <1>5, <1>6 DEF NewKeyOK, r, n, next

\* A write of k, made on request or to complete a child of k.
LEMMA Wrote ==
  ASSUME NEW w, NEW h, NEW C, Coherent(w, h, C),
         NEW k \in DOMAIN w, Live(w[k]),
         NEW spec, NEW v, NEW ended \in BOOLEAN, Effect(w, k, spec, v, ended),
         NEW D, Visits(w, k, v, ended, D),
         NEW g, IsSeq(g),
         \A i \in DOMAIN g : \/ \E j \in DOMAIN h : g[i] = h[j]
                             \/ g[i].at = k /\ NewKeyOK(g[i], w, k, spec),
         \A j \in DOMAIN h : \E i \in DOMAIN g : g[i] = h[j],
         \A y \in C : y.op \in Quiet \union {"complete"},
         \A y \in C : y.op = "complete" =>
           LET link == w[y.at].instance.link
           IN /\ link.owner = k /\ link.region = spec.region
              /\ Has(g, k, SubCompleteIdentity(link.region, link.state, link.seq)),
         \A i \in DOMAIN g : g[i].key.kind = "sub" =>
           \/ \E j \in DOMAIN h : g[i] = h[j]
           \/ \E y \in C : LET link == w[y.at].instance.link
                           IN y.op = "complete" /\ g[i].key = SubCompleteIdentity(link.region, link.state, link.seq)
  PROVE  Coherent(v, g, D)
<1> DEFINE sub(j) == SubCompleteIdentity(w[j].instance.link.region, w[j].instance.link.state, w[j].instance.link.seq)
<1>1. RowsOK(w) /\ KeysOK(w, h)
  BY DEF Coherent
<1>2. /\ \A i \in DOMAIN g : \/ \E j \in DOMAIN h : g[i] = h[j]
                             \/ g[i].at = k /\ NewKeyOK(g[i], w, k, spec)
      /\ \A j \in DOMAIN h : \E i \in DOMAIN g : g[i] = h[j]
      /\ \A i \in DOMAIN g : g[i].key.kind = "sub" =>
           (\E j \in DOMAIN h : g[i] = h[j]) \/ \E y \in C : y.op = "complete" /\ g[i].key = sub(y.at)
  OBVIOUS
<1>3. \A y \in C : y.op = "complete" => /\ w[y.at].instance.link.owner = k
                                        /\ w[y.at].instance.link.region = spec.region
                                        /\ Has(g, k, sub(y.at))
  OBVIOUS
<1> HIDE DEF sub
<1>4. \A y \in C : y.op \notin {"visit", "start", "cancel", "end"}
  BY DEF Quiet, Asks
<1>5. \A y \in C : y.op = "complete" => y.at \in DOMAIN w /\ CompleteOK(y, w)
  BY DEF Coherent, CallsOK, CallOK
<1>6. /\ DOMAIN v = DOMAIN w /\ \A j \in DOMAIN w : j # k => v[j] = w[j]
      /\ Written(k, w[k], spec, v[k], ended)
  BY DEF Effect
<1>7. /\ k \in Keys /\ Shape(k, w[k]) /\ DOMAIN w[k].states = Regs(k)
      /\ \A r \in DOMAIN w[k].states : Entry(w[k], r).state = w[k].states[r]
      /\ w[k].version \in Nat
      /\ \A r \in DOMAIN w[k].states : Entry(w[k], r).seq \in 1..w[k].version
  BY <1>1, RowIs DEF Shape
<1>8. /\ Shape(k, v[k]) /\ v[k].version = w[k].version + 1 /\ DOMAIN v[k].states = DOMAIN w[k].states
      /\ spec.region \in DOMAIN w[k].states
      /\ \A r \in DOMAIN w[k].states : Entry(v[k], r) = Entry(w[k], r) \/ Entry(v[k], r).seq = v[k].version
      /\ Entry(v[k], spec.region).seq = v[k].version
      /\ \A r \in DOMAIN w[k].states : Entry(v[k], r).state = v[k].states[r]
  BY <1>6 DEF Written, Shape
<1>9. \/ ended = FALSE /\ v[k].instance = w[k].instance /\ Completion(v[k], v[k].states) = {}
      \/ /\ ended = TRUE /\ w[k].instance.status = "active"
         /\ v[k].instance = [w[k].instance EXCEPT !.status = "completed"]
  BY <1>6 DEF Written
\* The instance of k keeps its link; its status changes if the write ends it.
<1>10. /\ v[k].instance # NotManaged <=> w[k].instance # NotManaged
       /\ w[k].instance # NotManaged => /\ v[k].instance.link = w[k].instance.link
                                        /\ w[k].instance.status = "active"
       /\ ended => w[k].instance # NotManaged /\ v[k].instance.status = "completed"
       /\ ~ ended => v[k].instance = w[k].instance /\ Live(v[k])
  <2>1. w[k].instance # NotManaged => w[k].instance.status = "active"
    BY <1>1, RowIs DEF Live
  <2>2. CASE ended = FALSE /\ v[k].instance = w[k].instance
    BY <2>1, <2>2 DEF Live
  <2>3. CASE /\ ended = TRUE /\ w[k].instance.status = "active"
             /\ v[k].instance = [w[k].instance EXCEPT !.status = "completed"]
    <3> DEFINE x == w[k].instance
               y == v[k].instance
    <3>1. x # NotManaged /\ InstanceOK(k, x)
      BY <1>7, <2>3 DEF NotManaged, Shape
    <3>2. x = [status |-> x.status, depth |-> x.depth, link |-> x.link]
      BY <3>1, InstanceIs
    <3>3. y.status = "completed" /\ y.link = x.link
      BY <2>3, <3>2
    <3>4. QED
      BY <2>3, <3>1, <3>3 DEF NotManaged
  <2>4. QED
    BY <1>9, <2>2, <2>3
<1>11. \A x \in D : /\ x.at = k
                    /\ \/ x.op = "complete" /\ ended = TRUE
                       \/ /\ x.op = "visit" /\ x.region \in DOMAIN w[k].states /\ x.ended = ended
                          /\ x.old = Entry(w[k], x.region) /\ x.new = Entry(v[k], x.region)
  BY DEF Visits
<1>12. /\ \A r \in DOMAIN w[k].states : \E x \in D : x.op = "visit" /\ x.region = r
       /\ ended = TRUE => \E x \in D : x.op = "complete"
  BY DEF Visits
<1>13. w[k].instance # NotManaged => w[k].instance.link.owner # k /\ w[k].instance.link.owner \in DOMAIN w
  <2>1. w[k].instance # NotManaged => w[k].instance.link.owner # k
    BY <1>1, LinkIs
  <2>2. QED
    BY <1>10, <2>1 DEF Coherent, BelongOK
\* Nothing excuses an active child before the write, nor a missing one.
<1>14. ASSUME NEW j \in DOMAIN w, w[j].instance.status = "active"
       PROVE  w[j].instance.link.owner \in DOMAIN w /\ Current(w, j)
  <2>1. ~ Ending(w, C, j)
    BY <1>4 DEF Ending
  <2>2. QED
    BY <1>14, <2>1 DEF Coherent, BelongOK
<1>15. ASSUME NEW j \in DOMAIN w, Live(w[j]), NEW r \in DOMAIN w[j].states, IsCompound(j, r, w[j].states[r])
       PROVE  HasChild(w, C, j, r) /\ ChildKey(j, r, w[j].states[r]) # j
  <2>1. ~ Awaiting(C, j, r)
    BY <1>4 DEF Awaiting
  <2>2. j \in Keys
    BY <1>1, RowIs
  <2>3. ChildKey(j, r, w[j].states[r]) # j
    BY <1>15, <2>2, ChildKeyIsKey
  <2>4. QED
    BY <1>15, <2>1, <2>3 DEF Coherent, HaveOK
<1>16. ASSUME NEW r \in DOMAIN w[k].states, Entry(v[k], r).seq = Entry(w[k], r).seq
       PROVE  Entry(v[k], r) = Entry(w[k], r) /\ v[k].states[r] = w[k].states[r] /\ r # spec.region
  <2>1. Entry(w[k], r).seq # v[k].version
    BY <1>7, <1>8
  <2>2. QED
    BY <1>7, <1>8, <1>16, <2>1
<1>17. \A j \in DOMAIN w : v[j].instance # NotManaged => w[j].instance # NotManaged /\ v[j].instance.link = w[j].instance.link
  BY <1>6, <1>10
<1>18. RowsOK(v)
  BY <1>1, <1>6, <1>7, <1>8 DEF RowsOK
<1>19. KeysOK(v, g)
  <2>1. ASSUME NEW i \in DOMAIN h PROVE h[i].at \in DOMAIN v /\ KeyOK(h[i], v[h[i].at])
    <3>1. h[i].at \in DOMAIN w /\ KeyOK(h[i], w[h[i].at])
      BY <1>1 DEF KeysOK
    <3>2. CASE h[i].at # k
      BY <1>6, <3>1, <3>2
    <3>3. CASE h[i].at = k
      <4>1. w[k].version <= v[k].version /\ w[k].instance.status # "cancelled"
        BY <1>7, <1>8 DEF Live
      <4>2. \A r \in DOMAIN w[k].states : Entry(w[k], r).seq <= Entry(v[k], r).seq
        BY <1>7, <1>8
      <4>3. KeyOK(h[i], w[k])
        BY <3>1, <3>3
      <4>4. KeyOK(h[i], v[k])
        BY <1>7, <1>8, <4>1, <4>2, <4>3, KeysStay
      <4>5. QED
        BY <1>6, <3>3, <4>4
    <3>4. QED
      BY <3>2, <3>3
  <2>2. ASSUME NEW i \in DOMAIN g, g[i].at = k, NewKeyOK(g[i], w, k, spec) PROVE KeyOK(g[i], v[k])
    BY <1>6, <1>7, <2>2, NewKeysAreOK
  <2>3. QED
    BY <1>2, <1>6, <2>1, <2>2 DEF KeysOK
<1>20. CallsOK(v, D)
  <2>1. ASSUME NEW x \in D, x.op = "visit" PROVE CallOK(x, v, D)
    <3>1. /\ x.at = k /\ x.region \in DOMAIN w[k].states /\ x.ended = ended
          /\ x.old = Entry(w[k], x.region) /\ x.new = Entry(v[k], x.region)
      BY <1>11, <2>1
    <3>2. OwnChild(v, k, x.region, x.old.state)
      <4> SUFFICES ASSUME IsCompound(k, x.region, w[k].states[x.region])
                   PROVE  OwnChild(v, k, x.region, w[k].states[x.region])
        BY <1>7, <3>1 DEF OwnChild
      <4>1. HasChild(w, C, k, x.region) /\ ChildKey(k, x.region, w[k].states[x.region]) # k
        BY <1>15, <3>1
      <4>2. QED
        BY <1>6, <4>1 DEF HasChild, OwnChild
    <3>3. VisitOK(x, v)
      BY <1>8, <1>10, <3>1, <3>2 DEF VisitOK
    <3>4. QED
      BY <1>6, <2>1, <3>1, <3>3 DEF CallOK, Descends
  <2>2. ASSUME NEW x \in D, x.op = "complete" PROVE CallOK(x, v, D)
    <3>1. x.at = k /\ ended = TRUE
      BY <1>11, <2>2
    <3>2. w[k].instance # NotManaged /\ v[k].instance.status = "completed" /\ v[k].instance.link = w[k].instance.link
      BY <1>10, <3>1
    <3>3. w[k].instance.link.owner \in DOMAIN w /\ Current(w, k)
      BY <1>10, <1>14, <3>2
    <3>4. CompleteOK(x, v)
      BY <1>6, <1>13, <3>1, <3>2, <3>3 DEF CompleteOK, Current
    <3>5. QED
      BY <1>6, <2>2, <3>1, <3>4 DEF CallOK, Alone
  <2>3. QED
    BY <1>11, <2>1, <2>2 DEF CallsOK
<1>21. BelongOK(v, D)
  <2>1. ASSUME NEW j \in DOMAIN w, v[j].instance.status = "active"
        PROVE  v[j].instance.link.owner \in DOMAIN v /\ (Current(v, j) \/ Ending(v, D, j))
    <3> DEFINE o == w[j].instance.link.owner
               r == w[j].instance.link.region
    <3>1. /\ w[j].instance = v[j].instance /\ w[j].instance # NotManaged
      <4>1. CASE j = k
        BY <1>10, <2>1, <4>1 DEF NotManaged
      <4>2. CASE j # k
        BY <1>6, <2>1, <4>2 DEF NotManaged
      <4>3. QED
        BY <4>1, <4>2
    <3>2. o \in DOMAIN w /\ Current(w, j)
      BY <1>14, <2>1, <3>1
    <3>3. CASE o # k
      BY <1>6, <3>1, <3>2, <3>3 DEF Current
    <3>4. CASE o = k
      <4>1. r \in DOMAIN w[k].states
        BY <1>1, <1>7, <3>1, <3>4, LinkIs
      <4>2. PICK y \in D : y.op = "visit" /\ y.region = r
        BY <1>12, <4>1
      <4>3. /\ y.at = k /\ y.ended = ended
            /\ y.old = Entry(w[k], r) /\ y.new = Entry(v[k], r)
        BY <1>11, <4>2
      <4>4. CASE ended \/ y.old.seq # y.new.seq
        <5>1. y.old.state = w[j].instance.link.state
          BY <3>2, <3>4, <4>3 DEF Current
        <5>2. QED
          BY <3>1, <3>2, <3>4, <1>6, <4>2, <4>3, <4>4, <5>1 DEF Ending
      <4>5. CASE ~ ended /\ y.old.seq = y.new.seq
        <5>1. Entry(v[k], r) = Entry(w[k], r)
          BY <1>16, <4>1, <4>3, <4>5
        <5>2. Live(v[k])
          BY <1>10, <4>5
        <5>3. QED
          BY <1>6, <3>1, <3>2, <3>4, <5>1, <5>2 DEF Current
      <4>6. QED
        BY <4>4, <4>5
    <3>5. QED
      BY <3>3, <3>4
  <2>2. QED
    BY <1>6, <2>1 DEF BelongOK
<1>22. HaveOK(v, D)
  <2>1. ASSUME NEW j \in DOMAIN w, j # k, Live(v[j]), NEW r \in DOMAIN v[j].states,
               IsCompound(j, r, v[j].states[r])
        PROVE  HasChild(v, D, j, r)
    <3> DEFINE child == ChildKey(j, r, w[j].states[r])
    <3>1. v[j] = w[j]
      BY <1>6, <2>1
    <3>2. HasChild(w, C, j, r)
      BY <1>15, <2>1, <3>1
    <3>3. /\ child \in DOMAIN w /\ w[child].instance # NotManaged
          /\ w[child].instance.link.owner = j /\ w[child].instance.link.seq = Entry(w[j], r).seq
      BY <3>2 DEF HasChild
    <3>4. w[child].instance.status = "active"
      BY <1>3, <2>1, <3>2 DEF HasChild
    <3>5. CASE child # k
      BY <1>6, <3>1, <3>3, <3>4, <3>5 DEF HasChild
    <3>6. CASE child = k
      <4>1. v[k].instance # NotManaged /\ v[k].instance.link = w[k].instance.link
        BY <1>10, <3>3, <3>6
      <4>2. v[k].instance.status = "active" \/ (v[k].instance.status = "completed" /\ \E x \in D : x.op = "complete" /\ x.at = k)
        BY <1>10, <1>11, <1>12, <3>4, <3>6
      <4>3. QED
        BY <1>6, <3>1, <3>3, <3>6, <4>1, <4>2 DEF HasChild
    <3>7. QED
      BY <3>5, <3>6
  <2>2. ASSUME Live(v[k]), NEW r \in DOMAIN v[k].states, IsCompound(k, r, v[k].states[r])
        PROVE  HasChild(v, D, k, r) \/ Awaiting(D, k, r)
    <3>1. PICK y \in D : y.op = "visit" /\ y.region = r
      BY <1>8, <1>12, <2>2
    <3>2. /\ y.at = k /\ y.ended = ended
          /\ y.old = Entry(w[k], r) /\ y.new = Entry(v[k], r)
      BY <1>11, <3>1
    <3>3. CASE y.old.seq # y.new.seq
      BY <3>1, <3>2, <3>3 DEF Awaiting
    <3>4. CASE y.old.seq = y.new.seq
      <4> DEFINE child == ChildKey(k, r, w[k].states[r])
      <4>1. Entry(v[k], r) = Entry(w[k], r) /\ v[k].states[r] = w[k].states[r] /\ r # spec.region
        BY <1>8, <1>16, <2>2, <3>2, <3>4
      <4>2. HasChild(w, C, k, r) /\ child # k
        BY <1>8, <1>15, <2>2, <4>1
      <4>3. /\ child \in DOMAIN w /\ w[child].instance # NotManaged
            /\ w[child].instance.link.owner = k /\ w[child].instance.link.seq = Entry(w[k], r).seq
        BY <4>2 DEF HasChild
      <4>4. w[child].instance.link.region = r
        <5> DEFINE s == w[k].states[r]
                   q == w[child].instance.link.region
                   t == w[child].instance.link.state
        <5>1. k \in Keys /\ IsCompound(k, q, t) /\ child = ChildKey(k, q, t)
          BY <1>1, <1>7, <4>3, LinkIs
        <5>2. IsCompound(k, r, s) /\ ChildKey(k, r, s) = ChildKey(k, q, t)
          BY <2>2, <4>1, <5>1
        <5> HIDE DEF s, q, t
        <5>3. r = q /\ s = t
          BY <5>1, <5>2, SameChild
        <5>4. QED
          BY <5>3 DEF q
      <4>5. w[child].instance.status = "active"
        BY <1>3, <4>1, <4>2, <4>4 DEF HasChild
      <4>6. v[child] = w[child]
        BY <1>6, <4>2, <4>3
      <4>7. QED
        BY <1>6, <4>1, <4>3, <4>5, <4>6 DEF HasChild
    <3>5. QED
      BY <3>3, <3>4
  <2>3. QED
    BY <1>6, <2>1, <2>2 DEF HaveOK
<1>23. WinnerOK(v, g, D)
  <2>1. ASSUME NEW j, NEW key, Has(h, j, key) PROVE Has(g, j, key)
    BY <1>2, <2>1 DEF Has
  <2>2. ASSUME NEW j, NEW key, Has(g, j, key), key.kind = "cancel" PROVE Has(h, j, key)
    <3>1. PICK i \in DOMAIN g : g[i].at = j /\ g[i].key = key
      BY <2>2 DEF Has
    <3>2. ~ (g[i].at = k /\ NewKeyOK(g[i], w, k, spec))
      BY <1>6, <1>7, <2>2, <3>1, NewKeysAreOK
    <3>3. QED
      BY <1>2, <3>1, <3>2 DEF Has
  <2>3. ASSUME NEW j, NEW key, Has(g, j, key), key.kind = "sub"
        PROVE  Has(h, j, key) \/ (j = k /\ \E y \in C : y.op = "complete" /\ key = sub(y.at))
    <3>1. PICK i \in DOMAIN g : g[i].at = j /\ g[i].key = key
      BY <2>3 DEF Has
    <3>2. CASE \E n \in DOMAIN h : g[i] = h[n]
      BY <3>1, <3>2 DEF Has
    <3>3. CASE g[i].at = k /\ ~ \E n \in DOMAIN h : g[i] = h[n]
      BY <1>2, <2>3, <3>1, <3>3
    <3>4. QED
      BY <1>2, <3>2, <3>3
  <2>4. \A n : CancelIdentity(n).kind = "cancel"
    BY DEF CancelIdentity
  <2>5. \A j : sub(j).kind = "sub"
    BY DEF sub, SubCompleteIdentity
  <2>6. \A j \in DOMAIN w : w[j].instance # NotManaged => Completed(w, h, C, j) /\ Cancelled(w, h, j)
    BY DEF Coherent, WinnerOK
  <2>7. ASSUME NEW j \in DOMAIN w, v[j].instance # NotManaged PROVE Cancelled(v, g, j)
    <3>1. w[j].instance # NotManaged /\ v[j].instance.link = w[j].instance.link
      BY <1>17, <2>7
    <3>2. v[j].instance.status = "cancelled" <=> w[j].instance.status = "cancelled"
      BY <1>6, <1>10, <3>1
    <3>3. QED
      BY <2>1, <2>2, <2>4, <2>6, <3>1, <3>2 DEF Cancelled
  <2>8. ASSUME v[k].instance # NotManaged PROVE Completed(v, g, D, k)
    <3>1. w[k].instance # NotManaged /\ v[k].instance.link = w[k].instance.link /\ w[k].instance.status = "active"
      BY <1>10, <2>8
    <3>2. ~ Has(h, w[k].instance.link.owner, sub(k))
      BY <2>6, <3>1 DEF Completed, sub
    <3>3. ~ Has(g, w[k].instance.link.owner, sub(k))
      BY <1>13, <2>3, <2>5, <3>1, <3>2
    <3>4. ~ (v[k].instance.status = "completed" /\ \A x \in D : ~ (x.op = "complete" /\ x.at = k))
      BY <1>10, <1>11, <1>12, <3>1
    <3>5. QED
      BY <3>1, <3>3, <3>4 DEF Completed, sub
  <2>9. ASSUME NEW j \in DOMAIN w, j # k, v[j].instance # NotManaged PROVE Completed(v, g, D, j)
    <3> DEFINE o == w[j].instance.link.owner
    <3>1. v[j] = w[j] /\ w[j].instance # NotManaged
      BY <1>6, <2>9
    <3>2. \A x \in D : x.at # j
      BY <1>11, <2>9
    <3>3. Has(h, o, sub(j)) <=> w[j].instance.status = "completed" /\ \A x \in C : ~ (x.op = "complete" /\ x.at = j)
      BY <2>6, <3>1 DEF Completed, sub
    <3>4. CASE \E x \in C : x.op = "complete" /\ x.at = j
      <4>1. o = k /\ Has(g, k, sub(j)) /\ w[j].instance.status = "completed"
        BY <1>3, <1>5, <3>4 DEF CompleteOK
      <4>2. QED
        BY <3>1, <3>2, <4>1 DEF Completed, sub
    <3>5. CASE ~ \E x \in C : x.op = "complete" /\ x.at = j
      <4>1. ASSUME Has(g, o, sub(j)) PROVE Has(h, o, sub(j))
        <5> SUFFICES ASSUME o = k, NEW y \in C, y.op = "complete", sub(j) = sub(y.at) PROVE FALSE
          BY <2>3, <2>5, <4>1
        <5>1. /\ w[y.at].instance # NotManaged /\ y.at \in DOMAIN w /\ w[y.at].instance.link.owner = k
          BY <1>3, <1>5 DEF CompleteOK, NotManaged
        <5>2. /\ w[j].instance.link.region = w[y.at].instance.link.region
              /\ w[j].instance.link.state = w[y.at].instance.link.state
          BY DEF sub, SubCompleteIdentity
        <5>3. /\ j = ChildKey(k, w[j].instance.link.region, w[j].instance.link.state)
              /\ y.at = ChildKey(k, w[y.at].instance.link.region, w[y.at].instance.link.state)
          BY <1>1, <3>1, <5>1, LinkIs
        <5>4. y.at = j
          BY <5>2, <5>3
        <5>5. QED
          BY <3>5, <5>4
      <4>2. QED
        BY <2>1, <3>1, <3>2, <3>3, <3>5, <4>1 DEF Completed, sub
    <3>6. QED
      BY <3>4, <3>5
  <2>10. QED
    BY <1>6, <2>7, <2>8, <2>9 DEF WinnerOK
<1>24. ImmediateOK(v)
  <2>1. ASSUME NEW j \in DOMAIN w, j # k PROVE v[j] = w[j]
    BY <1>6, <2>1
  <2>2. v[k].instance.status = "active" => Completion(v[k], v[k].states) = {}
    BY <1>9, <1>10
  <2>3. QED
    BY <1>6, <2>1, <2>2 DEF Coherent, ImmediateOK
<1>25. QED
  BY <1>18, <1>19, <1>20, <1>21, <1>22, <1>23, <1>24 DEF Coherent

-----------------------------------------------------------------------------
(* WriteEntity.                                                            *)

\* No row has a key that a write appends, unless the event was there.
LEMMA KeysAreFresh ==
  ASSUME NEW w, NEW h, KeysOK(w, h), NEW k \in DOMAIN w, Shape(k, w[k]), Live(w[k]),
         NEW spec, spec.region \in DOMAIN w[k].states, NEW row, NewKeyOK(row, w, k, spec),
         row.key.kind = "evt" => \A i \in DOMAIN h : ~ (h[i].at = k /\ h[i].type = row.type /\ h[i].ts = row.ts)
  PROVE  \A i \in DOMAIN h : ~ (h[i].at = k /\ h[i].key = row.key)
<1> SUFFICES ASSUME NEW i \in DOMAIN h, h[i].at = k, h[i].key = row.key PROVE FALSE
  OBVIOUS
<1> DEFINE r == spec.region
           n == Entry(w[k], r).seq
           next == w[k].version + 1
           key == h[i].key
<1>1. n \in Nat /\ w[k].version \in Nat /\ ~ (n < n) /\ next \notin 0..w[k].version
  BY DEF Shape
<1>2. KeyOK(h[i], w[k])
  BY DEF KeysOK
<1> HIDE DEF n, next
<1>3. /\ key.kind = "evt" => key = EventIdentity(h[i].type, h[i].ts)
      /\ key.kind = "timeout" => Older(w[k], key.name, key.n)
      /\ key.kind = "join" => key.n \in 0..w[k].version
      /\ key.kind = "sub" => Older(w[k], key.name, key.n)
  BY <1>2, KeyKinds
<1>4. CASE key = EventIdentity(row.type, row.ts)
  <2>1. key.kind = "evt" /\ key.name = row.type /\ key.n = row.ts
    BY <1>4 DEF EventIdentity
  <2>2. h[i].type = row.type /\ h[i].ts = row.ts
    BY <1>3, <2>1 DEF EventIdentity
  <2>3. QED
    BY <2>1, <2>2
<1>5. CASE key = TimeoutIdentity(r, n)
  <2>1. key.kind = "timeout" /\ key.name = r /\ key.n = n
    BY <1>5 DEF TimeoutIdentity
  <2>2. QED
    BY <1>1, <1>3, <2>1 DEF Older, n
<1>6. ASSUME NEW region, NEW step, key = JoinIdentity(region, next, step) PROVE FALSE
  <2>1. key.kind = "join" /\ key.n = next
    BY <1>6 DEF JoinIdentity
  <2>2. QED
    BY <1>1, <1>3, <2>1
<1>7. ASSUME NEW state, key = SubCompleteIdentity(r, state, n) PROVE FALSE
  <2>1. key.kind = "sub" /\ key.name = r /\ key.n = n
    BY <1>7 DEF SubCompleteIdentity
  <2>2. QED
    BY <1>1, <1>3, <2>1 DEF Older, n
<1>8. QED
  BY <1>4, <1>5, <1>6, <1>7 DEF NewKeyOK, n, next

\* What a write calls: a visit of each region, then the completion.
CallsOfWrite(k, old, regions, ended, target) ==
  [i \in DOMAIN RegionsOf(k) |->
     LET r == RegionsOf(k)[i] IN VisitCall(k, r, old[r], regions[r], ended)]
  \o (IF ended THEN <<CompleteCall(k, target)>> ELSE <<>>)

LEMMA CallsOfWriteAre ==
  ASSUME NEW k \in Keys, NEW old, NEW regions, NEW ended \in BOOLEAN, NEW target
  PROVE  LET s == CallsOfWrite(k, old, regions, ended, target)
         IN /\ IsSeq(s) /\ Ordered(s)
            /\ \A r \in Regs(k) : VisitCall(k, r, old[r], regions[r], ended) \in Calls(s)
            /\ ended => CompleteCall(k, target) \in Calls(s)
            /\ \A y \in Calls(s) : \/ ended /\ y = CompleteCall(k, target)
                                   \/ \E r \in Regs(k) : y = VisitCall(k, r, old[r], regions[r], ended)
<1> DEFINE R == RegionsOf(k)
           f == [r \in Regs(k) |-> VisitCall(k, r, old[r], regions[r], ended)]
           visits == [i \in DOMAIN R |-> f[R[i]]]
           end == CompleteCall(k, target)
           last == IF ended THEN <<end>> ELSE <<>>
           s == CallsOfWrite(k, old, regions, ended, target)
<1>1. /\ end.op = "complete" /\ end.at = k
      /\ \A r \in Regs(k) : f[r].op = "visit" /\ f[r].at = k /\ f[r] = VisitCall(k, r, old[r], regions[r], ended)
  BY DEF CompleteCall, VisitCall
<1>2. Len(k.path) \in Nat
  <2>1. k.path \in Seq(StateNames)
    BY DEF Keys
  <2>2. QED
    BY <2>1
<1>3. s = visits \o last
  <2>1. {R[i] : i \in DOMAIN R} = Regs(k)
    BY DefinitionIs DEF Keys, RegionsOf, Regs
  <2>2. \A i \in DOMAIN R : R[i] \in Regs(k)
    BY <2>1
  <2>3. \A i \in DOMAIN R : f[R[i]] = VisitCall(k, R[i], old[R[i]], regions[R[i]], ended)
    BY <2>2
  <2>4. visits = [i \in DOMAIN R |-> VisitCall(k, R[i], old[R[i]], regions[R[i]], ended)]
    BY <2>3
  <2>5. QED
    BY <2>4 DEF CallsOfWrite
<1> HIDE DEF f, end, s
<1>4. \A r, q \in Regs(k) : Above(f[r], f[q])
  BY <1>1, <1>2 DEF Above, Asks, Descends
<1>5. IsSeq(visits) /\ Ordered(visits) /\ Calls(visits) = {f[r] : r \in Regs(k)}
  BY <1>4, RegionCalls
<1>6. IsSeq(last) /\ Ordered(last) /\ Calls(last) = IF ended THEN {end} ELSE {}
  BY SmallStacks
<1> HIDE DEF visits, last
<1>7. \A y \in Calls(visits), z \in Calls(last) : Above(y, z)
  BY <1>1, <1>2, <1>5, <1>6 DEF Above, Asks, Descends
<1>8. IsSeq(s) /\ Ordered(s) /\ Calls(s) = Calls(visits) \union Calls(last)
  BY <1>3, <1>5, <1>6, <1>7, StackGrows
<1>9. QED
  BY <1>1, <1>5, <1>6, <1>8 DEF s, end

\* The key of the write's own row.
SpecKeyOK(e, spec) ==
  \/ spec.key = EventIdentity(spec.type, spec.ts)
  \/ spec.key = TimeoutIdentity(spec.region, Entry(e, spec.region).seq)
  \/ \E state : spec.key = SubCompleteIdentity(spec.region, state, Entry(e, spec.region).seq)

\* The rows of a write have fresh keys.
LEMMA WrittenKeysAreNew ==
  ASSUME NEW w, NEW k \in DOMAIN w, Shape(k, w[k]), NEW spec, SpecOK(w[k], spec), SpecKeyOK(w[k], spec),
         NEW i \in DOMAIN WrittenRows(k, spec, w[k].version + 1)
  PROVE  LET row == WrittenRows(k, spec, w[k].version + 1)[i]
         IN /\ row.at = k /\ NewKeyOK(row, w, k, spec)
            /\ row.key.kind \in {"evt", "sub"} => row = MainRow(k, spec)
<1> DEFINE version == w[k].version + 1
           new == WrittenRows(k, spec, version)
<1>1. \/ i = 1 /\ new[1] = MainRow(k, spec)
      \/ \E j \in DOMAIN spec.fired : new[i] = JoinRow(k, spec.ts, spec.fired[j], version, j - 1)
  <2>1. IsSeq(spec.fired)
    BY DEF SpecOK
  <2>2. i \in DOMAIN new
    OBVIOUS
  <2> HIDE DEF version
  <2>3. /\ new[1] = MainRow(k, spec)
        /\ \A n \in DOMAIN new : n = 1 \/ \E j \in DOMAIN spec.fired :
                                            new[n] = JoinRow(k, spec.ts, spec.fired[j], version, j - 1)
    BY <2>1, WrittenRowsAre
  <2> HIDE DEF new
  <2>4. QED
    BY <2>2, <2>3
<1>2. CASE new[i] = MainRow(k, spec)
  <2>1. new[i].at = k /\ new[i].key = spec.key /\ new[i].type = spec.type /\ new[i].ts = spec.ts
    BY <1>2 DEF MainRow
  <2>2. NewKeyOK(new[i], w, k, spec)
    BY <2>1 DEF SpecKeyOK, NewKeyOK
  <2>3. QED
    BY <1>2, <2>1, <2>2
<1>3. ASSUME NEW j \in DOMAIN spec.fired, new[i] = JoinRow(k, spec.ts, spec.fired[j], version, j - 1)
      PROVE  new[i].at = k /\ NewKeyOK(new[i], w, k, spec) /\ new[i].key.kind = "join"
  <2>1. new[i].at = k /\ new[i].key = JoinIdentity(spec.fired[j].region, version, j - 1)
    BY <1>3 DEF JoinRow
  <2>2. NewKeyOK(new[i], w, k, spec)
    BY <2>1 DEF NewKeyOK
  <2>3. new[i].key.kind = "join"
    BY <2>1 DEF JoinIdentity
  <2>4. QED
    BY <2>1, <2>2, <2>3
<1>4. QED
  BY <1>1, <1>2, <1>3

-----------------------------------------------------------------------------
(* One call.                                                               *)

\* A call that does not fail keeps the tree coherent and what has ended as it
\* is, and forgets no row.
Keeps ==
  /\ UNCHANGED <<entities, history, phase, request, transactions>>
  /\ Coherent(work', rows', Calls(todo')) /\ IsSeq(todo') /\ Ordered(todo')
  /\ \A k \in DOMAIN work : k \in DOMAIN work' /\ (work'[k] = work[k] \/ Live(work[k]))
  /\ \A i \in DOMAIN rows : \E j \in DOMAIN rows' : rows'[j] = rows[i]
  /\ reply' \in {reply, "applied", "duplicate"}

\* A call of the lifecycle leaves such calls, and the answer.
Descended ==
  /\ Keeps
  /\ reply' = reply
  /\ \A y \in Calls(todo') : y.op \in Descends \union {"complete"}

\* The running call and those below it.
LEMMA HeadIs ==
  ASSUME TreeInv, NEW op, Running(op)
  PROVE  /\ phase = "tx" /\ todo # <<>> /\ Head(todo).op = op
         /\ Pending = {Head(todo)} \union Calls(Tail(todo))
         /\ Coherent(work, rows, {Head(todo)} \union Calls(Tail(todo)))
         /\ CallOK(Head(todo), work, {Head(todo)} \union Calls(Tail(todo)))
         /\ \A y \in Calls(Tail(todo)) : Above(Head(todo), y)
         /\ IsSeq(Tail(todo)) /\ Ordered(Tail(todo))
<1>1. phase = "tx" /\ todo # <<>> /\ Head(todo).op = op
  BY DEF Running
<1>2. IsSeq(todo) /\ Ordered(todo) /\ Coherent(work, rows, Pending)
  BY DEF TreeInv, StackOK
<1>3. /\ Calls(todo) = {Head(todo)} \union Calls(Tail(todo))
      /\ \A y \in Calls(Tail(todo)) : Above(Head(todo), y)
      /\ IsSeq(Tail(todo)) /\ Ordered(Tail(todo))
  BY <1>1, <1>2, StackSplits
<1>4. Head(todo) \in Calls(todo)
  BY <1>3
<1>5. CallOK(Head(todo), work, Calls(todo))
  BY <1>2, <1>4 DEF Coherent, CallsOK, Pending
<1>6. QED
  BY <1>1, <1>2, <1>3, <1>5 DEF Pending

\* The calls after a return.
LEMMA StackReturns ==
  ASSUME StackOK, NEW op, Running(op), NEW calls, Return(calls), IsSeq(calls), Ordered(calls),
         \A y \in Calls(calls), z \in Calls(Tail(todo)) : Above(y, z)
  PROVE  /\ IsSeq(todo') /\ Ordered(todo') /\ Calls(todo') = Calls(calls) \union Calls(Tail(todo))
         /\ UNCHANGED <<entities, history, phase, request, transactions>>
<1> DEFINE rest == Tail(todo)
           next == todo'
<1>1. IsSeq(rest) /\ Ordered(rest)
  BY StackSplits DEF Running, StackOK
<1>2. /\ next = calls \o rest
      /\ UNCHANGED <<entities, history, phase, request, transactions>>
  BY DEF Return, committed
<1>3. \A y \in Calls(calls), z \in Calls(rest) : Above(y, z)
  OBVIOUS
<1> HIDE DEF rest, next
<1>4. IsSeq(calls \o rest) /\ Ordered(calls \o rest) /\ Calls(calls \o rest) = Calls(calls) \union Calls(rest)
  BY <1>1, <1>3, StackGrows
<1>5. QED
  BY <1>2, <1>4 DEF rest, next

LEMMA Returned ==
  ASSUME TreeInv, NEW op, Running(op), NEW calls, Return(calls), IsSeq(calls), Ordered(calls),
         \A y \in Calls(calls), z \in Calls(Tail(todo)) : Above(y, z)
  PROVE  /\ IsSeq(todo') /\ Ordered(todo') /\ Calls(todo') = Calls(calls) \union Calls(Tail(todo))
         /\ UNCHANGED <<entities, history, phase, request, transactions>>
<1>1. StackOK
  BY DEF TreeInv
<1>2. QED
  BY <1>1, StackReturns

\* A return that writes nothing.
LEMMA ReturnKeeps ==
  ASSUME TreeInv, NEW op, Running(op), NEW calls, Return(calls), IsSeq(calls), Ordered(calls),
         \A y \in Calls(calls), z \in Calls(Tail(todo)) : Above(y, z),
         UNCHANGED <<work, rows>>, reply' \in {reply, "applied", "duplicate"},
         Coherent(work, rows, Calls(calls) \union Calls(Tail(todo)))
  PROVE  Keeps
<1>1. /\ IsSeq(todo') /\ Ordered(todo') /\ Calls(todo') = Calls(calls) \union Calls(Tail(todo))
      /\ UNCHANGED <<entities, history, phase, request, transactions>>
  BY Returned
<1>2. work' = work /\ rows' = rows
  OBVIOUS
<1>3. Coherent(work', rows', Calls(todo'))
  BY <1>1, <1>2
<1>4. QED
  BY <1>1, <1>2, <1>3 DEF Keeps

\* What is left of WriteEntity once its two errors are excluded.
LEMMA WriteEntityIs ==
  ASSUME NEW k, NEW spec, NEW answer, WriteEntity(k, spec, answer), Live(work[k]),
         \A i \in DOMAIN WrittenRows(k, spec, work[k].version + 1) :
           ~ Taken(k, WrittenRows(k, spec, work[k].version + 1)[i].key)
  PROVE  /\ rows' = rows \o WrittenRows(k, spec, work[k].version + 1)
         /\ work' = [work EXCEPT ![k] = RowAfter(k, work[k], spec, Len(rows) + 1)]
         /\ todo' = CallsOfWrite(k, Entries(k, work[k]), StoredAfter(k, work[k], spec, Len(rows) + 1).regions,
                                 Completion(work[k], spec.states) # {},
                                 CHOOSE t \in Completion(work[k], spec.states) : TRUE)
         /\ reply' = answer
         /\ UNCHANGED <<entities, history, phase, request, transactions>>
BY DEF WriteEntity, RowAfter, RowWith, StoredAfter, InstanceAfter, CallsOfWrite, committed

\* A write whose keys are new does not fail.
LEMMA WriteSucceeds ==
  ASSUME TreeInv, NEW k \in DOMAIN work, Live(work[k]),
         NEW spec, SpecOK(work[k], spec), SpecKeyOK(work[k], spec),
         spec.key.kind = "evt" =>
           \A i \in DOMAIN rows : ~ (rows[i].at = k /\ rows[i].type = spec.type /\ rows[i].ts = spec.ts),
         NEW i \in DOMAIN WrittenRows(k, spec, work[k].version + 1)
  PROVE  ~ Taken(k, WrittenRows(k, spec, work[k].version + 1)[i].key)
<1> DEFINE row == WrittenRows(k, spec, work[k].version + 1)[i]
<1>1. KeysOK(work, rows) /\ Shape(k, work[k])
  BY DEF TreeInv, Coherent, RowsOK
<1>2. NewKeyOK(row, work, k, spec) /\ (row.key.kind \in {"evt", "sub"} => row = MainRow(k, spec))
  BY <1>1, WrittenKeysAreNew
<1>3. spec.region \in DOMAIN work[k].states
  BY DEF SpecOK
<1> HIDE DEF row
<1>4. row.key.kind = "evt" =>
        \A j \in DOMAIN rows : ~ (rows[j].at = k /\ rows[j].type = row.type /\ rows[j].ts = row.ts)
  <2>1. row = MainRow(k, spec) => row.key = spec.key /\ row.type = spec.type /\ row.ts = spec.ts
    BY DEF MainRow
  <2>2. QED
    BY <1>2, <2>1
<1>5. \A j \in DOMAIN rows : ~ (rows[j].at = k /\ rows[j].key = row.key)
  BY <1>1, <1>2, <1>3, <1>4, KeysAreFresh
<1>6. QED
  BY <1>5 DEF Taken, row

\* Its effect on the rows.
LEMMA WriteEffect ==
  ASSUME NEW w, NEW k \in DOMAIN w, Shape(k, w[k]), Live(w[k]), NEW spec, SpecOK(w[k], spec), NEW first
  PROVE  LET v == [w EXCEPT ![k] = RowAfter(k, w[k], spec, first)]
         IN /\ Effect(w, k, spec, v, Completion(w[k], spec.states) # {})
            /\ \A r \in DOMAIN w[k].states : Entry(v[k], r) = StoredAfter(k, w[k], spec, first).regions[r]
<1> DEFINE e2 == RowAfter(k, w[k], spec, first)
           v == [w EXCEPT ![k] = e2]
           ended == Completion(w[k], spec.states) # {}
<1>1. /\ Written(k, w[k], spec, e2, ended)
      /\ \A r \in DOMAIN w[k].states : Entry(e2, r) = StoredAfter(k, w[k], spec, first).regions[r]
  BY RowAfterIs
<1> HIDE DEF e2, ended
<1>2. v[k] = e2 /\ DOMAIN v = DOMAIN w /\ \A j \in DOMAIN w : j # k => v[j] = w[j]
  OBVIOUS
<1>3. Effect(w, k, spec, v, ended)
  BY <1>1, <1>2 DEF Effect
<1>4. QED
  BY <1>1, <1>2, <1>3 DEF e2, ended

\* Its calls.
LEMMA WriteVisits ==
  ASSUME NEW k \in Keys, NEW w, NEW v, DOMAIN w[k].states = Regs(k), NEW old, NEW regions,
         \A r \in Regs(k) : old[r] = Entry(w[k], r) /\ regions[r] = Entry(v[k], r),
         NEW ended \in BOOLEAN, NEW target
  PROVE  /\ Visits(w, k, v, ended, Calls(CallsOfWrite(k, old, regions, ended, target)))
         /\ \A y \in Calls(CallsOfWrite(k, old, regions, ended, target)) : y.op \in {"visit", "complete"}
         /\ IsSeq(CallsOfWrite(k, old, regions, ended, target))
         /\ Ordered(CallsOfWrite(k, old, regions, ended, target))
<1> DEFINE s == CallsOfWrite(k, old, regions, ended, target)
<1>1. /\ IsSeq(s) /\ Ordered(s)
      /\ \A r \in Regs(k) : VisitCall(k, r, old[r], regions[r], ended) \in Calls(s)
      /\ ended => CompleteCall(k, target) \in Calls(s)
      /\ \A y \in Calls(s) : \/ ended /\ y = CompleteCall(k, target)
                             \/ \E r \in Regs(k) : y = VisitCall(k, r, old[r], regions[r], ended)
  BY CallsOfWriteAre
<1> HIDE DEF s
<1>2. CompleteCall(k, target).op = "complete" /\ CompleteCall(k, target).at = k
  BY DEF CompleteCall
<1>3. \A r \in Regs(k) : LET y == VisitCall(k, r, old[r], regions[r], ended)
                         IN /\ y.op = "visit" /\ y.at = k /\ y.region = r /\ y.ended = ended
                            /\ y.old = Entry(w[k], r) /\ y.new = Entry(v[k], r)
  BY DEF VisitCall
<1>4. ASSUME NEW y \in Calls(s)
      PROVE  /\ y.at = k /\ y.op \in {"visit", "complete"}
             /\ \/ y.op = "complete" /\ ended = TRUE
                \/ /\ y.op = "visit" /\ y.region \in DOMAIN w[k].states /\ y.ended = ended
                   /\ y.old = Entry(w[k], y.region) /\ y.new = Entry(v[k], y.region)
  <2>1. CASE ended /\ y = CompleteCall(k, target)
    BY <1>2, <2>1
  <2>2. ASSUME NEW r \in Regs(k), y = VisitCall(k, r, old[r], regions[r], ended)
        PROVE  /\ y.op = "visit" /\ y.at = k /\ y.region \in DOMAIN w[k].states /\ y.ended = ended
               /\ y.old = Entry(w[k], y.region) /\ y.new = Entry(v[k], y.region)
    BY <1>3, <2>2
  <2>3. QED
    BY <1>1, <2>1, <2>2
<1>5. \A r \in DOMAIN w[k].states : \E y \in Calls(s) : y.op = "visit" /\ y.region = r
  BY <1>1, <1>3
<1>6. ended = TRUE => \E y \in Calls(s) : y.op = "complete"
  BY <1>1, <1>2
<1>7. Visits(w, k, v, ended, Calls(s))
  BY <1>4, <1>5, <1>6 DEF Visits
<1>8. QED
  BY <1>1, <1>4, <1>7 DEF s

\* A write by the innermost call, when nothing else is pending but the call for
\* which it is made.
LEMMA WriteKeeps ==
  ASSUME TreeInv, NEW k \in DOMAIN work, Live(work[k]),
         NEW spec, SpecOK(work[k], spec), SpecKeyOK(work[k], spec),
         NEW answer, answer \in {reply, "applied", "duplicate"},
         spec.key.kind = "evt" =>
           \A i \in DOMAIN rows : ~ (rows[i].at = k /\ rows[i].type = spec.type /\ rows[i].ts = spec.ts),
         \A y \in Pending : y.op \in Quiet \union {"complete"},
         \A y \in Pending : y.op = "complete" =>
           LET link == work[y.at].instance.link
           IN /\ link.owner = k /\ link.region = spec.region
              /\ spec.key = SubCompleteIdentity(link.region, link.state, link.seq),
         spec.key.kind = "sub" => \E y \in Pending : y.op = "complete",
         WriteEntity(k, spec, answer)
  PROVE  /\ Keeps /\ reply' = answer
         /\ \A y \in Calls(todo') : y.op \in {"visit", "complete"}
         /\ \E i \in DOMAIN rows' : rows'[i] = MainRow(k, spec)
<1> DEFINE new == WrittenRows(k, spec, work[k].version + 1)
           v == work'
           g == rows'
           D == Calls(todo')
           ended == Completion(work[k], spec.states) # {}
           first == Len(rows) + 1
<1>1. /\ Coherent(work, rows, Pending) /\ RowsOK(work) /\ IsSeq(rows)
      /\ Shape(k, work[k]) /\ k \in Keys /\ DOMAIN work[k].states = Regs(k)
  BY DEF TreeInv, Coherent, RowsOK, KeysOK, Shape
<1>2. \A i \in DOMAIN new : ~ Taken(k, new[i].key)
  BY WriteSucceeds
<1>3. /\ g = rows \o new
      /\ v = [work EXCEPT ![k] = RowAfter(k, work[k], spec, first)]
      /\ todo' = CallsOfWrite(k, Entries(k, work[k]), StoredAfter(k, work[k], spec, first).regions,
                              ended, CHOOSE t \in Completion(work[k], spec.states) : TRUE)
      /\ reply' = answer
      /\ UNCHANGED <<entities, history, phase, request, transactions>>
  BY <1>2, WriteEntityIs
<1>4. /\ IsSeq(new) /\ 1 \in DOMAIN new /\ new[1] = MainRow(k, spec)
  <2>1. IsSeq(spec.fired)
    BY DEF SpecOK
  <2>2. DOMAIN new = 1..Len(new) /\ Len(new) \in Nat \ {0} /\ IsSeq(new) /\ new[1] = MainRow(k, spec)
    BY <2>1, WrittenRowsAre
  <2> HIDE DEF new
  <2>3. QED
    BY <2>2
<1>5. \A i \in DOMAIN new : /\ new[i].at = k /\ NewKeyOK(new[i], work, k, spec)
                            /\ new[i].key.kind \in {"evt", "sub"} => new[i] = MainRow(k, spec)
  BY <1>1, WrittenKeysAreNew
<1>6. /\ Effect(work, k, spec, v, ended)
      /\ \A r \in Regs(k) : Entry(v[k], r) = StoredAfter(k, work[k], spec, first).regions[r]
  <2> DEFINE u == [work EXCEPT ![k] = RowAfter(k, work[k], spec, first)]
  <2> HIDE DEF first
  <2>1. /\ Effect(work, k, spec, u, ended)
        /\ \A r \in DOMAIN work[k].states : Entry(u[k], r) = StoredAfter(k, work[k], spec, first).regions[r]
    BY <1>1, WriteEffect
  <2>2. u = v
    BY <1>3 DEF first
  <2> HIDE DEF u, v, ended
  <2>3. QED
    BY <1>1, <2>1, <2>2
<1>7. \A r \in Regs(k) : Entries(k, work[k])[r] = Entry(work[k], r)
  BY <1>1, EntriesAreStored
<1> HIDE DEF new, v, g, ended, first
<1>8. /\ IsSeq(g)
      /\ \A i \in DOMAIN g : \/ \E j \in DOMAIN rows : g[i] = rows[j]
                             \/ \E j \in DOMAIN new : g[i] = new[j]
      /\ \A j \in DOMAIN rows : \E i \in DOMAIN g : g[i] = rows[j]
      /\ \A j \in DOMAIN new : \E i \in DOMAIN g : g[i] = new[j]
  <2>1. Longer(rows, new, rows \o new)
    BY <1>1, <1>4, HistoryGrows
  <2>2. Longer(rows, new, g)
    BY <1>3, <2>1
  <2>3. QED
    BY <2>2 DEF Longer
<1>9. /\ Visits(work, k, v, ended, D)
      /\ \A y \in D : y.op \in {"visit", "complete"}
      /\ IsSeq(todo') /\ Ordered(todo')
  <2> DEFINE old == Entries(k, work[k])
             regions == StoredAfter(k, work[k], spec, first).regions
             target == CHOOSE t \in Completion(work[k], spec.states) : TRUE
  <2>1. \A r \in Regs(k) : old[r] = Entry(work[k], r) /\ regions[r] = Entry(v[k], r)
    BY <1>6, <1>7
  <2>2. ended \in BOOLEAN
    BY DEF ended
  <2>3. todo' = CallsOfWrite(k, old, regions, ended, target)
    BY <1>3
  <2> HIDE DEF old, regions, target
  <2>4. /\ Visits(work, k, v, ended, Calls(CallsOfWrite(k, old, regions, ended, target)))
        /\ \A y \in Calls(CallsOfWrite(k, old, regions, ended, target)) : y.op \in {"visit", "complete"}
        /\ IsSeq(CallsOfWrite(k, old, regions, ended, target))
        /\ Ordered(CallsOfWrite(k, old, regions, ended, target))
    BY <1>1, <2>1, <2>2, WriteVisits
  <2>5. QED
    BY <2>3, <2>4
<1>10. \E i \in DOMAIN g : g[i] = MainRow(k, spec)
  BY <1>4, <1>8
<1>11. MainRow(k, spec).at = k /\ MainRow(k, spec).key = spec.key
  BY DEF MainRow
<1> HIDE DEF D
<1>12. Coherent(v, g, D)
  <2>1. \A i \in DOMAIN g : \/ \E j \in DOMAIN rows : g[i] = rows[j]
                            \/ g[i].at = k /\ NewKeyOK(g[i], work, k, spec)
    BY <1>5, <1>8
  <2>2. \A y \in Pending : y.op = "complete" =>
           LET link == work[y.at].instance.link
           IN /\ link.owner = k /\ link.region = spec.region
              /\ Has(g, k, SubCompleteIdentity(link.region, link.state, link.seq))
    BY <1>10, <1>11 DEF Has
  <2>3. \A i \in DOMAIN g : g[i].key.kind = "sub" =>
           \/ \E j \in DOMAIN rows : g[i] = rows[j]
           \/ \E y \in Pending : LET link == work[y.at].instance.link
                                 IN y.op = "complete" /\ g[i].key = SubCompleteIdentity(link.region, link.state, link.seq)
    <3> SUFFICES ASSUME NEW i \in DOMAIN g, g[i].key.kind = "sub", ~ \E j \in DOMAIN rows : g[i] = rows[j]
                 PROVE  \E y \in Pending : LET link == work[y.at].instance.link
                                           IN y.op = "complete" /\ g[i].key = SubCompleteIdentity(link.region, link.state, link.seq)
      OBVIOUS
    <3>1. g[i].key = spec.key
      BY <1>5, <1>8, <1>11
    <3>2. PICK y \in Pending : y.op = "complete"
      BY <3>1
    <3>3. QED
      BY <3>1, <3>2
  <2>4. ended \in BOOLEAN
    BY DEF ended
  <2>5. QED
    BY <1>1, <1>6, <1>8, <1>9, <2>1, <2>2, <2>3, <2>4, Wrote
<1>13. \A j \in DOMAIN work : j \in DOMAIN v /\ (v[j] = work[j] \/ Live(work[j]))
  BY <1>6 DEF Effect
<1>14. Keeps
  BY <1>3, <1>8, <1>9, <1>12, <1>13 DEF Keeps, v, g, D
<1>15. QED
  BY <1>3, <1>9, <1>10, <1>14 DEF g, D

-----------------------------------------------------------------------------
(* The calls that calls make.                                              *)

\* A row's name has a length.
LEMMA KeyHasLength ==
  ASSUME NEW k \in Keys
  PROVE  Len(k.path) \in Nat /\ \A i \in DOMAIN RegionsOf(k) : RegionsOf(k)[i] \in Regs(k)
<1>1. k.path \in Seq(StateNames)
  BY DEF Keys
<1>2. {RegionsOf(k)[i] : i \in DOMAIN RegionsOf(k)} = Regs(k)
  BY DefinitionIs DEF Keys, RegionsOf, Regs
<1>3. QED
  BY <1>1, <1>2

\* A visit cancels and starts in one region of one entity.
LEMMA VisitCallsAre ==
  ASSUME NEW x, Len(x.at.path) \in Nat, x.ended \in BOOLEAN, NEW changed \in BOOLEAN
  PROVE  LET s == VisitCalls(x, changed)
         IN /\ IsSeq(s) /\ Ordered(s)
            /\ changed \/ x.ended <=> CancelCall(x.at, x.region, x.old.state) \in Calls(s)
            /\ changed /\ ~ x.ended <=> StartCall(x.at, x.region, x.new.state, x.new.seq) \in Calls(s)
            /\ \A y \in Calls(s) : \/ y = CancelCall(x.at, x.region, x.old.state)
                                   \/ y = StartCall(x.at, x.region, x.new.state, x.new.seq)
<1> DEFINE c == CancelCall(x.at, x.region, x.old.state)
           b == StartCall(x.at, x.region, x.new.state, x.new.seq)
           s == IF changed \/ x.ended THEN <<c>> ELSE <<>>
           t == IF changed /\ ~ x.ended THEN <<b>> ELSE <<>>
<1>1. c.op = "cancel" /\ c.at = x.at /\ b.op = "start" /\ b.at = x.at
  BY DEF CancelCall, StartCall
<1>2. VisitCalls(x, changed) = s \o t
  BY DEF VisitCalls
<1> HIDE DEF c, b
<1>3. Above(c, b) /\ c # b
  BY <1>1 DEF Above, Descends
<1>4. /\ IsSeq(s) /\ Ordered(s) /\ Calls(s) = IF changed \/ x.ended THEN {c} ELSE {}
      /\ IsSeq(t) /\ Ordered(t) /\ Calls(t) = IF changed /\ ~ x.ended THEN {b} ELSE {}
  BY SmallStacks
<1> HIDE DEF s, t
<1>5. \A y \in Calls(s), z \in Calls(t) : Above(y, z)
  BY <1>3, <1>4
<1>6. IsSeq(s \o t) /\ Ordered(s \o t) /\ Calls(s \o t) = Calls(s) \union Calls(t)
  BY <1>4, <1>5, StackGrows
<1>7. /\ changed \/ x.ended <=> c \in Calls(s \o t)
      /\ changed /\ ~ x.ended <=> b \in Calls(s \o t)
      /\ \A y \in Calls(s \o t) : y = c \/ y = b
  BY <1>3, <1>4, <1>6
<1>8. QED
  BY <1>2, <1>6, <1>7 DEF c, b

\* A new entity's starts.
StartsOf(k) ==
  [i \in DOMAIN RegionsOf(k) |->
     LET r == RegionsOf(k)[i] IN StartCall(k, r, Defs[k.machine].initial[r], 1)]

LEMMA StartsAre ==
  ASSUME NEW k \in Keys
  PROVE  /\ IsSeq(StartsOf(k)) /\ Ordered(StartsOf(k))
         /\ \A r \in Regs(k) : StartCall(k, r, Defs[k.machine].initial[r], 1) \in Calls(StartsOf(k))
         /\ \A y \in Calls(StartsOf(k)) : \E r \in Regs(k) : y = StartCall(k, r, Defs[k.machine].initial[r], 1)
<1> DEFINE R == RegionsOf(k)
           f == [r \in Regs(k) |-> StartCall(k, r, Defs[k.machine].initial[r], 1)]
           s == [i \in DOMAIN R |-> f[R[i]]]
<1>1. \A r \in Regs(k) : f[r].op = "start" /\ f[r].at = k /\ f[r] = StartCall(k, r, Defs[k.machine].initial[r], 1)
  BY DEF StartCall
<1>2. Len(k.path) \in Nat /\ \A i \in DOMAIN R : R[i] \in Regs(k)
  BY KeyHasLength
<1>3. s = StartsOf(k)
  <2>1. \A i \in DOMAIN R : f[R[i]] = StartCall(k, R[i], Defs[k.machine].initial[R[i]], 1)
    BY <1>2
  <2>2. s = [i \in DOMAIN R |-> StartCall(k, R[i], Defs[k.machine].initial[R[i]], 1)]
    BY <2>1
  <2>3. QED
    BY <2>2 DEF StartsOf
<1> HIDE DEF f
<1>4. \A r, q \in Regs(k) : Above(f[r], f[q])
  BY <1>1, <1>2 DEF Above, Descends
<1>5. IsSeq(s) /\ Ordered(s) /\ Calls(s) = {f[r] : r \in Regs(k)}
  BY <1>4, RegionCalls
<1> HIDE DEF s
<1>6. QED
  BY <1>1, <1>3, <1>5

\* The cancellations of an instance, and its end.
CancelsOf(k, states) ==
  [i \in DOMAIN RegionsOf(k) |-> LET r == RegionsOf(k)[i] IN CancelCall(k, r, states[r])]

LEMMA CancelsAre ==
  ASSUME NEW k \in Keys, NEW states
  PROVE  LET s == CancelsOf(k, states) \o <<EndCall(k)>>
         IN /\ IsSeq(s) /\ Ordered(s)
            /\ EndCall(k) \in Calls(s) /\ \A r \in Regs(k) : CancelCall(k, r, states[r]) \in Calls(s)
            /\ \A y \in Calls(s) : y = EndCall(k) \/ \E r \in Regs(k) : y = CancelCall(k, r, states[r])
<1> DEFINE R == RegionsOf(k)
           f == [r \in Regs(k) |-> CancelCall(k, r, states[r])]
           s == [i \in DOMAIN R |-> f[R[i]]]
           end == EndCall(k)
           t == <<end>>
<1>1. /\ \A r \in Regs(k) : f[r].op = "cancel" /\ f[r].at = k /\ f[r] = CancelCall(k, r, states[r])
      /\ end.op = "end" /\ end.at = k
  BY DEF CancelCall, EndCall
<1>2. Len(k.path) \in Nat /\ \A i \in DOMAIN R : R[i] \in Regs(k)
  BY KeyHasLength
<1>3. s = CancelsOf(k, states)
  <2>1. \A i \in DOMAIN R : f[R[i]] = CancelCall(k, R[i], states[R[i]])
    BY <1>2
  <2>2. s = [i \in DOMAIN R |-> CancelCall(k, R[i], states[R[i]])]
    BY <2>1
  <2>3. QED
    BY <2>2 DEF CancelsOf
<1> HIDE DEF f, end
<1>4. \A r, q \in Regs(k) : Above(f[r], f[q]) /\ Above(f[r], end)
  BY <1>1, <1>2 DEF Above, Descends
<1>5. IsSeq(s) /\ Ordered(s) /\ Calls(s) = {f[r] : r \in Regs(k)}
  BY <1>4, RegionCalls
<1>6. IsSeq(t) /\ Ordered(t) /\ Calls(t) = {end}
  BY SmallStacks
<1> HIDE DEF s, t
<1>7. \A y \in Calls(s), z \in Calls(t) : Above(y, z)
  BY <1>4, <1>5, <1>6
<1>8. IsSeq(s \o t) /\ Ordered(s \o t) /\ Calls(s \o t) = Calls(s) \union Calls(t)
  BY <1>5, <1>6, <1>7, StackGrows
<1>9. /\ end \in Calls(s \o t) /\ \A r \in Regs(k) : f[r] \in Calls(s \o t)
      /\ \A y \in Calls(s \o t) : y = end \/ \E r \in Regs(k) : y = f[r]
  BY <1>5, <1>6, <1>8
<1>10. CancelsOf(k, states) \o <<EndCall(k)>> = s \o t
  BY <1>3 DEF t, end
<1> DEFINE z == s \o t
<1> HIDE DEF z
<1>11. /\ IsSeq(z) /\ Ordered(z)
       /\ EndCall(k) \in Calls(z) /\ \A r \in Regs(k) : CancelCall(k, r, states[r]) \in Calls(z)
       /\ \A y \in Calls(z) : y = EndCall(k) \/ \E r \in Regs(k) : y = CancelCall(k, r, states[r])
  BY <1>1, <1>8, <1>9 DEF end, z
<1>12. QED
  BY <1>10, <1>11 DEF z

\* The forwards of an event.
ForwardsOf(k, states) ==
  [i \in DOMAIN RegionsOf(k) |-> LET r == RegionsOf(k)[i] IN ForwardCall(k, r, states[r])]

LEMMA ForwardsAre ==
  ASSUME NEW k \in Keys, NEW states
  PROVE  /\ IsSeq(ForwardsOf(k, states)) /\ Ordered(ForwardsOf(k, states))
         /\ \A y \in Calls(ForwardsOf(k, states)) : y.op = "forward" /\ y.at = k
<1> DEFINE R == RegionsOf(k)
           f == [r \in Regs(k) |-> ForwardCall(k, r, states[r])]
           s == [i \in DOMAIN R |-> f[R[i]]]
<1>1. \A r \in Regs(k) : f[r].op = "forward" /\ f[r].at = k /\ f[r] = ForwardCall(k, r, states[r])
  BY DEF ForwardCall
<1>2. \A i \in DOMAIN R : R[i] \in Regs(k)
  BY KeyHasLength
<1>3. s = ForwardsOf(k, states)
  <2>1. \A i \in DOMAIN R : f[R[i]] = ForwardCall(k, R[i], states[R[i]])
    BY <1>2
  <2>2. s = [i \in DOMAIN R |-> ForwardCall(k, R[i], states[R[i]])]
    BY <2>1
  <2>3. QED
    BY <2>2 DEF ForwardsOf
<1> HIDE DEF f
<1>4. \A r, q \in Regs(k) : Above(f[r], f[q])
  BY <1>1 DEF Above, Asks
<1>5. IsSeq(s) /\ Ordered(s) /\ Calls(s) = {f[r] : r \in Regs(k)}
  BY <1>4, RegionCalls
<1>6. QED
  BY <1>1, <1>3, <1>5

-----------------------------------------------------------------------------
(* The calls of the lifecycle.                                             *)

\* What calls of x.at may stand where x stood.
LEMMA StandsFor ==
  ASSUME NEW x, NEW R, \A y \in R : Above(x, y),
         NEW N, \A y \in N : y.at = x.at /\ y.op \in Descends /\ y.op # "end",
         \/ x.op \in {"visit", "start"}
         \/ x.op = "cancel" /\ \A y \in N : y.op = "cancel"
  PROVE  \A y \in N, z \in R : Above(y, z)
<1> SUFFICES ASSUME NEW y \in N, NEW z \in R PROVE Above(y, z)
  OBVIOUS
<1>1. CASE x.op \in {"visit", "start"}
  <2>1. z.op \in {"visit", "start", "complete"} /\ Len(z.at.path) <= Len(x.at.path)
    BY <1>1, BelowStart
  <2>2. QED
    BY <2>1 DEF Above, Descends
<1>2. CASE x.op = "cancel" /\ \A n \in N : n.op = "cancel"
  <2>1. z.op \in Descends \union {"complete"} /\ Len(z.at.path) <= Len(x.at.path)
    BY <1>2, BelowCancel
  <2>2. QED
    BY <1>2, <2>1 DEF Above, Descends
<1>3. QED
  BY <1>1, <1>2

\* The entity of a lifecycle call is there.
LEMMA CallerIs ==
  ASSUME TreeInv, NEW op \in Descends \union {"complete"}, Running(op)
  PROVE  /\ Head(todo).at \in DOMAIN work /\ Head(todo).at \in Keys
         /\ Shape(Head(todo).at, work[Head(todo).at]) /\ Len(Head(todo).at.path) \in Nat
<1>1. CallOK(Head(todo), work, {Head(todo)} \union Calls(Tail(todo))) /\ Head(todo).op = op
  BY HeadIs
<1>2. Head(todo).at \in DOMAIN work
  BY <1>1 DEF CallOK, Descends
<1>3. RowsOK(work)
  BY DEF TreeInv, Coherent
<1>4. QED
  BY <1>2, <1>3, RowIs

\* What stays under a lifecycle call.
LEMMA RestDescends ==
  ASSUME TreeInv, NEW op \in Descends, Running(op)
  PROVE  \A y \in Calls(Tail(todo)) : y.op \in Descends \union {"complete"}
<1>1. Head(todo).op \notin Asks
  BY HeadIs DEF Descends, Asks
<1>2. QED
  BY <1>1, HeadIs DEF Above

LEMMA VisitStep ==
  ASSUME TreeInv, Visit
  PROVE  Descended
<1> DEFINE x == Head(todo)
           R == Calls(Tail(todo))
           changed == x.old.seq # x.new.seq
           s == VisitCalls(x, changed)
<1>1. /\ Running("visit") /\ Return(s) /\ UNCHANGED <<work, rows, reply>>
  BY DEF Visit
<1>2. /\ Coherent(work, rows, {x} \union R) /\ x.op = "visit" /\ \A y \in R : Above(x, y)
      /\ CallOK(x, work, {x} \union R)
  BY <1>1, HeadIs
<1>3. Len(x.at.path) \in Nat /\ \A y \in R : y.op \in Descends \union {"complete"}
  BY <1>1, CallerIs, RestDescends DEF Descends
<1>4. x.ended \in BOOLEAN /\ changed \in BOOLEAN
  BY <1>2 DEF CallOK, VisitOK
<1> DEFINE c == CancelCall(x.at, x.region, x.old.state)
           b == StartCall(x.at, x.region, x.new.state, x.new.seq)
<1>5. /\ IsSeq(s) /\ Ordered(s)
      /\ changed \/ x.ended <=> c \in Calls(s)
      /\ changed /\ ~ x.ended <=> b \in Calls(s)
      /\ \A y \in Calls(s) : y = c \/ y = b
  BY <1>3, <1>4, VisitCallsAre
<1>6. c.op = "cancel" /\ c.at = x.at /\ b.op = "start" /\ b.at = x.at
  BY DEF CancelCall, StartCall
<1> HIDE DEF s
<1>7. Coherent(work, rows, Calls(s) \union R)
  BY <1>2, <1>4, <1>5, Visited
<1> HIDE DEF c, b, x, R
<1>8. \A y \in Calls(s) : y.at = x.at /\ y.op \in Descends /\ y.op # "end"
  BY <1>5, <1>6 DEF Descends
<1>9. \A y \in Calls(s), z \in R : Above(y, z)
  BY <1>2, <1>8, StandsFor
<1>10. Calls(todo') = Calls(s) \union R
  BY <1>1, <1>5, <1>9, Returned DEF R
<1>11. Keeps
  BY <1>1, <1>5, <1>7, <1>9, ReturnKeeps DEF R
<1>12. QED
  BY <1>1, <1>3, <1>8, <1>10, <1>11 DEF Descended

LEMMA SkipStartStep ==
  ASSUME TreeInv, SkipStart
  PROVE  Descended
<1> DEFINE x == Head(todo)
           R == Calls(Tail(todo))
<1>1. /\ Running("start") /\ Return(<<>>) /\ UNCHANGED <<work, rows, reply>>
      /\ ~ IsCompound(x.at, x.region, x.state)
  BY DEF SkipStart
<1>2. Coherent(work, rows, {x} \union R) /\ x.op = "start" /\ \A y \in R : Above(x, y)
  BY <1>1, HeadIs
<1>3. Coherent(work, rows, R)
  BY <1>1, <1>2, SkippedStart
<1>4. \A y \in R : y.op \in Descends \union {"complete"}
  BY <1>1, RestDescends DEF Descends
<1> HIDE DEF x, R
<1>5. IsSeq(<<>>) /\ Ordered(<<>>) /\ Calls(<<>>) = {}
  BY SmallStacks
<1>6. Calls(todo') = R
  BY <1>1, <1>5, Returned DEF R
<1>7. Keeps
  BY <1>1, <1>3, <1>5, ReturnKeeps DEF R
<1>8. QED
  BY <1>1, <1>4, <1>6, <1>7 DEF Descended

\* The instance that a start creates.
LEMMA StartedInstance ==
  ASSUME NEW w, RowsOK(w), NEW k \in DOMAIN w, NEW r, NEW s, IsCompound(k, r, s), NEW seq,
         ~ (w[k].instance.depth + 1 > MaxDepth)
  PROVE  LET child == ChildKey(k, r, s)
             x == Active(child, k, r, s, seq, w[k].instance.depth + 1)
         IN /\ child \in Keys /\ Len(k.path) \in Nat /\ Len(child.path) = Len(k.path) + 1
            /\ InstanceOK(child, x) /\ x.status = "active" /\ x # NotManaged
            /\ x.link = [owner |-> k, region |-> r, state |-> s, seq |-> seq]
<1> DEFINE child == ChildKey(k, r, s)
           depth == w[k].instance.depth + 1
           link == [owner |-> k, region |-> r, state |-> s, seq |-> seq]
           x == Active(child, k, r, s, seq, depth)
<1>1. k \in Keys /\ Shape(k, w[k])
  BY RowIs
<1>2. child \in Keys /\ Len(k.path) \in Nat /\ Len(child.path) = Len(k.path) + 1
  BY <1>1, ChildKeyIsKey
<1>3. depth \in 1..MaxDepth
  <2>1. InstanceOK(k, w[k].instance)
    BY <1>1 DEF Shape
  <2>2. w[k].instance.depth = 0 \/ w[k].instance.depth \in 1..MaxDepth
    BY <2>1, StatusIs
  <2>3. QED
    BY <2>2, BoundsAssumption
<1> HIDE DEF depth
<1>4. x = [status |-> "active", depth |-> depth, link |-> link]
  BY DEF Active
<1>5. x.status = "active" /\ x.depth = depth /\ x.link = link /\ x # NotManaged
  BY <1>4 DEF NotManaged
<1>6. link.owner = k /\ link.region = r /\ link.state = s
  OBVIOUS
<1> HIDE DEF link, x
<1>7. child = ChildKey(link.owner, link.region, link.state) /\ IsCompound(link.owner, link.region, link.state)
  BY <1>6
<1> HIDE DEF child
<1>8. InstanceOK(child, x)
  BY <1>1, <1>3, <1>4, <1>5, <1>6, <1>7 DEF InstanceOK
<1>9. QED
  BY <1>2, <1>5, <1>8 DEF child, depth, link, x

LEMMA StartChildStep ==
  ASSUME TreeInv, StartChild
  PROVE  Descended \/ Fail("nesting_depth_exceeded") \/ Fail("instance_conflict")
<1> DEFINE x == Head(todo)
           R == Calls(Tail(todo))
           k == ChildKey(x.at, x.region, x.state)
           depth == work[x.at].instance.depth + 1
           instance == Active(k, x.at, x.region, x.state, x.seq, depth)
           s == StartsOf(k)
<1> SUFFICES ASSUME ~ Fail("nesting_depth_exceeded"), ~ Fail("instance_conflict")
             PROVE  Descended
  OBVIOUS
<1>1. /\ Running("start") /\ IsCompound(x.at, x.region, x.state)
      /\ ~ (depth > MaxDepth) /\ k \notin DOMAIN work
      /\ work' = Insert(work, k, NewEntity(k, instance)) /\ Return(s) /\ UNCHANGED <<rows, reply>>
  BY DEF StartChild, StartChildWithin, StartsOf
<1>2. /\ Coherent(work, rows, {x} \union R) /\ RowsOK(work)
      /\ x.op = "start" /\ \A y \in R : Above(x, y)
  BY <1>1, HeadIs DEF TreeInv, Coherent
<1>3. x.at \in DOMAIN work /\ \A y \in R : y.op \in Descends \union {"complete"}
  BY <1>1, CallerIs, RestDescends DEF Descends
<1>4. /\ k \in Keys /\ Len(x.at.path) \in Nat /\ Len(k.path) = Len(x.at.path) + 1
      /\ InstanceOK(k, instance) /\ instance.status = "active" /\ instance # NotManaged
      /\ instance.link = [owner |-> x.at, region |-> x.region, state |-> x.state, seq |-> x.seq]
  <2>1. ~ (work[x.at].instance.depth + 1 > MaxDepth)
    BY <1>1
  <2>2. QED
    BY <1>1, <1>2, <1>3, <2>1, StartedInstance
<1> HIDE DEF depth, instance
<1>5. /\ IsSeq(s) /\ Ordered(s)
      /\ \A r \in Regs(k) : StartCall(k, r, Defs[k.machine].initial[r], 1) \in Calls(s)
      /\ \A y \in Calls(s) : \E r \in Regs(k) : y = StartCall(k, r, Defs[k.machine].initial[r], 1)
  BY <1>4, StartsAre
<1>6. k = ChildKey(x.at, x.region, x.state)
  OBVIOUS
<1> HIDE DEF k
<1>7. Coherent(Insert(work, k, NewEntity(k, instance)), rows, Calls(s) \union R)
  BY <1>1, <1>2, <1>4, <1>5, <1>6, Inserted
<1>8. \A y \in Calls(s) : y.op = "start" /\ y.at = k
  BY <1>5 DEF StartCall
<1> HIDE DEF s, x, R
<1>9. \A y \in Calls(s), z \in R : Above(y, z)
  <2> SUFFICES ASSUME NEW y \in Calls(s), NEW z \in R PROVE Above(y, z)
    OBVIOUS
  <2>1. z.op \in {"visit", "start", "complete"} /\ Len(z.at.path) <= Len(x.at.path)
    BY <1>2, BelowStart
  <2>2. Len(z.at.path) \in Nat
    <3>1. CallOK(z, work, {x} \union R)
      BY <1>2 DEF Coherent, CallsOK
    <3>2. z.at \in DOMAIN work
      BY <2>1, <3>1 DEF CallOK
    <3>3. QED
      BY <1>2, <3>2, RowIs
  <2>3. Len(z.at.path) <= Len(y.at.path)
    BY <1>4, <1>8, <2>1, <2>2
  <2>4. QED
    BY <1>8, <2>1, <2>3 DEF Above, Descends
<1>10. /\ IsSeq(todo') /\ Ordered(todo') /\ Calls(todo') = Calls(s) \union R
       /\ UNCHANGED <<entities, history, phase, request, transactions>>
  BY <1>1, <1>5, <1>9, Returned DEF R
<1>11. Coherent(work', rows', Calls(todo'))
  BY <1>1, <1>7, <1>10
<1>12. \A j \in DOMAIN work : j \in DOMAIN work' /\ work'[j] = work[j]
  BY <1>1 DEF Insert
<1>13. Keeps
  BY <1>1, <1>10, <1>11, <1>12 DEF Keeps
<1>14. QED
  BY <1>1, <1>3, <1>8, <1>10, <1>13 DEF Descended, Descends

LEMMA CancelChildStep ==
  ASSUME TreeInv, CancelChild
  PROVE  Descended
<1> DEFINE x == Head(todo)
           R == Calls(Tail(todo))
           active == ActiveChild(x.at, x.region, x.state)
<1>1. /\ Running("cancel") /\ UNCHANGED <<work, rows, reply>>
      /\ \/ active = {} /\ Return(<<>>)
         \/ \E k \in active : Return(CancelsOf(k, work[k].states) \o <<EndCall(k)>>)
  BY DEF CancelChild, CancelsOf
<1>2. /\ Coherent(work, rows, {x} \union R) /\ RowsOK(work)
      /\ x.op = "cancel" /\ \A y \in R : Above(x, y)
  BY <1>1, HeadIs DEF TreeInv, Coherent
<1>3. x.at \in DOMAIN work /\ x.at \in Keys /\ \A y \in R : y.op \in Descends \union {"complete"}
  BY <1>1, CallerIs, RestDescends DEF Descends
<1>4. ASSUME active = {}, Return(<<>>)
      PROVE  Descended
  <2>1. IsCompound(x.at, x.region, x.state) =>
          LET child == ChildKey(x.at, x.region, x.state)
          IN ~ (child \in DOMAIN work /\ work[child].instance.status = "active")
    BY <1>4, ActiveChildIs
  <2>2. Coherent(work, rows, R)
    BY <1>2, <2>1, NothingToCancel
  <2> HIDE DEF x, R, active
  <2>3. IsSeq(<<>>) /\ Ordered(<<>>) /\ Calls(<<>>) = {}
    BY SmallStacks
  <2>4. Calls(todo') = R
    BY <1>1, <1>4, <2>3, Returned DEF R
  <2>5. Keeps
    BY <1>1, <1>4, <2>2, <2>3, ReturnKeeps DEF R
  <2>6. QED
    BY <1>1, <1>3, <2>4, <2>5 DEF Descended
<1>5. ASSUME NEW k \in active, Return(CancelsOf(k, work[k].states) \o <<EndCall(k)>>)
      PROVE  Descended
  <2> DEFINE s == CancelsOf(k, work[k].states) \o <<EndCall(k)>>
  <2>1. /\ IsCompound(x.at, x.region, x.state) /\ k = ChildKey(x.at, x.region, x.state)
        /\ k \in DOMAIN work /\ work[k].instance.status = "active"
    BY <1>5, ActiveChildIs
  <2>2. k \in Keys /\ Len(x.at.path) \in Nat /\ Len(k.path) = Len(x.at.path) + 1
    BY <1>3, <2>1, ChildKeyIsKey
  <2>3. /\ IsSeq(s) /\ Ordered(s)
        /\ EndCall(k) \in Calls(s) /\ \A r \in Regs(k) : CancelCall(k, r, work[k].states[r]) \in Calls(s)
        /\ \A y \in Calls(s) : y = EndCall(k) \/ \E r \in Regs(k) : y = CancelCall(k, r, work[k].states[r])
    BY <2>2, CancelsAre
  <2> HIDE DEF s
  <2>4. Coherent(work, rows, Calls(s) \union R)
    BY <1>2, <2>1, <2>3, ToCancel
  <2>5. \A y \in Calls(s) : y.op \in {"cancel", "end"} /\ y.at = k
    BY <2>3 DEF CancelCall, EndCall
  <2> HIDE DEF x, R, active
  <2>6. \A y \in Calls(s), z \in R : Above(y, z)
    <3> SUFFICES ASSUME NEW y \in Calls(s), NEW z \in R PROVE Above(y, z)
      OBVIOUS
    <3>1. z.op \in Descends \union {"complete"} /\ Len(z.at.path) <= Len(x.at.path)
      BY <1>2, BelowCancel
    <3>2. Len(z.at.path) \in Nat
      <4>1. CallOK(z, work, {x} \union R)
        BY <1>2 DEF Coherent, CallsOK
      <4>2. z.at \in DOMAIN work
        BY <3>1, <4>1 DEF CallOK, Descends
      <4>3. QED
        BY <1>2, <4>2, RowIs
    <3>3. Len(z.at.path) < Len(y.at.path) /\ Len(z.at.path) <= Len(y.at.path)
      BY <2>2, <2>5, <3>1, <3>2
    <3>4. QED
      BY <2>5, <3>1, <3>3 DEF Above, Descends
  <2>7. Return(s)
    BY <1>5 DEF s
  <2>8. Calls(todo') = Calls(s) \union R
    BY <1>1, <2>3, <2>6, <2>7, Returned DEF R
  <2>9. Keeps
    BY <1>1, <2>3, <2>4, <2>6, <2>7, ReturnKeeps DEF R
  <2>10. QED
    BY <1>1, <1>3, <2>5, <2>8, <2>9 DEF Descended, Descends
<1>6. QED
  BY <1>1, <1>4, <1>5

\* The row that a cancellation leaves.
LEMMA EndedRow ==
  ASSUME NEW k, NEW e, Shape(k, e), e.instance # NotManaged
  PROVE  LET e2 == [e EXCEPT !.version = @ + 1, !.instance.status = "cancelled",
                             !.stored = [version |-> e.version + 1, regions |-> Entries(k, e)]]
         IN /\ Shape(k, e2) /\ e2.states = e.states /\ e2.version = e.version + 1
            /\ \A r \in DOMAIN e.states : Entry(e2, r) = Entry(e, r)
            /\ e2.instance.status = "cancelled" /\ e2.instance.link = e.instance.link
<1> DEFINE stored == [version |-> e.version + 1, regions |-> Entries(k, e)]
           x == e.instance
           x2 == [x EXCEPT !.status = "cancelled"]
           e2 == [e EXCEPT !.version = @ + 1, !.instance.status = "cancelled", !.stored = stored]
<1>1. /\ IsRow(e) /\ InstanceOK(k, x) /\ e.version \in Nat \ {0}
      /\ DOMAIN e.stored.regions = DOMAIN e.states
      /\ \A r \in DOMAIN e.states : Entry(e, r).state = e.states[r] /\ Entry(e, r).seq \in 1..e.version
      /\ DOMAIN e.states = Regs(k)
  BY DEF Shape
<1>2. x # NotManaged
  OBVIOUS
<1>3. /\ x = [status |-> x.status, depth |-> x.depth, link |-> x.link]
      /\ x.depth \in 1..MaxDepth
  BY <1>1, <1>2 DEF InstanceOK
<1>4. /\ x2 = [status |-> "cancelled", depth |-> x.depth, link |-> x.link]
      /\ x2.status = "cancelled" /\ x2.depth = x.depth /\ x2.link = x.link
  BY <1>3
<1>5. stored.version = e.version + 1 /\ stored.regions = Entries(k, e)
  OBVIOUS
<1>6. \A r \in DOMAIN e.states : Entries(k, e)[r] = Entry(e, r)
  BY EntriesAreStored
<1>7. DOMAIN Entries(k, e) = DOMAIN e.states
  BY EntriesAreStored
<1>8. e2 = [states |-> e.states, context |-> e.context, version |-> e.version + 1,
            created_at |-> e.created_at, updated_at |-> e.updated_at,
            stored |-> stored, instance |-> x2]
  <2> HIDE DEF stored
  <2>1. DOMAIN e = {"states", "context", "version", "created_at", "updated_at", "stored", "instance"}
    BY <1>1 DEF IsRow
  <2>2. DOMAIN e2 = DOMAIN e
    OBVIOUS
  <2>3. /\ e2["states"] = e.states /\ e2["context"] = e.context /\ e2["version"] = e.version + 1
        /\ e2["created_at"] = e.created_at /\ e2["updated_at"] = e.updated_at
        /\ e2["stored"] = stored /\ e2["instance"] = x2
    BY <2>1
  <2>4. e2 \in [DOMAIN e -> {e2[f] : f \in DOMAIN e}]
    BY <2>2
  <2> HIDE DEF e2, x2
  <2>5. QED
    BY <2>1, <2>3, <2>4
<1> HIDE DEF stored, x2, e2
<1>9. /\ e2.states = e.states /\ e2.version = e.version + 1 /\ e2.stored = stored /\ e2.instance = x2
      /\ IsRow(e2)
  BY <1>8 DEF IsRow
<1>10. \A r \in DOMAIN e.states : Entry(e2, r) = Entry(e, r)
  BY <1>5, <1>6, <1>9 DEF Entry
<1>11. InstanceOK(k, x2)
  BY <1>1, <1>2, <1>3, <1>4 DEF InstanceOK
<1>12. e2.version \in Nat \ {0} /\ \A r \in DOMAIN e.states : Entry(e2, r).seq \in 1..e2.version
  BY <1>1, <1>9, <1>10
<1>13. Shape(k, e2)
  BY <1>1, <1>5, <1>7, <1>9, <1>10, <1>11, <1>12 DEF Shape
<1>14. e2.instance.status = "cancelled" /\ e2.instance.link = x.link
  BY <1>4, <1>9
<1>15. QED
  BY <1>9, <1>10, <1>13, <1>14 DEF e2, stored

\* A history with one row more.
LEMMA OneRowMore ==
  ASSUME NEW h, IsSeq(h), NEW row
  PROVE  Longer(h, <<row>>, Append(h, row))
<1> DEFINE S == {h[i] : i \in DOMAIN h} \union {row}
           g == Append(h, row)
<1>1. Len(h) \in Nat /\ DOMAIN h = 1..Len(h)
  BY SeqDomain
<1>2. h \in Seq(S) /\ row \in S
  <2>1. h \in Seq({h[i] : i \in DOMAIN h})
    BY DEF IsSeq
  <2>2. h \in [1..Len(h) -> S]
    BY <1>1, <2>1
  <2> HIDE DEF S
  <2>3. h \in Seq(S)
    BY <1>1, <2>2
  <2>4. QED
    BY <2>3 DEF S
<1> HIDE DEF S
<1>3. /\ g \in Seq(S) /\ Len(g) = Len(h) + 1 /\ DOMAIN g = 1..(Len(h) + 1)
      /\ \A i \in 1..Len(h) : g[i] = h[i]
      /\ g[Len(h) + 1] = row
  BY <1>1, <1>2
<1> HIDE DEF g
<1>4. IsSeq(g)
  BY <1>3, SeqIsSeq
<1>5. \A i \in DOMAIN g : (\E j \in DOMAIN h : g[i] = h[j]) \/ g[i] = row
  <2> SUFFICES ASSUME NEW i \in DOMAIN g PROVE (\E j \in DOMAIN h : g[i] = h[j]) \/ g[i] = row
    OBVIOUS
  <2>1. i \in 1..Len(h) \/ i = Len(h) + 1
    BY <1>1, <1>3
  <2>2. QED
    BY <1>1, <1>3, <2>1
<1>6. \A j \in DOMAIN h : j \in DOMAIN g /\ g[j] = h[j]
  BY <1>1, <1>3
<1>7. Len(h) + 1 \in DOMAIN g
  BY <1>1, <1>3
<1>8. DOMAIN <<row>> = {1} /\ <<row>>[1] = row
  OBVIOUS
<1>9. Longer(h, <<row>>, g)
  BY <1>3, <1>4, <1>5, <1>6, <1>7, <1>8 DEF Longer
<1>10. QED
  BY <1>9 DEF g

LEMMA EndChildStep ==
  ASSUME TreeInv, EndChild
  PROVE  Descended
<1> DEFINE x == Head(todo)
           R == Calls(Tail(todo))
           k == x.at
           e == work[k]
           key == CancelIdentity(e.instance.link.seq)
           row == [at |-> k, type |-> "$sub_cancel", ts |-> 0, params |-> <<>>, key |-> key]
           e2 == [e EXCEPT !.version = @ + 1, !.instance.status = "cancelled",
                           !.stored = [version |-> e.version + 1, regions |-> Entries(k, e)]]
           v == work'
           g == rows'
<1>1. Running("end")
  BY DEF EndChild
<1>2. /\ Coherent(work, rows, {x} \union R) /\ RowsOK(work) /\ WinnerOK(work, rows, {x} \union R) /\ IsSeq(rows)
      /\ x.op = "end" /\ \A y \in R : Above(x, y)
  BY <1>1, HeadIs DEF TreeInv, Coherent, KeysOK
<1>3. k \in DOMAIN work /\ Shape(k, e) /\ \A y \in R : y.op \in Descends \union {"complete"}
  BY <1>1, CallerIs, RestDescends DEF Descends
<1>4. e.instance.status = "active"
  <2>1. CallOK(x, work, {x} \union R)
    BY <1>1, HeadIs
  <2>2. QED
    BY <1>2, <2>1 DEF CallOK, EndOK
<1>5. ~ Taken(k, key)
  <2>1. e.instance # NotManaged
    BY <1>2, <1>3, <1>4, RowIs
  <2>2. Cancelled(work, rows, k)
    BY <1>2, <1>3, <2>1 DEF WinnerOK
  <2>3. QED
    BY <1>4, <2>2 DEF Cancelled, Has, Taken
<1>6. /\ g = Append(rows, row) /\ v = [work EXCEPT ![k] = e2]
      /\ Return(<<>>) /\ reply' = reply
  BY <1>5 DEF EndChild
<1>7. /\ Shape(k, e2) /\ e2.states = e.states /\ e2.version = e.version + 1
      /\ \A r \in DOMAIN e.states : Entry(e2, r) = Entry(e, r)
      /\ e2.instance.status = "cancelled" /\ e2.instance.link = e.instance.link
  <2>1. Shape(k, e) /\ e.instance # NotManaged
    BY <1>2, <1>3, <1>4, RowIs
  <2> HIDE DEF k, e
  <2>2. QED
    BY <2>1, EndedRow
<1>8. row.at = k /\ row.key = key
  OBVIOUS
<1> HIDE DEF row, e2, v, g
<1>9. v[k] = e2 /\ DOMAIN v = DOMAIN work /\ \A j \in DOMAIN work : j # k => v[j] = work[j]
  BY <1>3, <1>6
<1>10. Longer(rows, <<row>>, g)
  BY <1>2, <1>6, OneRowMore
<1>11. DOMAIN <<row>> = {1} /\ <<row>>[1] = row
  OBVIOUS
<1>12. /\ IsSeq(g)
       /\ \A i \in DOMAIN g : (\E j \in DOMAIN rows : g[i] = rows[j]) \/ (g[i].at = k /\ g[i].key = key)
       /\ \A j \in DOMAIN rows : \E i \in DOMAIN g : g[i] = rows[j]
       /\ \E i \in DOMAIN g : g[i] = row
  BY <1>8, <1>10, <1>11 DEF Longer
<1>13. Has(g, k, key)
  BY <1>8, <1>12 DEF Has
<1>14. Coherent(v, g, R)
  <2>1. /\ Shape(x.at, v[x.at]) /\ v[x.at].states = work[x.at].states
        /\ v[x.at].version = work[x.at].version + 1
        /\ \A r \in DOMAIN work[x.at].states : Entry(v[x.at], r) = Entry(work[x.at], r)
        /\ v[x.at].instance.status = "cancelled" /\ v[x.at].instance.link = work[x.at].instance.link
    BY <1>7, <1>9
  <2>2. DOMAIN v = DOMAIN work /\ \A j \in DOMAIN work : j # x.at => v[j] = work[j]
    BY <1>9
  <2>3. /\ IsSeq(g)
        /\ \A i \in DOMAIN g :
             \/ \E j \in DOMAIN rows : g[i] = rows[j]
             \/ g[i].at = x.at /\ g[i].key = CancelIdentity(work[x.at].instance.link.seq)
        /\ \A j \in DOMAIN rows : \E i \in DOMAIN g : g[i] = rows[j]
        /\ Has(g, x.at, CancelIdentity(work[x.at].instance.link.seq))
    BY <1>12, <1>13
  <2>4. Coherent(work, rows, {x} \union R) /\ x.op = "end" /\ \A y \in R : Above(x, y)
    BY <1>2
  <2> HIDE DEF x, R
  <2>5. QED
    BY <2>1, <2>2, <2>3, <2>4, Ended
<1>15. IsSeq(<<>>) /\ Ordered(<<>>) /\ Calls(<<>>) = {}
  BY SmallStacks
<1> HIDE DEF x, R
<1>16. /\ IsSeq(todo') /\ Ordered(todo') /\ Calls(todo') = R
       /\ UNCHANGED <<entities, history, phase, request, transactions>>
  BY <1>1, <1>6, <1>15, Returned DEF R
<1>17. \A j \in DOMAIN work : j \in DOMAIN v /\ (v[j] = work[j] \/ Live(work[j]))
  BY <1>4, <1>9 DEF Live
<1>18. Keeps
  BY <1>6, <1>12, <1>14, <1>16, <1>17 DEF Keeps, v, g
<1>19. QED
  BY <1>3, <1>6, <1>16, <1>18 DEF Descended

\* A completing child finds its parent in the entry that started it.
LEMMA ParentIs ==
  ASSUME TreeInv, Running("complete")
  PROVE  LET x == Head(todo)
             link == work[x.at].instance.link
             k == link.owner
         IN /\ Pending = {x} /\ Calls(Tail(todo)) = {} /\ x.op = "complete"
            /\ k \in DOMAIN work /\ Live(work[k]) /\ Shape(k, work[k]) /\ k \in Keys
            /\ link.region \in DOMAIN work[k].states
            /\ Entries(k, work[k])[link.region] = Entry(work[k], link.region)
            /\ EffectiveEntries(Defs[k.machine], work[k])[link.region] = Entry(work[k], link.region)
            /\ Entry(work[k], link.region).state = link.state
            /\ Entry(work[k], link.region).seq = link.seq
<1> DEFINE x == Head(todo)
           R == Calls(Tail(todo))
           link == work[x.at].instance.link
           k == link.owner
<1>1. /\ Pending = {x} \union R /\ CallOK(x, work, {x} \union R) /\ x.op = "complete"
      /\ \A y \in R : Above(x, y)
      /\ RowsOK(work)
  BY HeadIs DEF TreeInv, Coherent
<1>2. x.at \in DOMAIN work
  BY CallerIs
<1> HIDE DEF x, R
<1>3. R = {}
  BY <1>1 DEF Above, Asks, Descends
<1>4. work[x.at].instance.status = "completed" /\ k \in DOMAIN work /\ Current(work, x.at)
  BY <1>1 DEF CallOK, CompleteOK
<1>5. work[x.at].instance # NotManaged
  BY <1>1, <1>2, <1>4, RowIs
<1>6. link.region \in Regs(k)
  BY <1>1, <1>2, <1>5, LinkIs
<1>7. Shape(k, work[k]) /\ DOMAIN work[k].states = Regs(k) /\ k \in Keys
  BY <1>1, <1>4, RowIs
<1>8. Live(work[k]) /\ Entry(work[k], link.region).state = link.state /\ Entry(work[k], link.region).seq = link.seq
  BY <1>4 DEF Current
<1> HIDE DEF link
<1>9. /\ Entries(k, work[k])[link.region] = Entry(work[k], link.region)
      /\ EffectiveEntries(Defs[k.machine], work[k])[link.region] = Entry(work[k], link.region)
  BY <1>6, <1>7, EntriesAreStored
<1>10. QED
  BY <1>1, <1>3, <1>4, <1>6, <1>7, <1>8, <1>9 DEF x, R, link

LEMMA CompleteParentStep ==
  ASSUME TreeInv, CompleteParent
  PROVE  Descended
<1> DEFINE x == Head(todo)
           link == work[x.at].instance.link
           k == link.owner
           e == work[k]
           m == Defs[k.machine]
<1>1. Running("complete")
  BY DEF CompleteParent
<1>2. /\ Pending = {x} /\ x.op = "complete"
      /\ k \in DOMAIN work /\ Live(e) /\ Shape(k, e) /\ k \in Keys
      /\ link.region \in DOMAIN e.states
      /\ Entries(k, e)[link.region] = Entry(e, link.region)
      /\ EffectiveEntries(m, e)[link.region] = Entry(e, link.region)
      /\ Entry(e, link.region).state = link.state
      /\ Entry(e, link.region).seq = link.seq
  BY <1>1, ParentIs
<1>3. PICK spec \in ParentWrites(e, link, x.target, m) : WriteEntity(k, spec, reply)
  BY <1>2 DEF CompleteParent
<1>4. IsSeq(m.joins)
  BY <1>2, DefinitionIs DEF Keys
<1> HIDE DEF link, m
<1>5. /\ SpecOK(e, spec) /\ spec.region = link.region
      /\ spec.key = SubCompleteIdentity(link.region, link.state, EffectiveEntries(m, e)[link.region].seq)
  BY <1>2, <1>3, <1>4, ParentSpecs
<1>6. spec.key = SubCompleteIdentity(link.region, link.state, link.seq) /\ spec.key.kind = "sub"
  BY <1>2, <1>5 DEF SubCompleteIdentity
<1>7. SpecKeyOK(e, spec)
  BY <1>2, <1>5, <1>6 DEF SpecKeyOK
<1>8. \A y \in Pending : /\ y.op \in Quiet \union {"complete"}
                         /\ y.op = "complete" =>
                              LET l == work[y.at].instance.link
                              IN /\ l.owner = k /\ l.region = spec.region
                                 /\ spec.key = SubCompleteIdentity(l.region, l.state, l.seq)
  BY <1>2, <1>5, <1>6 DEF link
<1>9. \E y \in Pending : y.op = "complete"
  BY <1>2
<1> HIDE DEF x, k, e
<1>10. Keeps /\ reply' = reply /\ \A y \in Calls(todo') : y.op \in {"visit", "complete"}
  <2>1. k \in DOMAIN work /\ Live(work[k]) /\ SpecOK(work[k], spec) /\ SpecKeyOK(work[k], spec)
    BY <1>2, <1>5, <1>7 DEF e
  <2>2. spec.key.kind # "evt"
    BY <1>6
  <2>3. QED
    BY <1>3, <1>8, <1>9, <2>1, <2>2, WriteKeeps
<1>11. QED
  BY <1>10 DEF Descended, Descends

-----------------------------------------------------------------------------
(* The calls of a request.                                                 *)

\* Under a quiet call there are only entities still to be asked.
LEMMA QuietIs ==
  ASSUME TreeInv, NEW op \in Quiet, Running(op)
  PROVE  /\ \A y \in Calls(Tail(todo)) : y.op \in Asks /\ y.at \in DOMAIN work
         /\ \A y \in Pending : y.op \in Quiet
         /\ op \in {"target", "timer", "create"} => Calls(Tail(todo)) = {}
         /\ op \in Asks \union {"timer"} => Head(todo).at \in DOMAIN work
<1> DEFINE x == Head(todo)
           R == Calls(Tail(todo))
<1>1. /\ Pending = {x} \union R /\ Coherent(work, rows, {x} \union R) /\ x.op = op
      /\ \A y \in R : Above(x, y)
  BY HeadIs
<1> HIDE DEF x, R
<1>2. \A y \in R : op \in Asks /\ y.op \in Asks
  BY <1>1 DEF Above, Quiet, Asks, Descends
<1>3. \A y \in {x} \union R : CallOK(y, work, {x} \union R)
  BY <1>1 DEF Coherent, CallsOK
<1>4. \A y \in R : y.at \in DOMAIN work
  <2> SUFFICES ASSUME NEW y \in R PROVE y.at \in DOMAIN work
    OBVIOUS
  <2>1. CallOK(y, work, {x} \union R) /\ y.op \notin {"create", "target"}
    BY <1>2, <1>3 DEF Asks
  <2>2. QED
    BY <2>1 DEF CallOK
<1>5. op \in Asks \union {"timer"} => x.at \in DOMAIN work
  <2>1. CallOK(x, work, {x} \union R)
    BY <1>3
  <2>2. QED
    BY <1>1, <2>1 DEF CallOK, Asks
<1>6. op \in {"target", "timer", "create"} => R = {}
  BY <1>2 DEF Asks
<1>7. QED
  BY <1>1, <1>2, <1>4, <1>5, <1>6 DEF Quiet, x, R

\* Such a call returns, and others are to be asked.
LEMMA QuietReturns ==
  ASSUME TreeInv, NEW op \in Quiet, Running(op),
         NEW calls, IsSeq(calls), Ordered(calls),
         \A y \in Calls(calls) : y.op \in Asks /\ y.at \in DOMAIN work,
         Return(calls), UNCHANGED <<work, rows>>, reply' \in {reply, "applied", "duplicate"}
  PROVE  Keeps /\ Calls(todo') = Calls(calls) \union Calls(Tail(todo))
<1> DEFINE R == Calls(Tail(todo))
           D == Calls(calls) \union R
<1>1. /\ \A y \in R : y.op \in Asks /\ y.at \in DOMAIN work
      /\ \A y \in Pending : y.op \in Quiet
  BY QuietIs
<1> HIDE DEF R, D
<1>2. \A y \in D : y.op \in Asks /\ y.at \in DOMAIN work
  BY <1>1 DEF D
<1>3. CallsOK(work, D)
  <2>1. \A y \in D : CallOK(y, work, D)
    BY <1>2 DEF CallOK, Asks, Descends, Alone
  <2>2. QED
    BY <2>1 DEF CallsOK
<1>4. Coherent(work, rows, D)
  <2>1. \A y \in D : y.op \in Quiet
    BY <1>2 DEF Quiet
  <2>2. Coherent(work, rows, Pending)
    BY DEF TreeInv
  <2>3. QED
    BY <1>1, <1>3, <2>1, <2>2, QuietCalls
<1>5. \A y \in Calls(calls), z \in R : Above(y, z)
  BY <1>1 DEF Above
<1>6. Calls(todo') = D
  BY <1>5, Returned DEF R, D
<1>7. Keeps
  BY <1>4, <1>5, ReturnKeeps DEF R, D
<1>8. QED
  BY <1>6, <1>7 DEF R, D

LEMMA AnswerDuplicateStep ==
  ASSUME TreeInv, AnswerDuplicate
  PROVE  Keeps /\ Calls(todo') = Calls(Tail(todo))
<1>1. /\ Running("event") /\ Return(<<>>) /\ UNCHANGED <<work, rows>>
      /\ reply' \in {reply, "applied", "duplicate"}
  BY DEF AnswerDuplicate
<1>2. IsSeq(<<>>) /\ Ordered(<<>>) /\ Calls(<<>>) = {}
  BY SmallStacks
<1>3. "event" \in Quiet
  BY DEF Quiet, Asks
<1>4. QED
  BY <1>1, <1>2, <1>3, QuietReturns

LEMMA NoTransitionStep ==
  ASSUME TreeInv, NoTransition
  PROVE  Keeps
<1> DEFINE k == Head(todo).at
           s == IF ~ Head(todo).forward THEN <<>> ELSE ForwardsOf(k, work[k].states)
<1>1. Running("event") /\ Return(s) /\ UNCHANGED <<work, rows, reply>>
  BY DEF NoTransition, ForwardsOf
<1>2. "event" \in Quiet
  BY DEF Quiet, Asks
<1>3. k \in DOMAIN work /\ k \in Keys
  <2>1. k \in DOMAIN work
    BY <1>1, <1>2, QuietIs DEF Asks
  <2>2. QED
    BY <2>1 DEF TreeInv, Coherent, RowsOK
<1>4. /\ IsSeq(s) /\ Ordered(s)
      /\ \A y \in Calls(s) : y.op \in Asks /\ y.at \in DOMAIN work
  <2>1. CASE Head(todo).forward
    <3>1. s = ForwardsOf(k, work[k].states)
      BY <2>1
    <3>2. QED
      BY <1>3, <3>1, ForwardsAre DEF Asks
  <2>2. CASE ~ Head(todo).forward
    <3>1. s = <<>>
      BY <2>2
    <3>2. QED
      BY <3>1, SmallStacks
  <2>3. QED
    BY <2>1, <2>2
<1> HIDE DEF s
<1>5. QED
  BY <1>1, <1>2, <1>4, QuietReturns

LEMMA ForwardStep ==
  ASSUME TreeInv, Forward
  PROVE  Keeps
<1> DEFINE x == Head(todo)
           active == ActiveChild(x.at, x.region, x.state)
<1>1. /\ Running("forward") /\ UNCHANGED <<work, rows, reply>>
      /\ \/ Return(<<>>)
         \/ \E child \in active : Return(<<EventCall(child, TRUE, TRUE)>>)
  BY DEF Forward
<1>2. "forward" \in Quiet
  BY DEF Quiet, Asks
<1>3. ASSUME Return(<<>>) PROVE Keeps
  <2>1. IsSeq(<<>>) /\ Ordered(<<>>) /\ Calls(<<>>) = {}
    BY SmallStacks
  <2>2. QED
    BY <1>1, <1>2, <1>3, <2>1, QuietReturns
<1>4. ASSUME NEW child \in active, Return(<<EventCall(child, TRUE, TRUE)>>) PROVE Keeps
  <2> DEFINE y == EventCall(child, TRUE, TRUE)
  <2>1. child \in DOMAIN work
    BY <1>4, ActiveChildIs
  <2>2. y.op \in Asks /\ y.at \in DOMAIN work
    BY <2>1 DEF EventCall, Asks
  <2>3. Return(<<y>>)
    BY <1>4
  <2> HIDE DEF y
  <2>4. IsSeq(<<y>>) /\ Ordered(<<y>>) /\ Calls(<<y>>) = {y}
    BY SmallStacks
  <2>5. QED
    BY <1>1, <1>2, <2>2, <2>3, <2>4, QuietReturns
<1>5. QED
  BY <1>1, <1>3, <1>4

\* The rows hold event ev of entity k.
Holds(h, k, ev) ==
  \E i \in DOMAIN h : h[i].at = k /\ h[i].type = ev.type /\ h[i].ts = ev.ts /\ h[i].params = ev.params

\* The answer to a replay looks at the rows of the entity.
LEMMA DedupIs ==
  ASSUME NEW k, NEW ev
  PROVE  /\ Dedup(k, ev) = "new" => \A i \in DOMAIN rows : ~ (rows[i].at = k /\ rows[i].type = ev.type /\ rows[i].ts = ev.ts)
         /\ Dedup(k, ev) = "new" => ~ Holds(rows, k, ev)
         /\ Dedup(k, ev) = "duplicate" => Holds(rows, k, ev)
<1>1. \A i \in DOMAIN rows : i \in SameIdentity(k, ev)
        <=> rows[i].at = k /\ rows[i].type = ev.type /\ rows[i].ts = ev.ts
  BY DEF SameIdentity
<1>2. SameIdentity(k, ev) \subseteq DOMAIN rows
  BY DEF SameIdentity
<1>3. Dedup(k, ev) = "new" => SameIdentity(k, ev) = {}
  BY DEF Dedup
<1>4. Dedup(k, ev) = "duplicate" => \E i \in SameIdentity(k, ev) : rows[i].params = ev.params
  BY DEF Dedup
<1>5. QED
  BY <1>1, <1>2, <1>3, <1>4 DEF Holds

LEMMA ApplyEventStep ==
  ASSUME TreeInv, ApplyEvent
  PROVE  /\ Keeps /\ reply' = "applied"
         /\ \A y \in Calls(todo') : y.op \in {"visit", "complete"}
         /\ Holds(rows', Head(todo).at, request.event)
<1> DEFINE k == Head(todo).at
           e == work[k]
           m == Defs[k.machine]
           ev == request.event
<1>1. Running("event") /\ Dedup(k, ev) = "new" /\ Live(e)
  BY DEF ApplyEvent
<1>2. PICK t \in MatchOf(k, ev) : \E spec \in EventWrites(e, ev, t, m) : WriteEntity(k, spec, "applied")
  BY DEF ApplyEvent
<1>3. PICK spec \in EventWrites(e, ev, t, m) : WriteEntity(k, spec, "applied")
  BY <1>2
<1>4. "event" \in Quiet
  BY DEF Quiet, Asks
<1>5. k \in DOMAIN work /\ \A y \in Pending : y.op \in Quiet
  BY <1>1, <1>4, QuietIs DEF Asks
<1>6. k \in Keys /\ IsSeq(m.joins)
  <2>1. k \in Keys
    BY <1>5 DEF TreeInv, Coherent, RowsOK
  <2>2. QED
    BY <2>1, DefinitionIs DEF Keys
<1>7. t.region \in DOMAIN e.states
  BY <1>2 DEF MatchOf, Evaluate, Matching
<1> HIDE DEF m
<1>8. /\ SpecOK(e, spec) /\ spec.key = EventIdentity(spec.type, spec.ts)
      /\ spec.type = ev.type /\ spec.ts = ev.ts /\ spec.params = ev.params
  BY <1>3, <1>6, <1>7, EventSpecs
<1>9. SpecKeyOK(e, spec) /\ spec.key.kind = "evt"
  BY <1>8 DEF SpecKeyOK, EventIdentity
<1>10. \A i \in DOMAIN rows : ~ (rows[i].at = k /\ rows[i].type = spec.type /\ rows[i].ts = spec.ts)
  BY <1>1, <1>8, DedupIs
<1>11. \A y \in Pending : y.op \in Quiet \union {"complete"} /\ y.op # "complete"
  BY <1>5 DEF Quiet, Asks
<1>12. k \in DOMAIN work /\ Live(work[k]) /\ SpecOK(work[k], spec) /\ SpecKeyOK(work[k], spec)
  BY <1>1, <1>5, <1>8, <1>9
<1> HIDE DEF k, e, ev
<1>13. /\ Keeps /\ reply' = "applied"
       /\ \A y \in Calls(todo') : y.op \in {"visit", "complete"}
       /\ \E i \in DOMAIN rows' : rows'[i] = MainRow(k, spec)
  <2>1. spec.key.kind # "sub" /\ "applied" \in {reply, "applied", "duplicate"}
    BY <1>9
  <2>2. QED
    BY <1>3, <1>10, <1>11, <1>12, <2>1, WriteKeeps
<1>14. LET row == MainRow(k, spec)
       IN row.at = k /\ row.type = ev.type /\ row.ts = ev.ts /\ row.params = ev.params
  BY <1>8 DEF MainRow
<1>15. Holds(rows', k, ev)
  BY <1>13, <1>14 DEF Holds
<1>16. QED
  BY <1>13, <1>15 DEF k, ev

LEMMA SkipTimeoutStep ==
  ASSUME TreeInv, SkipTimeout
  PROVE  Keeps
<1>1. Running("timer") /\ Return(<<>>) /\ UNCHANGED <<work, rows, reply>>
  BY DEF SkipTimeout
<1>2. IsSeq(<<>>) /\ Ordered(<<>>) /\ Calls(<<>>) = {}
  BY SmallStacks
<1>3. "timer" \in Quiet
  BY DEF Quiet
<1>4. QED
  BY <1>1, <1>2, <1>3, QuietReturns

LEMMA FireTimeoutStep ==
  ASSUME TreeInv, FireTimeout
  PROVE  Keeps
<1> DEFINE k == Head(todo).at
           t == Head(todo).timer
           e == work[k]
           m == Defs[k.machine]
<1>1. Running("timer") /\ Live(e) /\ t.region \in DOMAIN e.states
  BY DEF FireTimeout, TimerPending
<1>2. PICK spec \in TimeoutWrites(e, t, m) : WriteEntity(k, spec, reply)
  BY DEF FireTimeout
<1>3. "timer" \in Quiet
  BY DEF Quiet
<1>4. k \in DOMAIN work /\ \A y \in Pending : y.op \in Quiet
  BY <1>1, <1>3, QuietIs
<1>5. k \in Keys /\ Shape(k, e) /\ IsSeq(m.joins)
  <2>1. k \in Keys /\ Shape(k, e)
    BY <1>4 DEF TreeInv, Coherent, RowsOK
  <2>2. QED
    BY <2>1, DefinitionIs DEF Keys
<1>6. EffectiveEntries(m, e)[t.region] = Entry(e, t.region)
  BY <1>1, <1>5, EntriesAreStored
<1> HIDE DEF m, t
<1>7. /\ SpecOK(e, spec) /\ spec.region = t.region
      /\ spec.key = TimeoutIdentity(t.region, EffectiveEntries(m, e)[t.region].seq)
  BY <1>1, <1>2, <1>5, TimeoutSpecs
<1>8. spec.key.kind = "timeout"
  BY <1>7 DEF TimeoutIdentity
<1>9. SpecKeyOK(e, spec)
  BY <1>6, <1>7 DEF SpecKeyOK
<1>10. \A y \in Pending : y.op \in Quiet \union {"complete"} /\ y.op # "complete"
  BY <1>4 DEF Quiet, Asks
<1>11. k \in DOMAIN work /\ Live(work[k]) /\ SpecOK(work[k], spec) /\ SpecKeyOK(work[k], spec)
  BY <1>1, <1>4, <1>7, <1>9
<1> HIDE DEF k, e
<1>12. QED
  <2>1. spec.key.kind # "sub" /\ spec.key.kind # "evt"
    BY <1>8
  <2>2. QED
    BY <1>2, <1>10, <1>11, <2>1, WriteKeeps

LEMMA CreateEntityStep ==
  ASSUME TreeInv, CreateEntity
  PROVE  Keeps
<1> DEFINE x == Head(todo)
           R == Calls(Tail(todo))
           k == x.at
           s == StartsOf(k)
<1>1. Running("create")
  BY DEF CreateEntity
<1>2. "create" \in Quiet
  BY DEF Quiet
<1>3. CASE k \in DOMAIN work
  <2>1. Return(<<>>) /\ UNCHANGED <<work, rows, reply>>
    BY <1>3 DEF CreateEntity
  <2>2. IsSeq(<<>>) /\ Ordered(<<>>) /\ Calls(<<>>) = {}
    BY SmallStacks
  <2>3. QED
    BY <1>1, <1>2, <2>1, <2>2, QuietReturns
<1>4. CASE k \notin DOMAIN work
  <2>1. /\ work' = Insert(work, k, NewEntity(k, NotManaged)) /\ Return(s) /\ UNCHANGED <<rows, reply>>
    BY <1>4 DEF CreateEntity, StartsOf
  <2>2. /\ Coherent(work, rows, {x} \union R) /\ x.op = "create" /\ \A y \in R : Above(x, y)
        /\ CallOK(x, work, {x} \union R)
    BY <1>1, HeadIs
  <2>3. k \in Keys
    BY <2>2 DEF CallOK
  <2>4. InstanceOK(k, NotManaged)
    BY DEF InstanceOK
  <2>5. /\ IsSeq(s) /\ Ordered(s)
        /\ \A r \in Regs(k) : StartCall(k, r, Defs[k.machine].initial[r], 1) \in Calls(s)
        /\ \A y \in Calls(s) : \E r \in Regs(k) : y = StartCall(k, r, Defs[k.machine].initial[r], 1)
    BY <2>3, StartsAre
  <2>6. R = {}
    BY <1>1, <1>2, QuietIs
  <2> HIDE DEF x, R, s, k
  <2>7. Coherent(Insert(work, k, NewEntity(k, NotManaged)), rows, Calls(s) \union R)
    BY <1>4, <2>2, <2>3, <2>4, <2>5, Inserted
  <2>8. \A y \in Calls(s), z \in R : Above(y, z)
    BY <2>6
  <2>9. /\ IsSeq(todo') /\ Ordered(todo') /\ Calls(todo') = Calls(s) \union R
        /\ UNCHANGED <<entities, history, phase, request, transactions>>
    BY <1>1, <2>1, <2>5, <2>8, Returned DEF R
  <2>10. Coherent(work', rows', Calls(todo'))
    BY <2>1, <2>7, <2>9
  <2>11. \A j \in DOMAIN work : j \in DOMAIN work' /\ work'[j] = work[j]
    BY <1>4, <2>1 DEF Insert
  <2>12. QED
    BY <2>1, <2>9, <2>10, <2>11 DEF Keeps
<1>5. QED
  BY <1>3, <1>4

\* The empty target is the root.
LEMMA EmptyTarget ==
  ASSUME NEW target, Len(target) = 0
  PROVE  TargetKey(target) = Root
<1> DEFINE F(f) == [i \in 0..Len(target) |->
                      IF i = 0 THEN Root ELSE ChildKey(f[i - 1], target[i].region, target[i].state)]
           root == [i \in 0..0 |-> Root]
<1>1. Hops(target) = CHOOSE f : f = F(f)
  BY DEF Hops
<1>2. root = F(root)
  <2>1. \A i \in 0..0 : i = 0
    OBVIOUS
  <2>2. QED
    BY <2>1
<1>3. Hops(target) = F(Hops(target))
  <2> HIDE DEF F
  <2>1. \E f : f = F(f)
    BY <1>2
  <2>2. QED
    BY <1>1, <2>1
<1>4. 0 \in 0..Len(target)
  OBVIOUS
<1>5. F(Hops(target))[0] = Root
  BY <1>4
<1> HIDE DEF F
<1>6. QED
  BY <1>3, <1>5 DEF TargetKey

\* An active path leads to a row.
LEMMA PathLeads ==
  ASSUME NEW target, IsSeq(target), Root \in DOMAIN work, PathActive(target)
  PROVE  TargetKey(target) \in DOMAIN work
<1>1. Len(target) \in Nat
  BY SeqDomain
<1>2. CASE Len(target) = 0
  BY <1>2, EmptyTarget
<1>3. CASE Len(target) # 0
  <2>1. Len(target) \in 1..Len(target)
    BY <1>1, <1>3
  <2>2. QED
    BY <2>1 DEF PathActive, TargetKey
<1>4. QED
  BY <1>2, <1>3

\* A targeted request is answered from the target's history, or asks the target.
LEMMA ResolveTargetStep ==
  ASSUME TreeInv, IsSeq(request.target), ResolveTarget
  PROVE  \/ /\ Keeps /\ reply' = "duplicate" /\ Calls(todo') = {}
            /\ Holds(rows', TargetKey(request.target), request.event)
         \/ Fail("identity_conflict")
         \/ Fail("target_not_active") /\ ~ Holds(rows, TargetKey(request.target), request.event)
         \/ /\ Keeps /\ UNCHANGED <<rows, reply>>
            /\ Return(<<EventCall(TargetKey(request.target), FALSE, FALSE)>>)
<1> DEFINE k == TargetKey(request.target)
           y == EventCall(k, FALSE, FALSE)
<1>1. Running("target") /\ "target" \in Quiet
  BY DEF ResolveTarget, Quiet
<1>2. Root \in DOMAIN work /\ Calls(Tail(todo)) = {}
  <2>1. CallOK(Head(todo), work, {Head(todo)} \union Calls(Tail(todo))) /\ Head(todo).op = "target"
    BY <1>1, HeadIs
  <2>2. Calls(Tail(todo)) = {}
    BY <1>1, QuietIs
  <2>3. QED
    BY <2>1, <2>2 DEF CallOK
<1>3. \/ Dedup(k, request.event) = "duplicate" /\ Return(<<>>) /\ reply' = "duplicate" /\ UNCHANGED <<work, rows>>
      \/ Fail("identity_conflict")
      \/ Dedup(k, request.event) = "new" /\ Fail("target_not_active")
      \/ PathActive(request.target) /\ Return(<<y>>) /\ UNCHANGED <<work, rows, reply>>
  BY DEF ResolveTarget
<1>4. CASE Dedup(k, request.event) = "duplicate" /\ Return(<<>>) /\ reply' = "duplicate" /\ UNCHANGED <<work, rows>>
  <2>1. IsSeq(<<>>) /\ Ordered(<<>>) /\ Calls(<<>>) = {}
    BY SmallStacks
  <2>2. Keeps /\ Calls(todo') = {}
    BY <1>1, <1>2, <1>4, <2>1, QuietReturns
  <2>3. Holds(rows, k, request.event)
    BY <1>4, DedupIs
  <2>4. Holds(rows', k, request.event)
    BY <1>4, <2>3
  <2>5. QED
    BY <1>4, <2>2, <2>4
<1>5. CASE Dedup(k, request.event) = "new" /\ Fail("target_not_active")
  BY <1>5, DedupIs
<1>6. CASE PathActive(request.target) /\ Return(<<y>>) /\ UNCHANGED <<work, rows, reply>>
  <2>1. k \in DOMAIN work
    BY <1>2, <1>6, PathLeads
  <2>2. y.op \in Asks /\ y.at \in DOMAIN work
    BY <2>1 DEF EventCall, Asks
  <2> HIDE DEF y
  <2>3. IsSeq(<<y>>) /\ Ordered(<<y>>) /\ Calls(<<y>>) = {y}
    BY SmallStacks
  <2>4. Keeps
    BY <1>1, <1>6, <2>2, <2>3, QuietReturns
  <2>5. QED
    BY <1>6, <2>4 DEF y
<1>7. QED
  BY <1>3, <1>4, <1>5, <1>6

-----------------------------------------------------------------------------
(* Every step.                                                             *)

\* The errors a call may end in.
Refusals == {"nesting_depth_exceeded", "instance_conflict", "identity_conflict",
             "instance_not_active", "target_not_active"}

\* What each kind of call does.
LEMMA CallKinds ==
  ASSUME TreeInv, IsSeq(request.target), Call
  PROVE  /\ phase = "tx" /\ todo # <<>>
         /\ \/ /\ Head(todo).op \in Descends \union {"complete"}
               /\ Descended \/ Fail("nesting_depth_exceeded") \/ Fail("instance_conflict")
            \/ /\ Head(todo).op = "event"
               /\ AnswerDuplicate \/ AnswerIdentityConflict \/ AnswerNotActive \/ ApplyEvent \/ NoTransition
            \/ Head(todo).op = "target" /\ ResolveTarget
            \/ Head(todo).op \in {"forward", "timer", "create"} /\ Keeps
<1>1. ASSUME NEW op, Running(op) PROVE phase = "tx" /\ todo # <<>> /\ Head(todo).op = op
  BY <1>1 DEF Running
<1>2. CASE AnswerDuplicate \/ AnswerIdentityConflict \/ AnswerNotActive \/ ApplyEvent \/ NoTransition
  <2>1. Running("event")
    BY <1>2 DEF AnswerDuplicate, AnswerIdentityConflict, AnswerNotActive, ApplyEvent, NoTransition
  <2>2. QED
    BY <1>1, <1>2, <2>1
<1>3. CASE Forward
  <2>1. Running("forward")
    BY <1>3 DEF Forward
  <2>2. QED
    BY <1>1, <1>3, <2>1, ForwardStep
<1>4. CASE ResolveTarget
  <2>1. Running("target")
    BY <1>4 DEF ResolveTarget
  <2>2. QED
    BY <1>1, <1>4, <2>1
<1>5. CASE SkipTimeout
  <2>1. Running("timer")
    BY <1>5 DEF SkipTimeout
  <2>2. QED
    BY <1>1, <1>5, <2>1, SkipTimeoutStep
<1>6. CASE FireTimeout
  <2>1. Running("timer")
    BY <1>6 DEF FireTimeout
  <2>2. QED
    BY <1>1, <1>6, <2>1, FireTimeoutStep
<1>7. CASE CreateEntity
  <2>1. Running("create")
    BY <1>7 DEF CreateEntity
  <2>2. QED
    BY <1>1, <1>7, <2>1, CreateEntityStep
<1>8. CASE Visit
  <2>1. Running("visit")
    BY <1>8 DEF Visit
  <2>2. QED
    BY <1>1, <1>8, <2>1, VisitStep DEF Descends
<1>9. CASE SkipStart
  <2>1. Running("start")
    BY <1>9 DEF SkipStart
  <2>2. QED
    BY <1>1, <1>9, <2>1, SkipStartStep DEF Descends
<1>10. CASE StartChild
  <2>1. Running("start")
    BY <1>10 DEF StartChild, StartChildWithin
  <2>2. QED
    BY <1>1, <1>10, <2>1, StartChildStep DEF Descends
<1>11. CASE CancelChild
  <2>1. Running("cancel")
    BY <1>11 DEF CancelChild
  <2>2. QED
    BY <1>1, <1>11, <2>1, CancelChildStep DEF Descends
<1>12. CASE EndChild
  <2>1. Running("end")
    BY <1>12 DEF EndChild
  <2>2. QED
    BY <1>1, <1>12, <2>1, EndChildStep DEF Descends
<1>13. CASE CompleteParent
  <2>1. Running("complete")
    BY <1>13 DEF CompleteParent
  <2>2. QED
    BY <1>1, <1>13, <2>1, CompleteParentStep
<1>14. QED
  BY <1>2, <1>3, <1>4, <1>5, <1>6, <1>7, <1>8, <1>9, <1>10, <1>11, <1>12, <1>13 DEF Call

\* So a call keeps the tree coherent, or the transaction is refused.
LEMMA CallKeeps ==
  ASSUME TreeInv, IsSeq(request.target), Call
  PROVE  phase = "tx" /\ (Keeps \/ \E code \in Refusals : Fail(code))
<1>1. CASE AnswerDuplicate
  BY <1>1, CallKinds, AnswerDuplicateStep
<1>2. CASE AnswerIdentityConflict
  BY <1>2, CallKinds DEF AnswerIdentityConflict, Refusals
<1>3. CASE AnswerNotActive
  BY <1>3, CallKinds DEF AnswerNotActive, Refusals
<1>4. CASE ApplyEvent
  BY <1>4, CallKinds, ApplyEventStep
<1>5. CASE NoTransition
  BY <1>5, CallKinds, NoTransitionStep
<1>6. CASE ResolveTarget
  BY <1>6, CallKinds, ResolveTargetStep DEF Refusals
<1>7. CASE Descended \/ Fail("nesting_depth_exceeded") \/ Fail("instance_conflict") \/ Keeps
  BY <1>7, CallKinds DEF Descended, Refusals
<1>8. QED
  BY <1>1, <1>2, <1>3, <1>4, <1>5, <1>6, <1>7, CallKinds

\* A transaction begins with a quiet call.
Begins(call) ==
  /\ CallOK(call, work, {call}) /\ call.op \in Quiet
  /\ phase = "idle" /\ transactions < MaxTransactions
  /\ transactions' = transactions + 1 /\ phase' = "tx" /\ todo' = <<call>>
  /\ reply' \in {"created", "no_transition", "none"}
  /\ UNCHANGED <<entities, history, work, rows>>
  /\ IsSeq(request'.target)
  /\ request'.kind = "targeted" => call = [op |-> "target"] /\ reply' = "no_transition"

LEMMA BeginGives ==
  ASSUME NEW kind, NEW event, NEW target, NEW call, NEW answer, Begin(kind, event, target, call, answer),
         CallOK(call, work, {call}), call.op \in Quiet, IsSeq(target),
         answer \in {"created", "no_transition", "none"},
         kind = "targeted" => call = [op |-> "target"] /\ answer = "no_transition"
  PROVE  Begins(call)
<1>1. request' = [kind |-> kind, event |-> event, target |-> target]
  BY DEF Begin
<1>2. request'.kind = kind /\ request'.target = target
  BY <1>1
<1>3. /\ phase = "idle" /\ transactions < MaxTransactions
      /\ transactions' = transactions + 1 /\ phase' = "tx" /\ todo' = <<call>>
      /\ reply' = answer /\ UNCHANGED <<entities, history, work, rows>>
  BY DEF Begin, committed
<1>4. QED
  BY <1>2, <1>3 DEF Begins

LEMMA BeginIs ==
  ASSUME PhaseInv, BeginTransaction
  PROVE  \E call : Begins(call)
<1>1. ASSUME phase = "idle" PROVE work = entities
  BY <1>1 DEF PhaseInv
<1>2. IsSeq(<<>>)
  BY SmallStacks
<1>3. ASSUME NEW k \in Addressees, BeginCreate(k) PROVE \E call : Begins(call)
  <2> DEFINE call == [op |-> "create", at |-> k]
  <2>1. k \in Keys
    BY RequestsAssumption
  <2>2. CallOK(call, work, {call}) /\ call.op \in Quiet
    BY <2>1 DEF CallOK, Quiet, Asks, Descends, Alone
  <2>3. Begin("create", NoEvent, <<>>, call, "created")
    BY <1>3 DEF BeginCreate
  <2> HIDE DEF call
  <2>4. Begins(call)
    BY <1>2, <2>2, <2>3, BeginGives
  <2>5. QED
    BY <2>4
<1>4. ASSUME NEW k \in Addressees, NEW ev \in Events, BeginEvent(k, ev) PROVE \E call : Begins(call)
  <2> DEFINE call == EventCall(k, TRUE, FALSE)
  <2>1. k \in DOMAIN work
    BY <1>1, <1>4 DEF BeginEvent, Begin
  <2>2. CallOK(call, work, {call}) /\ call.op \in Quiet
    BY <2>1 DEF EventCall, CallOK, Quiet, Asks, Descends, Alone
  <2>3. Begin("event", ev, <<>>, call, "no_transition")
    BY <1>4 DEF BeginEvent
  <2> HIDE DEF call
  <2>4. Begins(call)
    BY <1>2, <2>2, <2>3, BeginGives
  <2>5. QED
    BY <2>4
<1>5. ASSUME NEW target \in Targets, NEW ev \in Events, BeginTargeted(target, ev) PROVE \E call : Begins(call)
  <2> DEFINE call == [op |-> "target"]
  <2>1. Root \in DOMAIN work /\ IsSeq(target)
    BY <1>1, <1>5, RequestsAssumption DEF BeginTargeted, Begin
  <2>2. CallOK(call, work, {call}) /\ call.op \in Quiet
    BY <2>1 DEF CallOK, Quiet, Asks, Descends, Alone
  <2>3. Begin("targeted", ev, target, call, "no_transition")
    BY <1>5 DEF BeginTargeted
  <2>4. call = [op |-> "target"]
    OBVIOUS
  <2> HIDE DEF call
  <2>5. Begins(call)
    BY <2>1, <2>2, <2>3, <2>4, BeginGives
  <2>6. QED
    BY <2>5
<1>6. ASSUME NEW k \in DOMAIN entities, NEW t, BeginTimer(k, t) PROVE \E call : Begins(call)
  <2> DEFINE call == [op |-> "timer", at |-> k, timer |-> t]
  <2>1. k \in DOMAIN work
    BY <1>1, <1>6 DEF BeginTimer, Begin
  <2>2. CallOK(call, work, {call}) /\ call.op \in Quiet
    BY <2>1 DEF CallOK, Quiet, Asks, Descends, Alone
  <2>3. Begin("timer", NoEvent, <<>>, call, "none")
    BY <1>6 DEF BeginTimer
  <2> HIDE DEF call
  <2>4. Begins(call)
    BY <1>2, <2>2, <2>3, BeginGives
  <2>5. QED
    BY <2>4
<1>7. QED
  BY <1>3, <1>4, <1>5, <1>6 DEF BeginTransaction

LEMMA CoreInit ==
  ASSUME Init
  PROVE  CoreInv
<1>1. /\ entities = <<>> /\ history = <<>> /\ work = <<>> /\ rows = <<>> /\ todo = <<>>
      /\ phase = "idle" /\ transactions = 0 /\ reply = "none"
  BY DEF Init
<1>2. DOMAIN <<>> = {}
  OBVIOUS
<1>3. IsSeq(<<>>) /\ Ordered(<<>>) /\ Calls(<<>>) = {}
  BY SmallStacks
<1>4. Coherent(<<>>, <<>>, {})
  BY <1>2, <1>3 DEF Coherent, RowsOK, KeysOK, CallsOK, BelongOK, HaveOK, WinnerOK, ImmediateOK
<1>5. Coherent(work, rows, Pending) /\ Coherent(entities, history, {})
  BY <1>1, <1>3, <1>4 DEF Pending
<1>6. StackOK
  BY <1>1, <1>3 DEF StackOK
<1>7. PhaseInv
  BY <1>1, BoundsAssumption DEF PhaseInv
<1>8. Frozen
  BY <1>1, <1>2 DEF Frozen
<1>9. NoInternalError
  BY <1>1 DEF NoInternalError
<1>10. QED
  BY <1>5, <1>6, <1>7, <1>8, <1>9 DEF CoreInv, TreeInv

LEMMA BeginStep ==
  ASSUME CoreInv, NEW call, Begins(call)
  PROVE  CoreInv'
<1>1. /\ CallOK(call, work, {call}) /\ call.op \in Quiet
      /\ phase = "idle" /\ transactions < MaxTransactions
      /\ transactions' = transactions + 1 /\ phase' = "tx" /\ todo' = <<call>>
      /\ reply' \in {"created", "no_transition", "none"}
      /\ entities' = entities /\ history' = history /\ work' = work /\ rows' = rows
  BY DEF Begins
<1>2. /\ Coherent(work, rows, Pending) /\ Coherent(entities, history, {})
      /\ StackOK /\ work = entities /\ rows = history /\ todo = <<>> /\ transactions \in 0..MaxTransactions
  BY <1>1 DEF CoreInv, TreeInv, PhaseInv
<1>3. /\ IsSeq(<<call>>) /\ Ordered(<<call>>) /\ Calls(<<call>>) = {call} /\ Calls(<<>>) = {}
  BY SmallStacks
<1>4. Coherent(work, rows, {call})
  <2>1. CallsOK(work, {call})
    BY <1>1 DEF CallsOK
  <2>2. \A y \in {call} : y.op \in Quiet
    BY <1>1
  <2>3. Coherent(work, rows, {})
    BY <1>2
  <2>4. QED
    BY <2>1, <2>2, <2>3, QuietCalls
<1>5. Coherent(work', rows', Calls(todo')) /\ Coherent(entities', history', {})
  BY <1>1, <1>2, <1>3, <1>4
<1>6. IsSeq(todo') /\ Ordered(todo')
  BY <1>1, <1>3
<1>7. PhaseInv'
  BY <1>1, <1>2, BoundsAssumption DEF PhaseInv
<1>8. TreeInv'
  BY <1>5, <1>6, <1>7 DEF TreeInv, StackOK, Pending
<1>9. Frozen'
  BY <1>1, <1>2 DEF Frozen
<1>10. NoInternalError'
  BY <1>1 DEF NoInternalError
<1>11. QED
  BY <1>8, <1>9, <1>10 DEF CoreInv

LEMMA KeepStep ==
  ASSUME CoreInv, phase = "tx", Keeps
  PROVE  CoreInv'
<1>1. /\ entities' = entities /\ history' = history /\ phase' = phase /\ transactions' = transactions
      /\ Coherent(work', rows', Calls(todo')) /\ IsSeq(todo') /\ Ordered(todo')
      /\ \A k \in DOMAIN work : k \in DOMAIN work' /\ (work'[k] = work[k] \/ Live(work[k]))
      /\ reply' \in {reply, "applied", "duplicate"}
  BY DEF Keeps
<1>2. Coherent(entities, history, {}) /\ PhaseInv /\ Frozen /\ NoInternalError
  BY DEF CoreInv, TreeInv
<1>3. Coherent(entities', history', {})
  BY <1>1, <1>2
<1>4. PhaseInv'
  BY <1>1, <1>2 DEF PhaseInv
<1>5. TreeInv'
  BY <1>1, <1>3, <1>4 DEF TreeInv, StackOK, Pending
<1>6. Frozen'
  BY <1>1, <1>2 DEF Frozen, Live
<1>7. NoInternalError'
  BY <1>1, <1>2 DEF NoInternalError
<1>8. QED
  BY <1>5, <1>6, <1>7 DEF CoreInv

\* An error falls back to the committed rows.
LEMMA FailStep ==
  ASSUME CoreInv, NEW code, code \notin {"internal", "conflict", "not_found"}, Fail(code)
  PROVE  CoreInv'
<1>1. /\ phase' = "idle" /\ work' = entities /\ rows' = history /\ todo' = <<>> /\ reply' = code
      /\ entities' = entities /\ history' = history /\ transactions' = transactions
  BY DEF Fail, committed
<1>2. Coherent(entities, history, {}) /\ transactions \in 0..MaxTransactions
  BY DEF CoreInv, TreeInv, PhaseInv
<1>3. IsSeq(<<>>) /\ Ordered(<<>>) /\ Calls(<<>>) = {}
  BY SmallStacks
<1>4. Coherent(work', rows', Calls(todo')) /\ Coherent(entities', history', {})
  BY <1>1, <1>2, <1>3
<1>5. IsSeq(todo') /\ Ordered(todo')
  BY <1>1, <1>3
<1>6. PhaseInv'
  BY <1>1, <1>2 DEF PhaseInv
<1>7. TreeInv'
  BY <1>4, <1>5, <1>6 DEF TreeInv, StackOK, Pending
<1>8. Frozen'
  BY <1>1 DEF Frozen
<1>9. NoInternalError'
  BY <1>1 DEF NoInternalError
<1>10. QED
  BY <1>7, <1>8, <1>9 DEF CoreInv

\* With no call left, the tree has no exception left.
LEMMA CommitStep ==
  ASSUME CoreInv, Commit
  PROVE  CoreInv'
<1>1. /\ phase = "tx" /\ todo = <<>> /\ phase' = "idle" /\ entities' = work /\ history' = rows
      /\ work' = work /\ rows' = rows /\ todo' = todo /\ reply' = reply /\ transactions' = transactions
  BY DEF Commit
<1>2. /\ Coherent(work, rows, Pending) /\ StackOK /\ transactions \in 0..MaxTransactions /\ NoInternalError
  BY DEF CoreInv, TreeInv, PhaseInv
<1>3. Calls(<<>>) = {}
  BY SmallStacks
<1>4. Coherent(work, rows, {}) /\ Coherent(work', rows', Calls(todo'))
  BY <1>1, <1>2, <1>3 DEF Pending
<1>5. Coherent(entities', history', {})
  BY <1>1, <1>4
<1>6. IsSeq(todo') /\ Ordered(todo')
  BY <1>1, <1>2 DEF StackOK
<1>7. PhaseInv'
  BY <1>1, <1>2 DEF PhaseInv
<1>8. TreeInv'
  BY <1>4, <1>5, <1>6, <1>7 DEF TreeInv, StackOK, Pending
<1>9. Frozen'
  BY <1>1 DEF Frozen
<1>10. NoInternalError'
  BY <1>1, <1>2 DEF NoInternalError
<1>11. QED
  BY <1>8, <1>9, <1>10 DEF CoreInv

LEMMA CoreStep ==
  ASSUME CoreInv, IsSeq(request.target), [Next]_vars
  PROVE  CoreInv'
<1>1. TreeInv
  BY DEF CoreInv
<1>2. CASE BeginTransaction
  <2>1. PICK call : Begins(call)
    BY <1>1, <1>2, BeginIs DEF TreeInv
  <2>2. QED
    BY <2>1, BeginStep
<1>3. CASE Call
  <2>1. phase = "tx" /\ (Keeps \/ \E code \in Refusals : Fail(code))
    BY <1>1, <1>3, CallKeeps
  <2>2. CASE Keeps
    BY <2>1, <2>2, KeepStep
  <2>3. ASSUME NEW code \in Refusals, Fail(code) PROVE CoreInv'
    BY <2>3, FailStep DEF Refusals
  <2>4. QED
    BY <2>1, <2>2, <2>3
<1>4. CASE Commit
  BY <1>4, CommitStep
<1>5. CASE Crash
  BY <1>5, FailStep DEF Crash
<1>6. CASE UNCHANGED vars
  BY <1>6 DEF vars, CoreInv, TreeInv, StackOK, PhaseInv, Pending, Frozen, NoInternalError
<1>7. QED
  BY <1>2, <1>3, <1>4, <1>5, <1>6 DEF Next

-----------------------------------------------------------------------------
(* The answers to targeted requests.                                       *)

LEMMA RecordedIs ==
  ASSUME NEW h
  PROVE  Recorded(h) <=> Holds(h, TargetKey(request.target), request.event)
BY DEF Recorded, Holds

\* What is true of the target once the request is answered, and refused.
LEMMA Answered ==
  ASSUME TargetInv, phase = "tx", Keeps, reply' \in {"applied", "duplicate"}, Recorded(rows'),
         \A y \in Calls(todo') : y.op \in Descends \union {"complete"}
  PROVE  TargetInv' /\ TargetedAnswersAreTruthful'
<1>1. phase' = "tx" /\ request' = request /\ IsSeq(request.target)
  BY DEF Keeps, TargetInv
<1>2. Recorded(rows)'
  BY <1>1 DEF Recorded
<1>3. TargetInv'
  BY <1>1, <1>2 DEF TargetInv, Pending
<1>4. QED
  BY <1>1, <1>3 DEF TargetedAnswersAreTruthful

LEMMA Refused ==
  ASSUME TargetInv, NEW code, code \notin {"applied", "duplicate", "no_transition"}, Fail(code),
         code \in {"target_not_active", "instance_not_active"} /\ request.kind = "targeted" => ~ Recorded(history)
  PROVE  TargetInv' /\ TargetedAnswersAreTruthful'
<1>1. phase' = "idle" /\ request' = request /\ reply' = code /\ history' = history /\ IsSeq(request.target)
  BY DEF Fail, committed, TargetInv
<1>2. TargetInv'
  BY <1>1 DEF TargetInv
<1>3. Recorded(history)' <=> Recorded(history)
  BY <1>1 DEF Recorded
<1>4. TargetedAnswersAreTruthful'
  BY <1>1, <1>3 DEF TargetedAnswersAreTruthful, Recorded
<1>5. QED
  BY <1>2, <1>4

\* The request is being resolved, or its event is being offered to the target.
LEMMA ResolvingStep ==
  ASSUME TreeInv, TargetInv, Call, request.kind = "targeted", reply = "no_transition", rows = history,
         todo = <<[op |-> "target"]>>
  PROVE  TargetInv' /\ TargetedAnswersAreTruthful'
<1> DEFINE k == TargetKey(request.target)
           x == [op |-> "target"]
           y == EventCall(k, FALSE, FALSE)
<1>1. Head(todo) = x /\ Tail(todo) = <<>> /\ x.op = "target"
  OBVIOUS
<1>2. IsSeq(request.target)
  BY DEF TargetInv
<1>3. phase = "tx" /\ ResolveTarget
  BY <1>1, <1>2, CallKinds DEF Descends
<1>4. /\ Recorded(rows') <=> Holds(rows', k, request.event)
      /\ Recorded(history) <=> Holds(rows, k, request.event)
  BY RecordedIs
<1>5. CASE Keeps /\ reply' = "duplicate" /\ Calls(todo') = {} /\ Holds(rows', k, request.event)
  BY <1>3, <1>4, <1>5, Answered
<1>6. CASE Fail("identity_conflict")
  BY <1>6, Refused
<1>7. CASE Fail("target_not_active") /\ ~ Holds(rows, k, request.event)
  BY <1>4, <1>7, Refused
<1>8. CASE Keeps /\ UNCHANGED <<rows, reply>> /\ Return(<<y>>)
  <2>1. phase' = "tx" /\ request' = request /\ history' = history /\ rows' = rows /\ reply' = reply
    BY <1>3, <1>8 DEF Keeps
  <2> HIDE DEF y
  <2>2. todo' = <<y>> \o <<>>
    BY <1>1, <1>8 DEF Return
  <2>3. todo' = <<y>>
    BY <2>2
  <2>4. todo' = <<EventCall(TargetKey(request'.target), FALSE, FALSE)>>
    BY <2>1, <2>3 DEF y
  <2>5. TargetInv'
    BY <1>2, <2>1, <2>4 DEF TargetInv
  <2>6. QED
    BY <2>1, <2>5 DEF TargetedAnswersAreTruthful
<1>9. QED
  BY <1>2, <1>3, <1>5, <1>6, <1>7, <1>8, ResolveTargetStep

LEMMA OfferedStep ==
  ASSUME TreeInv, TargetInv, Call, request.kind = "targeted", reply = "no_transition", rows = history,
         todo = <<EventCall(TargetKey(request.target), FALSE, FALSE)>>
  PROVE  TargetInv' /\ TargetedAnswersAreTruthful'
<1> DEFINE k == TargetKey(request.target)
           ev == request.event
           x == EventCall(k, FALSE, FALSE)
<1>1. Head(todo) = x /\ Tail(todo) = <<>>
  OBVIOUS
<1>2. x.op = "event" /\ x.at = k /\ x.forward = FALSE /\ x.nested = FALSE
  BY DEF EventCall
<1>3. IsSeq(request.target)
  BY DEF TargetInv
<1> HIDE DEF x
<1>4. phase = "tx" /\ (AnswerDuplicate \/ AnswerIdentityConflict \/ AnswerNotActive \/ ApplyEvent \/ NoTransition)
  BY <1>1, <1>2, <1>3, CallKinds DEF Descends
<1>5. /\ Recorded(rows') <=> Holds(rows', k, ev)
      /\ Recorded(history) <=> Holds(rows, k, ev)
  BY RecordedIs
<1>6. Dedup(k, ev) = "new" => ~ Holds(rows, k, ev)
  BY DedupIs
<1>7. CASE AnswerDuplicate
  <2>1. Keeps /\ Calls(todo') = Calls(<<>>)
    BY <1>1, <1>7, AnswerDuplicateStep
  <2>2. Calls(<<>>) = {}
    BY SmallStacks
  <2>3. Dedup(k, ev) = "duplicate" /\ reply' = "duplicate" /\ rows' = rows
    BY <1>1, <1>2, <1>7 DEF AnswerDuplicate
  <2>4. Holds(rows, k, ev)
    BY <2>3, DedupIs
  <2>5. Recorded(rows')
    BY <1>5, <2>3, <2>4
  <2>6. QED
    BY <1>4, <2>1, <2>2, <2>3, <2>5, Answered
<1>8. CASE AnswerIdentityConflict
  <2>1. Fail("identity_conflict")
    BY <1>8 DEF AnswerIdentityConflict
  <2>2. QED
    BY <2>1, Refused
<1>9. CASE AnswerNotActive
  <2>1. Fail("instance_not_active") /\ Dedup(k, ev) = "new"
    BY <1>1, <1>2, <1>9 DEF AnswerNotActive
  <2>2. ~ Recorded(history)
    BY <1>5, <1>6, <2>1
  <2>3. QED
    BY <2>1, <2>2, Refused
<1>10. CASE ApplyEvent
  <2>1. /\ Keeps /\ reply' = "applied"
        /\ \A y \in Calls(todo') : y.op \in {"visit", "complete"}
        /\ Holds(rows', k, ev)
    BY <1>1, <1>2, <1>10, ApplyEventStep
  <2>2. QED
    BY <1>4, <1>5, <2>1, Answered DEF Descends
<1>11. CASE NoTransition
  <2>1. Return(<<>>) /\ Dedup(k, ev) = "new" /\ reply' = reply /\ rows' = rows
    BY <1>1, <1>2, <1>11 DEF NoTransition
  <2>2. Keeps
    BY <1>11, NoTransitionStep
  <2>3. phase' = "tx" /\ request' = request /\ history' = history
    BY <1>4, <2>2 DEF Keeps
  <2>4. todo' = <<>> \o <<>>
    BY <1>1, <2>1 DEF Return
  <2>5. todo' = <<>>
    BY <2>4
  <2>6. ~ Recorded(rows)
    BY <1>5, <1>6, <2>1
  <2>7. ~ Recorded(rows)'
    BY <2>1, <2>3, <2>6 DEF Recorded
  <2>8. TargetInv'
    BY <1>3, <2>1, <2>3, <2>5, <2>7 DEF TargetInv
  <2>9. QED
    BY <2>3, <2>8 DEF TargetedAnswersAreTruthful
<1>12. QED
  BY <1>4, <1>7, <1>8, <1>9, <1>10, <1>11

\* It has been answered, and the lifecycle runs.
LEMMA AnsweredStep ==
  ASSUME TreeInv, TargetInv, Call, request.kind = "targeted", reply \in {"applied", "duplicate"}, Recorded(rows),
         \A y \in Pending : y.op \in Descends \union {"complete"}
  PROVE  TargetInv' /\ TargetedAnswersAreTruthful'
<1>1. phase = "tx" /\ todo # <<>> /\ IsSeq(request.target)
  BY CallKinds DEF TargetInv
<1>2. Head(todo).op \in Descends \union {"complete"}
  <2>1. Head(todo) \in Calls(todo)
    BY <1>1, StackSplits DEF TreeInv, StackOK
  <2>2. QED
    BY <2>1 DEF Pending
<1>3. Descended \/ Fail("nesting_depth_exceeded") \/ Fail("instance_conflict")
  BY <1>1, <1>2, CallKinds DEF Descends
<1>4. CASE Descended
  <2>1. /\ Keeps /\ reply' = reply
        /\ \A y \in Calls(todo') : y.op \in Descends \union {"complete"}
    BY <1>4 DEF Descended
  <2>2. \A i \in DOMAIN rows : \E j \in DOMAIN rows' : rows'[j] = rows[i]
    BY <2>1 DEF Keeps
  <2>3. Recorded(rows')
    BY <2>2 DEF Recorded
  <2>4. QED
    BY <1>1, <2>1, <2>3, Answered
<1>5. CASE Fail("nesting_depth_exceeded")
  BY <1>5, Refused
<1>6. CASE Fail("instance_conflict")
  BY <1>6, Refused
<1>7. QED
  BY <1>3, <1>4, <1>5, <1>6

LEMMA TargetedStep ==
  ASSUME CoreInv, TargetInv, TargetedAnswersAreTruthful, [Next]_vars
  PROVE  TargetInv' /\ TargetedAnswersAreTruthful'
<1>1. TreeInv /\ IsSeq(request.target)
  BY DEF CoreInv, TargetInv
<1>2. CASE BeginTransaction
  <2>1. PICK call : Begins(call)
    BY <1>1, <1>2, BeginIs DEF TreeInv
  <2>2. /\ phase = "idle" /\ phase' = "tx" /\ todo' = <<call>> /\ history' = history /\ rows' = rows
        /\ IsSeq(request'.target)
        /\ request'.kind = "targeted" => call = [op |-> "target"] /\ reply' = "no_transition"
    BY <2>1 DEF Begins
  <2>3. rows = history
    BY <1>1, <2>2 DEF TreeInv, PhaseInv
  <2>4. TargetInv'
    BY <2>2, <2>3 DEF TargetInv
  <2>5. QED
    BY <2>2, <2>4 DEF TargetedAnswersAreTruthful
<1>3. CASE Call /\ request.kind = "targeted"
  <2>1. phase = "tx" /\ todo # <<>>
    BY <1>1, <1>3, CallKinds
  <2>2. CASE reply = "no_transition" /\ rows = history /\ todo = <<[op |-> "target"]>>
    BY <1>1, <1>3, <2>2, ResolvingStep
  <2>3. CASE /\ reply = "no_transition" /\ rows = history
             /\ todo = <<EventCall(TargetKey(request.target), FALSE, FALSE)>>
    BY <1>1, <1>3, <2>3, OfferedStep
  <2>4. CASE /\ reply \in {"applied", "duplicate"} /\ Recorded(rows)
             /\ \A y \in Pending : y.op \in Descends \union {"complete"}
    BY <1>1, <1>3, <2>4, AnsweredStep
  <2>5. QED
    BY <1>3, <2>1, <2>2, <2>3, <2>4 DEF TargetInv
<1>4. CASE Call /\ request.kind # "targeted"
  <2>1. Keeps \/ \E code \in Refusals : Fail(code)
    BY <1>1, <1>4, CallKeeps
  <2>2. request' = request
    BY <2>1 DEF Keeps, Fail
  <2>3. QED
    BY <1>1, <1>4, <2>2 DEF TargetInv, TargetedAnswersAreTruthful
<1>5. CASE Commit
  <2>1. /\ phase = "tx" /\ todo = <<>> /\ phase' = "idle" /\ history' = rows
        /\ request' = request /\ reply' = reply
    BY <1>5 DEF Commit
  <2>2. TargetInv'
    BY <1>1, <2>1 DEF TargetInv
  <2>3. <<[op |-> "target"]>> # <<>> /\ <<EventCall(TargetKey(request.target), FALSE, FALSE)>> # <<>>
    OBVIOUS
  <2>4. request.kind = "targeted" =>
          \/ reply = "no_transition" /\ ~ Recorded(rows)
          \/ reply \in {"applied", "duplicate"} /\ Recorded(rows)
    BY <2>1, <2>3 DEF TargetInv
  <2>5. Recorded(history)' <=> Recorded(rows)
    BY <2>1 DEF Recorded
  <2>6. request'.kind = "targeted" =>
          /\ reply' \in {"applied", "duplicate"} => Recorded(history)'
          /\ reply' \in {"target_not_active", "instance_not_active", "no_transition"} => ~ Recorded(history)'
    BY <2>1, <2>4, <2>5
  <2>7. TargetedAnswersAreTruthful'
    BY <2>6 DEF TargetedAnswersAreTruthful, Recorded
  <2>8. QED
    BY <2>2, <2>7
<1>6. CASE Crash
  <2>1. Fail("none")
    BY <1>6 DEF Crash
  <2>2. QED
    BY <2>1, Refused
<1>7. CASE UNCHANGED vars
  <2>1. /\ phase' = phase /\ request' = request /\ reply' = reply /\ rows' = rows /\ history' = history /\ todo' = todo
    BY <1>7 DEF vars
  <2>2. TargetInv'
    BY <2>1 DEF TargetInv, Pending, Recorded
  <2>3. TargetedAnswersAreTruthful'
    BY <2>1 DEF TargetedAnswersAreTruthful
  <2>4. QED
    BY <2>2, <2>3
<1>8. QED
  BY <1>2, <1>3, <1>4, <1>5, <1>6, <1>7 DEF Next

-----------------------------------------------------------------------------
(* The theorems.                                                           *)

\* The tree of managed instances is coherent, given the calls that the running
\* transaction still makes (engine.rs and transition_core.rs: write_entity,
\* apply_child_lifecycle, start_child, cancel_subtree, complete_parent), and the
\* committed tree is coherent without exceptions, for every set of definitions
\* that validate() accepts and every depth bound.
THEOREM ManagedInvariant == Spec => []ManagedInv
<1>1. ASSUME Init PROVE ManagedInv
  <2>1. CoreInv
    BY <1>1, CoreInit
  <2>2. phase = "idle" /\ request.target = <<>> /\ request.kind = "none"
    BY <1>1 DEF Init
  <2>3. TargetInv
    BY <2>2, SmallStacks DEF TargetInv
  <2>4. TargetedAnswersAreTruthful
    BY <2>2 DEF TargetedAnswersAreTruthful
  <2>5. QED
    BY <2>1, <2>3, <2>4 DEF ManagedInv
<1>2. ASSUME ManagedInv, [Next]_vars PROVE ManagedInv'
  <2>1. CoreInv /\ TargetInv /\ TargetedAnswersAreTruthful /\ IsSeq(request.target)
    BY <1>2 DEF ManagedInv, TargetInv
  <2>2. CoreInv'
    BY <1>2, <2>1, CoreStep
  <2>3. TargetInv' /\ TargetedAnswersAreTruthful'
    BY <1>2, <2>1, TargetedStep
  <2>4. QED
    BY <2>2, <2>3 DEF ManagedInv
<1>3. QED
  BY <1>1, <1>2, PTL DEF Spec

\* The committed rows are whole.
LEMMA CommittedIs ==
  ASSUME TreeInv
  PROVE  /\ Coherent(entities, history, {}) /\ RowsOK(entities)
         /\ \A k \in Instances : k \in DOMAIN entities /\ entities[k].instance # NotManaged
         /\ \A k \in DOMAIN entities : \A r \in Regs(k) : EntryOf(k, r) = Entry(entities[k], r)
<1>1. Coherent(entities, history, {}) /\ RowsOK(entities)
  BY DEF TreeInv, Coherent
<1>2. ASSUME NEW k \in DOMAIN entities, NEW r \in Regs(k) PROVE EntryOf(k, r) = Entry(entities[k], r)
  <2>1. Shape(k, entities[k]) /\ r \in DOMAIN entities[k].states
    BY <1>1, RowIs
  <2>2. QED
    BY <2>1, EntriesAreStored DEF EntryOf
<1>3. QED
  BY <1>1, <1>2 DEF Instances

\* Sound rows have their type.
LEMMA RowsAreTyped ==
  ASSUME RowsOK(work), PhaseInv
  PROVE  TypeOK
<1>1. ASSUME NEW k \in DOMAIN work
      PROVE  /\ DOMAIN work[k].states = DOMAIN Defs[k.machine].initial
             /\ work[k].version \in Nat \ {0}
             /\ work[k].stored.version = work[k].version
             /\ work[k].instance.status \in {"none", "active", "completed", "cancelled"}
             /\ work[k].instance # NotManaged =>
                  LET link == work[k].instance.link
                  IN /\ work[k].instance.depth \in 1..MaxDepth
                     /\ IsCompound(link.owner, link.region, link.state)
                     /\ k = ChildKey(link.owner, link.region, link.state)
  <2>1. Shape(k, work[k])
    BY DEF RowsOK
  <2>2. InstanceOK(k, work[k].instance)
    BY <2>1 DEF Shape
  <2>3. work[k].instance.status \in {"none", "active", "completed", "cancelled"}
    BY <2>2, StatusIs
  <2>4. QED
    BY <2>1, <2>2, <2>3 DEF Shape, InstanceOK, Regs
<1>2. QED
  BY <1>1 DEF TypeOK, PhaseInv

\* Every variable keeps its type: whatever a transaction has done so far, its rows
\* are complete, and a child lies below the owner its link names, no deeper than
\* MAX_MANAGED_DEPTH.
THEOREM ManagedTypeOK == Spec => []TypeOK
<1>1. ASSUME TreeInv PROVE TypeOK
  BY <1>1, RowsAreTyped DEF TreeInv, Coherent
<1>2. QED
  BY <1>1, ManagedInvariant, PTL DEF ManagedInv, CoreInv

\* An active child's owner exists, may still be written and is in the very entry
\* that started the child: neither write_entity on a path of its own nor a
\* cancellation that stops halfway leaves a child that nothing will ever end.
THEOREM ActiveChildrenBelongAlways == Spec => []ActiveChildrenBelong
<1>1. ASSUME TreeInv PROVE ActiveChildrenBelong
  <2> SUFFICES ASSUME NEW k \in Instances, entities[k].instance.status = "active"
               PROVE  LET link == entities[k].instance.link
                      IN /\ link.owner \in DOMAIN entities
                         /\ entities[link.owner].instance.status \in {"none", "active"}
                         /\ EntryOf(link.owner, link.region).state = link.state
                         /\ EntryOf(link.owner, link.region).seq = link.seq
    BY DEF ActiveChildrenBelong
  <2> DEFINE link == entities[k].instance.link
  <2>1. /\ Coherent(entities, history, {}) /\ RowsOK(entities)
        /\ k \in DOMAIN entities /\ entities[k].instance # NotManaged
    BY <1>1, CommittedIs
  <2>2. link.owner \in DOMAIN entities /\ Current(entities, k)
    <3>1. BelongOK(entities, {})
      BY <2>1 DEF Coherent
    <3>2. ~ Ending(entities, {}, k)
      BY DEF Ending
    <3>3. QED
      BY <2>1, <3>1, <3>2 DEF BelongOK
  <2>3. link.region \in Regs(link.owner)
    BY <2>1, LinkIs
  <2>4. EntryOf(link.owner, link.region) = Entry(entities[link.owner], link.region)
    BY <1>1, <2>2, <2>3, CommittedIs
  <2>5. QED
    BY <2>2, <2>4 DEF Current, Live
<1>2. QED
  BY <1>1, ManagedInvariant, PTL DEF ManagedInv, CoreInv

\* A live entity in a managed compound state has an active child, started by the
\* entity's present entry of that state: nobody waits for a child that is not
\* there, whatever started, ended and restarted children in one transaction.
THEOREM CompoundStatesAlwaysHaveTheirChild == Spec => []CompoundStatesHaveTheirChild
<1>1. ASSUME TreeInv PROVE CompoundStatesHaveTheirChild
  <2> SUFFICES ASSUME NEW k \in DOMAIN entities, Live(entities[k]), NEW r \in DOMAIN entities[k].states,
                      IsCompound(k, r, entities[k].states[r])
               PROVE  LET child == ChildKey(k, r, entities[k].states[r])
                      IN /\ child \in Instances
                         /\ entities[child].instance.status = "active"
                         /\ entities[child].instance.link.owner = k
                         /\ entities[child].instance.link.seq = EntryOf(k, r).seq
    BY DEF CompoundStatesHaveTheirChild
  <2>1. Coherent(entities, history, {}) /\ RowsOK(entities)
    BY <1>1, CommittedIs
  <2>2. HasChild(entities, {}, k, r)
    <3>1. HaveOK(entities, {})
      BY <2>1 DEF Coherent
    <3>2. ~ Awaiting({}, k, r)
      BY DEF Awaiting
    <3>3. QED
      BY <3>1, <3>2 DEF HaveOK
  <2>3. EntryOf(k, r) = Entry(entities[k], r)
    <3>1. r \in Regs(k)
      BY <2>1, RowIs
    <3>2. QED
      BY <1>1, <3>1, CommittedIs
  <2>4. QED
    BY <2>2, <2>3 DEF HasChild, Instances
<1>2. QED
  BY <1>1, ManagedInvariant, PTL DEF ManagedInv, CoreInv

\* A child that ended was ended once: by its owner's $sub_complete row if it
\* completed, by its own $sub_cancel row if it was cancelled, and an active one by
\* neither.
THEOREM OneWinnerAlways == Spec => []OneWinner
<1>1. ASSUME TreeInv PROVE OneWinner
  <2> SUFFICES ASSUME NEW k \in Instances
               PROVE  LET instance == entities[k].instance
                          link == instance.link
                      IN /\ Has(history, link.owner, SubCompleteIdentity(link.region, link.state, link.seq))
                              <=> instance.status = "completed"
                         /\ Has(history, k, CancelIdentity(link.seq)) <=> instance.status = "cancelled"
    BY DEF OneWinner, Has
  <2>1. WinnerOK(entities, history, {}) /\ k \in DOMAIN entities /\ entities[k].instance # NotManaged
    BY <1>1, CommittedIs DEF Coherent
  <2>2. Completed(entities, history, {}, k) /\ Cancelled(entities, history, k)
    BY <2>1 DEF WinnerOK
  <2>3. QED
    BY <2>2 DEF Completed, Cancelled
<1>2. QED
  BY <1>1, ManagedInvariant, PTL DEF ManagedInv, CoreInv

\* No child is left active in a state that its completion rule names, after any
\* write of it, by an event, a join, a timer or the completion of its own child.
THEOREM CompletionIsAlwaysImmediate == Spec => []CompletionIsImmediate
<1>1. ASSUME TreeInv PROVE CompletionIsImmediate
  <2>1. ImmediateOK(entities)
    BY <1>1, CommittedIs DEF Coherent
  <2>2. QED
    BY <1>1, <2>1, CommittedIs DEF ImmediateOK, CompletionIsImmediate
<1>2. QED
  BY <1>1, ManagedInvariant, PTL DEF ManagedInv, CoreInv

\* complete_parent never finds its parent gone or moved on, and no row that the
\* engine writes repeats an identity: the errors the code calls internal are
\* unreachable.
THEOREM NoInternalErrorEver == Spec => []NoInternalError
BY ManagedInvariant, PTL DEF ManagedInv, CoreInv

\* The answer to a targeted request tells whether the target's history holds the
\* event, replays and ended instances included.
THEOREM TargetedAnswersAreAlwaysTruthful == Spec => []TargetedAnswersAreTruthful
BY ManagedInvariant, PTL DEF ManagedInv

\* No step writes a completed or cancelled child again, or removes it.
THEOREM EndedInstancesStayFrozen == Spec => EndedInstancesAreFrozen
<1>1. ASSUME CoreInv, IsSeq(request.target), [Next]_vars, NEW k \in Instances, entities[k].instance.status # "active"
      PROVE  k \in DOMAIN entities' /\ entities'[k] = entities[k]
  <2>1. TreeInv /\ Frozen
    BY <1>1 DEF CoreInv
  <2>2. k \in DOMAIN entities /\ entities[k].instance.status \in {"completed", "cancelled"}
    BY <1>1, <2>1, CommittedIs, RowIs
  <2>3. CASE entities' = entities
    BY <2>2, <2>3
  <2>4. CASE Commit
    BY <2>1, <2>2, <2>4 DEF Commit, Frozen
  <2>5. CASE BeginTransaction
    BY <2>1, <2>3, <2>5, BeginIs DEF Begins, TreeInv
  <2>6. CASE Call
    BY <1>1, <2>1, <2>3, <2>6, CallKeeps DEF Keeps, Fail, committed
  <2>7. CASE Crash
    BY <2>3, <2>7 DEF Crash, Fail, committed
  <2>8. CASE UNCHANGED vars
    BY <2>3, <2>8 DEF vars
  <2>9. QED
    BY <1>1, <2>4, <2>5, <2>6, <2>7, <2>8 DEF Next
<1>2. ASSUME ManagedInv, [Next]_vars
      PROVE  [\A k \in Instances : entities[k].instance.status # "active"
                                    => k \in DOMAIN entities' /\ entities'[k] = entities[k]]_vars
  BY <1>1, <1>2 DEF ManagedInv, TargetInv
<1>3. QED
  BY <1>2, ManagedInvariant, PTL DEF Spec, EndedInstancesAreFrozen

-----------------------------------------------------------------------------
(* Deletion: what a deleted owner leaves behind is not adopted.            *)
(*                                                                         *)
(* Clients may delete any row, so the tree need not be coherent; what is   *)
(* left is the shape of rows and calls, and OrphanOK.                      *)

\* The transaction that made a row: by `m` an earlier one, or n, which runs.
Born(m, n, k) == IF k \in DOMAIN m THEN m[k] ELSE n

\* A pending call will start the child of the state that o is in.
Starting(C, o, r) ==
  \/ \E x \in C : x.op = "start" /\ x.at = o /\ x.region = r
  \/ \E x \in C : x.op = "visit" /\ x.at = o /\ x.region = r /\ x.old.seq # x.new.seq /\ ~ x.ended

\* A child older than its live owner is in the way of the owner's own child:
\* the owner is not in that state, or will be refused when it starts its child.
OrphanOK(w, m, n, C, k) ==
  LET link == w[k].instance.link
  IN /\ w[k].instance # NotManaged
     /\ link.owner \in DOMAIN w /\ Live(w[link.owner])
     /\ Entry(w[link.owner], link.region).state = link.state
     /\ Born(m, n, k) < Born(m, n, link.owner)
     => Starting(C, link.owner, link.region)

CallShape(x, w) ==
  /\ x.op \in Asks \union Descends \union Alone
  /\ x.op = "create" => x.at \in Keys
  /\ x.op = "target" => Root \in DOMAIN w
  /\ x.op \notin {"create", "target"} => x.at \in DOMAIN w
  /\ x.op = "visit" =>
       x.region \in Regs(x.at) /\ x.new = Entry(w[x.at], x.region) /\ x.ended \in BOOLEAN
  /\ x.op = "start" => x.region \in Regs(x.at) /\ x.state = Entry(w[x.at], x.region).state
  /\ x.op \in {"end", "complete"} => w[x.at].instance # NotManaged

CallsShaped(C, w) == \A x \in C : CallShape(x, w)

Apart(w, m, n, C) ==
  /\ RowsOK(w) /\ CallsShaped(C, w)
  /\ \A k \in DOMAIN w : OrphanOK(w, m, n, C, k)

Births(m, n) == n \in Nat /\ \A k \in DOMAIN m : m[k] \in 0..n

DeletionInv ==
  /\ Apart(work, made, transactions, Pending) /\ Apart(entities, made, transactions, {})
  /\ Births(made, transactions) /\ DOMAIN made = DOMAIN entities
  /\ DOMAIN entities \subseteq DOMAIN work
  /\ StackOK /\ PhaseInv /\ IsSeq(request.target)

\* Births that are the same are the same for the invariant.
LEMMA SameBirths ==
  ASSUME NEW w, NEW m, NEW n, NEW C, Apart(w, m, n, C),
         NEW g, NEW p, \A k \in DOMAIN w : Born(g, p, k) = Born(m, n, k)
  PROVE  Apart(w, g, p, C)
<1>1. ASSUME NEW k \in DOMAIN w PROVE OrphanOK(w, g, p, C, k)
  <2>1. OrphanOK(w, m, n, C, k)
    BY DEF Apart
  <2>2. Born(g, p, k) = Born(m, n, k)
    OBVIOUS
  <2>3. w[k].instance.link.owner \in DOMAIN w =>
          Born(g, p, w[k].instance.link.owner) = Born(m, n, w[k].instance.link.owner)
    OBVIOUS
  <2>4. QED
    BY <2>1, <2>2, <2>3 DEF OrphanOK
<1>2. QED
  BY <1>1 DEF Apart

\* Nothing is born after the running transaction.
LEMMA BornBefore ==
  ASSUME NEW m, NEW n, Births(m, n), NEW k
  PROVE  Born(m, n, k) \in 0..n
BY DEF Births, Born

\* Between two calls, calls that start nothing may take each other's place.
LEMMA OtherCalls ==
  ASSUME NEW w, NEW m, NEW n, NEW C, Apart(w, m, n, C), NEW D, CallsShaped(D, w),
         \A x \in C : x.op \in {"visit", "start"} => x \in D
  PROVE  Apart(w, m, n, D)
<1>1. \A o, r : Starting(C, o, r) => Starting(D, o, r)
  BY DEF Starting
<1>2. ASSUME NEW k \in DOMAIN w PROVE OrphanOK(w, m, n, D, k)
  <2>1. OrphanOK(w, m, n, C, k)
    BY DEF Apart
  <2>2. QED
    BY <1>1, <2>1 DEF OrphanOK
<1>3. QED
  BY <1>2 DEF Apart

\* What a step leaves of the rows that pending calls are about.
Stays(w, v, C) ==
  /\ \A k \in DOMAIN w : k \in DOMAIN v /\ (w[k].instance # NotManaged => v[k].instance # NotManaged)
  /\ \A x \in C : x.op \in {"visit", "start"} =>
       \A r \in Regs(x.at) : Entry(v[x.at], r) = Entry(w[x.at], r)

LEMMA ShapesStay ==
  ASSUME NEW w, NEW v, NEW C, CallsShaped(C, w), Stays(w, v, C)
  PROVE  CallsShaped(C, v)
<1> SUFFICES ASSUME NEW x \in C PROVE CallShape(x, v)
  BY DEF CallsShaped
<1>1. CallShape(x, w)
  BY DEF CallsShaped
<1>2. \A k \in DOMAIN w : k \in DOMAIN v /\ (w[k].instance # NotManaged => v[k].instance # NotManaged)
  BY DEF Stays
<1>3. x.op = "visit" => x.region \in Regs(x.at) /\ x.new = Entry(v[x.at], x.region) /\ x.ended \in BOOLEAN
  BY <1>1 DEF CallShape, Stays
<1>4. x.op = "start" => x.region \in Regs(x.at) /\ x.state = Entry(v[x.at], x.region).state
  BY <1>1 DEF CallShape, Stays
<1>5. x.op \in {"end", "complete"} => v[x.at].instance # NotManaged
  BY <1>1, <1>2 DEF CallShape
<1>6. /\ x.op \in Asks \union Descends \union Alone
      /\ x.op = "create" => x.at \in Keys
      /\ x.op = "target" => Root \in DOMAIN v
      /\ x.op \notin {"create", "target"} => x.at \in DOMAIN v
  BY <1>1, <1>2 DEF CallShape
<1>7. QED
  BY <1>3, <1>4, <1>5, <1>6 DEF CallShape

\* A start in a state that is no compound state.
LEMMA ApartSkipped ==
  ASSUME NEW w, NEW m, NEW n, NEW x, NEW R, Apart(w, m, n, {x} \union R),
         x.op = "start", ~ IsCompound(x.at, x.region, x.state)
  PROVE  Apart(w, m, n, R)
<1>1. CallShape(x, w) /\ CallsShaped(R, w) /\ RowsOK(w)
  BY DEF Apart, CallsShaped
<1>2. ASSUME NEW k \in DOMAIN w PROVE OrphanOK(w, m, n, R, k)
  <2> DEFINE link == w[k].instance.link
  <2> SUFFICES ASSUME w[k].instance # NotManaged, link.owner \in DOMAIN w, Live(w[link.owner]),
                      Entry(w[link.owner], link.region).state = link.state,
                      Born(m, n, k) < Born(m, n, link.owner)
               PROVE  Starting(R, link.owner, link.region)
    BY DEF OrphanOK
  <2>1. Starting({x} \union R, link.owner, link.region)
    <3>1. OrphanOK(w, m, n, {x} \union R, k)
      BY DEF Apart
    <3>2. QED
      BY <3>1 DEF OrphanOK
  <2>2. IsCompound(link.owner, link.region, link.state)
    BY <1>1, LinkIs
  <2>3. ~ (x.at = link.owner /\ x.region = link.region)
    BY <1>1, <2>2 DEF CallShape
  <2>4. QED
    BY <2>1, <2>3 DEF Starting
<1>3. QED
  BY <1>1, <1>2 DEF Apart

\* A visit starts what it is to start.
LEMMA ApartVisited ==
  ASSUME NEW w, NEW m, NEW n, NEW x, NEW R, Apart(w, m, n, {x} \union R), x.op = "visit",
         NEW N, CallsShaped(N, w),
         x.old.seq # x.new.seq /\ ~ x.ended => StartCall(x.at, x.region, x.new.state, x.new.seq) \in N
  PROVE  Apart(w, m, n, N \union R)
<1> DEFINE y == StartCall(x.at, x.region, x.new.state, x.new.seq)
<1>1. y.op = "start" /\ y.at = x.at /\ y.region = x.region
  BY DEF StartCall
<1> HIDE DEF y
<1>2. CallsShaped(N \union R, w) /\ RowsOK(w)
  BY DEF Apart, CallsShaped
<1>3. ASSUME NEW o, NEW r, Starting({x} \union R, o, r) PROVE Starting(N \union R, o, r)
  <2>1. CASE x.at = o /\ x.region = r /\ x.old.seq # x.new.seq /\ ~ x.ended
    <3>1. y \in N \union R
      BY <2>1 DEF y
    <3>2. QED
      BY <1>1, <2>1, <3>1 DEF Starting
  <2>2. CASE ~ (x.at = o /\ x.region = r /\ x.old.seq # x.new.seq /\ ~ x.ended)
    BY <1>3, <2>2 DEF Starting
  <2>3. QED
    BY <2>1, <2>2
<1>4. ASSUME NEW k \in DOMAIN w PROVE OrphanOK(w, m, n, N \union R, k)
  <2>1. OrphanOK(w, m, n, {x} \union R, k)
    BY DEF Apart
  <2>2. QED
    BY <1>3, <2>1 DEF OrphanOK
<1>5. QED
  BY <1>2, <1>4 DEF Apart

\* A new row: it is born now, and its own children are still to be started.
LEMMA ApartInserted ==
  ASSUME NEW w, NEW m, NEW n, Births(m, n), NEW x, NEW R, Apart(w, m, n, {x} \union R),
         NEW k \in Keys, k \notin DOMAIN w, k \notin DOMAIN m, NEW instance, InstanceOK(k, instance),
         x.op = "create" \/ (x.op = "start" /\ k = ChildKey(x.at, x.region, x.state)),
         NEW N, \A r \in Regs(k) : StartCall(k, r, Defs[k.machine].initial[r], 1) \in N,
         \A y \in N : \E r \in Regs(k) : y = StartCall(k, r, Defs[k.machine].initial[r], 1)
  PROVE  Apart(Insert(w, k, NewEntity(k, instance)), m, n, N \union R)
<1> DEFINE C == {x} \union R
           D == N \union R
           e == NewEntity(k, instance)
           v == Insert(w, k, e)
<1>1. Apart(w, m, n, C) /\ RowsOK(w) /\ CallsShaped(C, w) /\ x \in C /\ \A y \in C : y = x \/ y \in R
  BY DEF Apart
<1>2. N \subseteq D /\ R \subseteq D /\ R \subseteq C /\ \A y \in D : y \in N \/ y \in R
  OBVIOUS
<1>3. /\ Shape(k, e) /\ e.instance = instance
      /\ \A r \in Regs(k) : Entry(e, r).state = Defs[k.machine].initial[r]
  BY NewRowShape
<1> HIDE DEF C, D, e
<1>4. /\ v[k] = e /\ k \in DOMAIN v
      /\ \A j \in DOMAIN w : j \in DOMAIN v /\ j # k /\ v[j] = w[j]
      /\ \A j \in DOMAIN v : j = k \/ j \in DOMAIN w
  BY DEF Insert
<1> HIDE DEF v
<1>5. RowsOK(v)
  BY <1>1, <1>3, <1>4 DEF RowsOK
<1>6. CallsShaped(D, v)
  <2>1. CallsShaped(R, w)
    BY <1>1, <1>2 DEF CallsShaped
  <2>2. \A y \in R : y.op \in {"visit", "start"} => y.at \in DOMAIN w
    BY <2>1 DEF CallsShaped, CallShape
  <2>3. Stays(w, v, R)
    BY <1>4, <2>2 DEF Stays
  <2>4. CallsShaped(R, v)
    BY <2>1, <2>3, ShapesStay
  <2>5. ASSUME NEW y \in N PROVE CallShape(y, v)
    <3>1. PICK r \in Regs(k) : y = StartCall(k, r, Defs[k.machine].initial[r], 1)
      OBVIOUS
    <3>2. y.op = "start" /\ y.at = k /\ y.region = r /\ y.state = Defs[k.machine].initial[r]
      BY <3>1 DEF StartCall
    <3>3. QED
      BY <1>3, <1>4, <3>2 DEF CallShape, Descends
  <2>6. QED
    BY <1>2, <2>4, <2>5 DEF CallsShaped
<1>7. ASSUME NEW j \in DOMAIN v PROVE OrphanOK(v, m, n, D, j)
  <2> DEFINE link == v[j].instance.link
             o == link.owner
  <2> SUFFICES ASSUME v[j].instance # NotManaged, o \in DOMAIN v, Live(v[o]),
                      Entry(v[o], link.region).state = link.state, Born(m, n, j) < Born(m, n, o)
               PROVE  Starting(D, o, link.region)
    BY DEF OrphanOK
  <2>1. j # k
    <3>1. Born(m, n, k) = n /\ Born(m, n, o) \in 0..n /\ n \in Nat
      BY BornBefore DEF Born, Births
    <3> HIDE DEF o
    <3>2. QED
      BY <3>1
  <2>2. j \in DOMAIN w /\ v[j] = w[j]
    BY <1>4, <2>1
  <2>3. /\ link.region \in Regs(o) /\ j = ChildKey(o, link.region, link.state)
        /\ j \in Keys
    BY <1>5, LinkIs, RowIs
  <2>4. CASE o = k
    <3>1. StartCall(k, link.region, Defs[k.machine].initial[link.region], 1) \in D
      BY <1>2, <2>3, <2>4
    <3>2. LET y == StartCall(k, link.region, Defs[k.machine].initial[link.region], 1)
          IN y.op = "start" /\ y.at = k /\ y.region = link.region
      BY DEF StartCall
    <3> HIDE DEF link
    <3>3. QED
      BY <2>4, <3>1, <3>2 DEF Starting
  <2>5. CASE o # k
    <3>1. o \in DOMAIN w /\ v[o] = w[o]
      BY <1>4, <2>5
    <3>2. Starting(C, o, link.region)
      <4>1. OrphanOK(w, m, n, C, j)
        BY <1>1, <2>2 DEF Apart
      <4>2. QED
        BY <2>2, <3>1, <4>1 DEF OrphanOK
    <3>3. ~ (x.op = "start" /\ x.at = o /\ x.region = link.region)
      <4> SUFFICES ASSUME x.op = "start", x.at = o, x.region = link.region PROVE FALSE
        OBVIOUS
      <4>1. CallShape(x, w)
        BY <1>1 DEF CallsShaped
      <4>2. x.state = link.state
        BY <3>1, <4>1 DEF CallShape
      <4>3. j = k
        BY <2>3, <4>2
      <4>4. QED
        BY <2>1, <4>3
    <3>4. x.op # "visit"
      OBVIOUS
    <3> HIDE DEF link, o
    <3>5. Starting(R, o, link.region)
      BY <1>1, <3>2, <3>3, <3>4 DEF Starting
    <3>6. QED
      BY <1>2, <3>5 DEF Starting
  <2>6. QED
    BY <2>4, <2>5
<1>8. QED
  BY <1>5, <1>6, <1>7 DEF Apart, D, v, e

\* A write with nothing to start before it: what it enters, it visits.
LEMMA ApartWritten ==
  ASSUME NEW w, NEW m, NEW n, NEW C, Apart(w, m, n, C), \A y \in C : y.op \notin {"visit", "start"},
         NEW k \in DOMAIN w, NEW spec, NEW v, NEW ended \in BOOLEAN, Effect(w, k, spec, v, ended),
         NEW D, Visits(w, k, v, ended, D), \A y \in D : y.op \in {"visit", "complete"}
  PROVE  Apart(v, m, n, D)
<1>1. /\ RowsOK(w) /\ k \in Keys /\ Shape(k, w[k])
      /\ DOMAIN w[k].states = Regs(k) /\ w[k].version \in Nat
      /\ \A r \in Regs(k) : Entry(w[k], r).seq \in 1..w[k].version
  BY RowIs DEF Apart, Shape
<1>2. /\ DOMAIN v = DOMAIN w /\ \A j \in DOMAIN w : j # k => v[j] = w[j]
      /\ Written(k, w[k], spec, v[k], ended)
  BY DEF Effect
<1>3. RowsOK(v)
  BY <1>1, <1>2 DEF RowsOK, Written
<1>4. /\ v[k].version = w[k].version + 1
      /\ \A r \in Regs(k) : Entry(v[k], r) = Entry(w[k], r) \/ Entry(v[k], r).seq # Entry(w[k], r).seq
  <2>1. /\ v[k].version = w[k].version + 1
        /\ \A r \in Regs(k) : Entry(v[k], r) = Entry(w[k], r) \/ Entry(v[k], r).seq = v[k].version
    BY <1>1, <1>2 DEF Written
  <2>2. QED
    BY <1>1, <2>1
<1>5. \/ ended = FALSE /\ v[k].instance = w[k].instance
      \/ /\ ended = TRUE /\ w[k].instance # NotManaged /\ v[k].instance.status = "completed"
         /\ v[k].instance.link = w[k].instance.link
  <2>1. CASE ended = FALSE /\ v[k].instance = w[k].instance
    BY <2>1
  <2>2. CASE /\ ended = TRUE /\ w[k].instance.status = "active"
             /\ v[k].instance = [w[k].instance EXCEPT !.status = "completed"]
    <3> DEFINE x == w[k].instance
    <3>1. x # NotManaged /\ InstanceOK(k, x)
      BY <1>1, <2>2, RowIs DEF Shape
    <3>2. x = [status |-> x.status, depth |-> x.depth, link |-> x.link]
      BY <3>1, InstanceIs
    <3>3. v[k].instance = [x EXCEPT !.status = "completed"]
      BY <2>2
    <3> HIDE DEF x
    <3>4. v[k].instance.status = "completed" /\ v[k].instance.link = x.link
      BY <3>2, <3>3
    <3>5. QED
      BY <2>2, <3>1, <3>4 DEF x
  <2>3. QED
    BY <1>2, <2>1, <2>2 DEF Written
<1>6. ended = TRUE => v[k].instance # NotManaged /\ ~ Live(v[k])
  BY <1>5 DEF NotManaged, Live
<1>7. /\ \A x \in D : /\ x.at = k
                      /\ x.op = "complete" => ended = TRUE
                      /\ x.op = "visit" => /\ x.region \in Regs(k) /\ x.ended = ended
                                           /\ x.old = Entry(w[k], x.region) /\ x.new = Entry(v[k], x.region)
      /\ \A r \in Regs(k) : \E x \in D : x.op = "visit" /\ x.region = r
  BY <1>1 DEF Visits
<1>8. CallsShaped(D, v)
  <2> SUFFICES ASSUME NEW x \in D PROVE CallShape(x, v)
    BY DEF CallsShaped
  <2>1. x.op \in {"visit", "complete"} /\ x.at = k /\ k \in DOMAIN v
    BY <1>2, <1>7
  <2>2. x.op = "visit" => x.region \in Regs(k) /\ x.new = Entry(v[k], x.region) /\ x.ended \in BOOLEAN
    BY <1>7
  <2>3. x.op = "complete" => v[k].instance # NotManaged
    BY <1>6, <1>7
  <2>4. QED
    BY <2>1, <2>2, <2>3 DEF CallShape, Descends, Alone
<1>9. ASSUME NEW j \in DOMAIN v PROVE OrphanOK(v, m, n, D, j)
  <2> DEFINE link == v[j].instance.link
             o == link.owner
             r == link.region
  <2> SUFFICES ASSUME v[j].instance # NotManaged, o \in DOMAIN v, Live(v[o]),
                      Entry(v[o], r).state = link.state, Born(m, n, j) < Born(m, n, o)
               PROVE  Starting(D, o, r)
    BY DEF OrphanOK
  <2>1. j \in DOMAIN w /\ w[j].instance # NotManaged /\ w[j].instance.link = link
    <3>1. CASE j = k
      BY <1>2, <1>5, <3>1
    <3>2. CASE j # k
      BY <1>2, <3>2
    <3>3. QED
      BY <3>1, <3>2
  <2>2. r \in Regs(o)
    BY <1>3, LinkIs
  <2>3. ~ (o \in DOMAIN w /\ Live(w[o]) /\ Entry(w[o], r).state = link.state)
    <3>1. OrphanOK(w, m, n, C, j)
      BY <2>1 DEF Apart
    <3>2. ~ Starting(C, o, r)
      BY DEF Starting
    <3>3. QED
      BY <2>1, <3>1, <3>2 DEF OrphanOK
  <2> HIDE DEF link, o, r
  <2>4. o = k
    BY <1>2, <2>3
  <2>5. ended = FALSE
    BY <1>6, <2>4
  <2>6. Live(w[k])
    BY <1>5, <2>4, <2>5 DEF Live
  <2>7. Entry(v[k], r) # Entry(w[k], r)
    BY <1>2, <2>3, <2>4, <2>6
  <2>8. Entry(v[k], r).seq # Entry(w[k], r).seq
    BY <1>4, <2>2, <2>4, <2>7
  <2>9. PICK x \in D : x.op = "visit" /\ x.region = r
    BY <1>7, <2>2, <2>4
  <2>10. x.at = o /\ x.old.seq # x.new.seq /\ ~ x.ended
    BY <1>7, <2>4, <2>5, <2>8, <2>9
  <2>11. QED
    BY <2>9, <2>10 DEF Starting
<1>10. QED
  BY <1>3, <1>8, <1>9 DEF Apart

\* A child is ended: it will start nothing more.
LEMMA ApartEnded ==
  ASSUME NEW w, NEW m, NEW n, NEW x, NEW R, Apart(w, m, n, {x} \union R), x.op = "end",
         NEW v, DOMAIN v = DOMAIN w, \A j \in DOMAIN w : j # x.at => v[j] = w[j],
         Shape(x.at, v[x.at]), v[x.at].instance.status = "cancelled",
         v[x.at].instance.link = w[x.at].instance.link,
         \A r \in Regs(x.at) : Entry(v[x.at], r) = Entry(w[x.at], r)
  PROVE  Apart(v, m, n, R)
<1> DEFINE k == x.at
<1>1. /\ RowsOK(w) /\ CallsShaped(R, w) /\ k \in DOMAIN w /\ w[k].instance # NotManaged
  BY DEF Apart, CallsShaped, CallShape, Descends
<1>2. RowsOK(v)
  BY <1>1 DEF RowsOK
<1>3. v[k].instance # NotManaged /\ ~ Live(v[k])
  BY DEF NotManaged, Live
<1>4. CallsShaped(R, v)
  <2>1. \A j \in DOMAIN w : j \in DOMAIN v /\ (w[j].instance # NotManaged => v[j].instance # NotManaged)
    BY <1>3
  <2>2. \A y \in R : y.op \in {"visit", "start"} =>
          \A r \in Regs(y.at) : Entry(v[y.at], r) = Entry(w[y.at], r)
    <3> SUFFICES ASSUME NEW y \in R, y.op \in {"visit", "start"}, NEW r \in Regs(y.at)
                 PROVE  Entry(v[y.at], r) = Entry(w[y.at], r)
      OBVIOUS
    <3>1. y.at \in DOMAIN w
      BY <1>1 DEF CallsShaped, CallShape
    <3>2. QED
      BY <3>1
  <2>3. Stays(w, v, R)
    BY <2>1, <2>2 DEF Stays
  <2>4. QED
    BY <1>1, <2>3, ShapesStay
<1>5. ASSUME NEW j \in DOMAIN v PROVE OrphanOK(v, m, n, R, j)
  <2> DEFINE link == v[j].instance.link
             o == link.owner
  <2> SUFFICES ASSUME v[j].instance # NotManaged, o \in DOMAIN v, Live(v[o]),
                      Entry(v[o], link.region).state = link.state, Born(m, n, j) < Born(m, n, o)
               PROVE  Starting(R, o, link.region)
    BY DEF OrphanOK
  <2>1. j \in DOMAIN w /\ w[j].instance # NotManaged /\ w[j].instance.link = link
    <3>1. CASE j = k
      BY <1>1, <3>1
    <3>2. CASE j # k
      BY <3>2
    <3>3. QED
      BY <3>1, <3>2
  <2>2. OrphanOK(w, m, n, {x} \union R, j)
    BY <2>1 DEF Apart
  <2> HIDE DEF link, o
  <2>3. o # k /\ o \in DOMAIN w /\ v[o] = w[o]
    BY <1>3
  <2>4. Starting({x} \union R, o, link.region)
    BY <2>1, <2>2, <2>3 DEF OrphanOK, o
  <2>5. QED
    BY <2>4 DEF Starting
<1>6. QED
  BY <1>2, <1>4, <1>5 DEF Apart

\* A row is deleted: orphans appear when it is made again.
LEMMA ApartWithout ==
  ASSUME NEW w, NEW m, NEW n, Apart(w, m, n, {}), NEW k
  PROVE  Apart(Without(w, k), Without(m, k), n, {})
<1> DEFINE v == Without(w, k)
           g == Without(m, k)
<1>1. /\ \A j \in DOMAIN v : j \in DOMAIN w /\ j # k /\ v[j] = w[j]
      /\ \A j : j # k => Born(g, n, j) = Born(m, n, j)
  BY DEF Without, Born
<1> HIDE DEF v, g
<1>2. RowsOK(v)
  BY <1>1 DEF Apart, RowsOK
<1>3. ASSUME NEW j \in DOMAIN v PROVE OrphanOK(v, g, n, {}, j)
  <2>1. OrphanOK(w, m, n, {}, j)
    BY <1>1 DEF Apart
  <2>2. j \in DOMAIN w /\ v[j] = w[j] /\ Born(g, n, j) = Born(m, n, j)
    BY <1>1
  <2>3. v[j].instance.link.owner \in DOMAIN v =>
          /\ v[j].instance.link.owner \in DOMAIN w
          /\ v[v[j].instance.link.owner] = w[v[j].instance.link.owner]
          /\ Born(g, n, v[j].instance.link.owner) = Born(m, n, v[j].instance.link.owner)
    BY <1>1
  <2>4. QED
    BY <2>1, <2>2, <2>3 DEF OrphanOK
<1>4. CallsShaped({}, v)
  BY DEF CallsShaped
<1>5. QED
  BY <1>2, <1>3, <1>4 DEF Apart, v, g

\* What a call leaves that does not fail.
Kept ==
  /\ UNCHANGED <<entities, history, phase, request, transactions>>
  /\ Apart(work', made, transactions, Calls(todo')) /\ IsSeq(todo') /\ Ordered(todo')
  /\ DOMAIN work \subseteq DOMAIN work'

\* A call that fails ends the transaction.
Failing == \E code : Fail(code)

\* The running call and those below it.
LEMMA TopIs ==
  ASSUME DeletionInv, NEW op, Running(op)
  PROVE  /\ phase = "tx" /\ Head(todo).op = op /\ StackOK /\ RowsOK(work)
         /\ Pending = {Head(todo)} \union Calls(Tail(todo))
         /\ Apart(work, made, transactions, {Head(todo)} \union Calls(Tail(todo)))
         /\ CallShape(Head(todo), work) /\ CallsShaped(Calls(Tail(todo)), work)
         /\ \A y \in Calls(Tail(todo)) : Above(Head(todo), y)
         /\ \A y \in Calls(Tail(todo)) : y.op \in Descends \union {"complete"} => Len(y.at.path) \in Nat
<1>1. phase = "tx" /\ todo # <<>> /\ Head(todo).op = op
  BY DEF Running
<1>2. IsSeq(todo) /\ Ordered(todo) /\ Apart(work, made, transactions, Pending) /\ StackOK
  BY DEF DeletionInv, StackOK
<1>3. /\ Calls(todo) = {Head(todo)} \union Calls(Tail(todo))
      /\ \A y \in Calls(Tail(todo)) : Above(Head(todo), y)
  BY <1>1, <1>2, StackSplits
<1>4. CallShape(Head(todo), work) /\ CallsShaped(Calls(Tail(todo)), work) /\ RowsOK(work)
  BY <1>2, <1>3 DEF Apart, CallsShaped, Pending
<1>5. ASSUME NEW y \in Calls(Tail(todo)), y.op \in Descends \union {"complete"} PROVE Len(y.at.path) \in Nat
  <2>1. y.at \in DOMAIN work
    BY <1>4, <1>5 DEF CallsShaped, CallShape, Descends
  <2>2. QED
    BY <1>4, <2>1, RowIs
<1>6. QED
  BY <1>1, <1>2, <1>3, <1>4, <1>5 DEF Pending

\* The entity of a lifecycle call is there.
LEMMA TopRow ==
  ASSUME DeletionInv, NEW op \in Descends \union {"complete"}, Running(op)
  PROVE  /\ Head(todo).at \in DOMAIN work /\ Head(todo).at \in Keys
         /\ Shape(Head(todo).at, work[Head(todo).at]) /\ Len(Head(todo).at.path) \in Nat
<1>1. Head(todo).at \in DOMAIN work /\ RowsOK(work)
  BY TopIs DEF CallShape, Descends
<1>2. QED
  BY <1>1, RowIs

\* A return that writes nothing.
LEMMA ReturnKept ==
  ASSUME DeletionInv, NEW op, Running(op), NEW calls, Return(calls), IsSeq(calls), Ordered(calls),
         \A y \in Calls(calls), z \in Calls(Tail(todo)) : Above(y, z), UNCHANGED work,
         Apart(work, made, transactions, Calls(calls) \union Calls(Tail(todo)))
  PROVE  Kept
<1>1. StackOK
  BY TopIs
<1>2. /\ IsSeq(todo') /\ Ordered(todo') /\ Calls(todo') = Calls(calls) \union Calls(Tail(todo))
      /\ UNCHANGED <<entities, history, phase, request, transactions>>
  BY <1>1, StackReturns
<1>3. Apart(work', made, transactions, Calls(todo'))
  BY <1>2
<1>4. QED
  BY <1>2, <1>3 DEF Kept

\* Under a quiet call there are only entities still to be asked.
LEMMA QuietTop ==
  ASSUME DeletionInv, NEW op \in Quiet, Running(op)
  PROVE  /\ \A y \in Calls(Tail(todo)) : y.op \in Asks
         /\ \A y \in Pending : y.op \in Quiet /\ y.op \notin {"visit", "start"}
         /\ op \in {"target", "timer", "create"} => Calls(Tail(todo)) = {}
         /\ op \in Asks \union {"timer"} => Head(todo).at \in DOMAIN work
<1> DEFINE x == Head(todo)
           R == Calls(Tail(todo))
<1>1. /\ Pending = {x} \union R /\ x.op = op /\ CallShape(x, work) /\ \A y \in R : Above(x, y)
  BY TopIs
<1> HIDE DEF x, R
<1>2. \A y \in R : op \in Asks /\ y.op \in Asks
  BY <1>1 DEF Above, Quiet, Asks, Descends
<1>3. op \in Asks \union {"timer"} => x.at \in DOMAIN work
  BY <1>1 DEF CallShape, Asks
<1>4. op \in {"target", "timer", "create"} => R = {}
  BY <1>2 DEF Asks
<1>5. \A y \in Pending : y.op \in Quiet /\ y.op \notin {"visit", "start"}
  BY <1>1, <1>2 DEF Quiet, Asks
<1>6. QED
  BY <1>2, <1>3, <1>4, <1>5 DEF x, R

\* Such a call returns, and others are to be asked.
LEMMA QuietKept ==
  ASSUME DeletionInv, NEW op \in Quiet, Running(op),
         NEW calls, IsSeq(calls), Ordered(calls),
         \A y \in Calls(calls) : y.op \in Asks /\ y.at \in DOMAIN work,
         Return(calls), UNCHANGED work
  PROVE  Kept
<1> DEFINE R == Calls(Tail(todo))
           D == Calls(calls) \union R
<1>1. /\ \A y \in R : y.op \in Asks
      /\ \A y \in Pending : y.op \notin {"visit", "start"}
  BY QuietTop
<1>2. Apart(work, made, transactions, Pending) /\ CallsShaped(R, work)
  BY TopIs
<1> HIDE DEF R
<1>3. CallsShaped(D, work)
  BY <1>2 DEF CallsShaped, CallShape, Asks, Descends, Alone
<1> HIDE DEF D
<1>4. Apart(work, made, transactions, D)
  BY <1>1, <1>2, <1>3, OtherCalls
<1>5. \A y \in Calls(calls), z \in R : Above(y, z)
  BY <1>1 DEF Above
<1>6. QED
  BY <1>4, <1>5, ReturnKept DEF D, R

LEMMA AnswerDuplicateKept ==
  ASSUME DeletionInv, AnswerDuplicate
  PROVE  Kept
<1>1. Running("event") /\ Return(<<>>) /\ UNCHANGED work /\ "event" \in Quiet
  BY DEF AnswerDuplicate, Quiet, Asks
<1>2. IsSeq(<<>>) /\ Ordered(<<>>) /\ Calls(<<>>) = {}
  BY SmallStacks
<1>3. QED
  BY <1>1, <1>2, QuietKept

LEMMA SkipTimeoutKept ==
  ASSUME DeletionInv, SkipTimeout
  PROVE  Kept
<1>1. Running("timer") /\ Return(<<>>) /\ UNCHANGED work /\ "timer" \in Quiet
  BY DEF SkipTimeout, Quiet
<1>2. IsSeq(<<>>) /\ Ordered(<<>>) /\ Calls(<<>>) = {}
  BY SmallStacks
<1>3. QED
  BY <1>1, <1>2, QuietKept

LEMMA NoTransitionKept ==
  ASSUME DeletionInv, NoTransition
  PROVE  Kept
<1> DEFINE k == Head(todo).at
           s == IF ~ Head(todo).forward THEN <<>> ELSE ForwardsOf(k, work[k].states)
<1>1. Running("event") /\ Return(s) /\ UNCHANGED work /\ "event" \in Quiet
  BY DEF NoTransition, ForwardsOf, Quiet, Asks
<1>2. k \in DOMAIN work /\ k \in Keys
  <2>1. k \in DOMAIN work /\ RowsOK(work)
    BY <1>1, QuietTop, TopIs DEF Asks
  <2>2. QED
    BY <2>1 DEF RowsOK
<1>3. IsSeq(s) /\ Ordered(s) /\ \A y \in Calls(s) : y.op \in Asks /\ y.at \in DOMAIN work
  <2>1. CASE Head(todo).forward
    <3>1. s = ForwardsOf(k, work[k].states)
      BY <2>1
    <3>2. QED
      BY <1>2, <3>1, ForwardsAre DEF Asks
  <2>2. CASE ~ Head(todo).forward
    <3>1. s = <<>>
      BY <2>2
    <3>2. QED
      BY <3>1, SmallStacks
  <2>3. QED
    BY <2>1, <2>2
<1> HIDE DEF s
<1>4. QED
  BY <1>1, <1>3, QuietKept

\* One entity is to be asked next.
LEMMA AskedKept ==
  ASSUME DeletionInv, NEW op \in Quiet, Running(op), UNCHANGED work,
         NEW k \in DOMAIN work, NEW forward, NEW nested, Return(<<EventCall(k, forward, nested)>>)
  PROVE  Kept
<1> DEFINE y == EventCall(k, forward, nested)
<1>1. y.op \in Asks /\ y.at \in DOMAIN work
  BY DEF EventCall, Asks
<1>2. Return(<<y>>)
  OBVIOUS
<1> HIDE DEF y
<1>3. IsSeq(<<y>>) /\ Ordered(<<y>>) /\ Calls(<<y>>) = {y}
  BY SmallStacks
<1>4. QED
  BY <1>1, <1>2, <1>3, QuietKept

LEMMA ForwardKept ==
  ASSUME DeletionInv, Forward
  PROVE  Kept
<1> DEFINE active == ActiveChild(Head(todo).at, Head(todo).region, Head(todo).state)
<1>1. /\ Running("forward") /\ UNCHANGED work /\ "forward" \in Quiet
      /\ \/ Return(<<>>)
         \/ \E child \in active : Return(<<EventCall(child, TRUE, TRUE)>>)
  BY DEF Forward, Quiet, Asks
<1>2. CASE Return(<<>>)
  <2>1. IsSeq(<<>>) /\ Ordered(<<>>) /\ Calls(<<>>) = {}
    BY SmallStacks
  <2>2. QED
    BY <1>1, <1>2, <2>1, QuietKept
<1>3. ASSUME NEW child \in active, Return(<<EventCall(child, TRUE, TRUE)>>) PROVE Kept
  <2>1. child \in DOMAIN work
    BY ActiveChildIs
  <2>2. QED
    BY <1>1, <1>3, <2>1, AskedKept
<1>4. QED
  BY <1>1, <1>2, <1>3

LEMMA ResolveTargetKept ==
  ASSUME DeletionInv, ResolveTarget
  PROVE  Kept \/ Failing
<1> DEFINE k == TargetKey(request.target)
<1>1. /\ Running("target") /\ "target" \in Quiet
      /\ \/ Return(<<>>) /\ UNCHANGED work
         \/ Failing
         \/ PathActive(request.target) /\ Return(<<EventCall(k, FALSE, FALSE)>>) /\ UNCHANGED work
  BY DEF ResolveTarget, Quiet, Failing
<1>2. CASE Return(<<>>) /\ UNCHANGED work
  <2>1. IsSeq(<<>>) /\ Ordered(<<>>) /\ Calls(<<>>) = {}
    BY SmallStacks
  <2>2. QED
    BY <1>1, <1>2, <2>1, QuietKept
<1>3. CASE PathActive(request.target) /\ Return(<<EventCall(k, FALSE, FALSE)>>) /\ UNCHANGED work
  <2>1. Root \in DOMAIN work
    BY <1>1, TopIs DEF CallShape
  <2>2. k \in DOMAIN work
    BY <1>3, <2>1, PathLeads DEF DeletionInv
  <2>3. QED
    BY <1>1, <1>3, <2>2, AskedKept
<1>4. QED
  BY <1>1, <1>2, <1>3

LEMMA VisitKept ==
  ASSUME DeletionInv, Visit
  PROVE  Kept
<1> DEFINE x == Head(todo)
           R == Calls(Tail(todo))
           changed == x.old.seq # x.new.seq
           s == VisitCalls(x, changed)
           c == CancelCall(x.at, x.region, x.old.state)
           b == StartCall(x.at, x.region, x.new.state, x.new.seq)
<1>1. Running("visit") /\ Return(s) /\ UNCHANGED work
  BY DEF Visit
<1>2. /\ Apart(work, made, transactions, {x} \union R) /\ x.op = "visit"
      /\ \A y \in R : Above(x, y)
      /\ x.at \in DOMAIN work /\ Len(x.at.path) \in Nat
      /\ x.region \in Regs(x.at) /\ x.new = Entry(work[x.at], x.region) /\ x.ended \in BOOLEAN
  BY <1>1, TopIs, TopRow DEF CallShape, Descends
<1>3. changed \in BOOLEAN
  OBVIOUS
<1>4. /\ IsSeq(s) /\ Ordered(s)
      /\ changed /\ ~ x.ended => b \in Calls(s)
      /\ \A y \in Calls(s) : y = c \/ y = b
  BY <1>2, <1>3, VisitCallsAre
<1>5. /\ c.op = "cancel" /\ c.at = x.at
      /\ b.op = "start" /\ b.at = x.at /\ b.region = x.region /\ b.state = x.new.state
  BY DEF CancelCall, StartCall
<1> HIDE DEF s
<1>6. CallsShaped(Calls(s), work)
  <2>1. CallShape(c, work) /\ CallShape(b, work)
    BY <1>2, <1>5 DEF CallShape, Descends
  <2>2. QED
    BY <1>4, <2>1 DEF CallsShaped
<1>7. Apart(work, made, transactions, Calls(s) \union R)
  BY <1>2, <1>4, <1>6, ApartVisited
<1> HIDE DEF c, b, x, R
<1>8. \A y \in Calls(s) : y.at = x.at /\ y.op \in Descends /\ y.op # "end"
  BY <1>4, <1>5 DEF Descends
<1>9. \A y \in Calls(s), z \in R : Above(y, z)
  BY <1>2, <1>8, StandsFor
<1>10. QED
  BY <1>1, <1>4, <1>7, <1>9, ReturnKept DEF R

LEMMA SkipStartKept ==
  ASSUME DeletionInv, SkipStart
  PROVE  Kept
<1> DEFINE x == Head(todo)
           R == Calls(Tail(todo))
<1>1. Running("start") /\ Return(<<>>) /\ UNCHANGED work /\ ~ IsCompound(x.at, x.region, x.state)
  BY DEF SkipStart
<1>2. Apart(work, made, transactions, {x} \union R) /\ x.op = "start"
  BY <1>1, TopIs
<1>3. Apart(work, made, transactions, R)
  BY <1>1, <1>2, ApartSkipped
<1> HIDE DEF x, R
<1>4. IsSeq(<<>>) /\ Ordered(<<>>) /\ Calls(<<>>) = {}
  BY SmallStacks
<1>5. QED
  BY <1>1, <1>3, <1>4, ReturnKept DEF R

\* A row is inserted, and its children are to be started.
LEMMA InsertKept ==
  ASSUME DeletionInv, NEW op \in {"create", "start"}, Running(op),
         NEW k \in Keys, k \notin DOMAIN work, NEW instance, InstanceOK(k, instance),
         op = "create" \/ k = ChildKey(Head(todo).at, Head(todo).region, Head(todo).state),
         \A y \in Calls(Tail(todo)) : y.op \in {"visit", "start", "complete"} /\ Len(y.at.path) <= Len(k.path),
         work' = Insert(work, k, NewEntity(k, instance)), Return(StartsOf(k))
  PROVE  Kept
<1> DEFINE x == Head(todo)
           R == Calls(Tail(todo))
           s == StartsOf(k)
<1>1. Apart(work, made, transactions, {x} \union R) /\ x.op = op /\ StackOK
  BY TopIs
<1>2. /\ IsSeq(s) /\ Ordered(s)
      /\ \A r \in Regs(k) : StartCall(k, r, Defs[k.machine].initial[r], 1) \in Calls(s)
      /\ \A y \in Calls(s) : \E r \in Regs(k) : y = StartCall(k, r, Defs[k.machine].initial[r], 1)
  BY StartsAre
<1>3. Births(made, transactions) /\ k \notin DOMAIN made
  BY DEF DeletionInv
<1> HIDE DEF s
<1>4. Apart(Insert(work, k, NewEntity(k, instance)), made, transactions, Calls(s) \union R)
  BY <1>1, <1>2, <1>3, ApartInserted
<1>5. \A y \in Calls(s) : y.op = "start" /\ y.at = k
  BY <1>2 DEF StartCall
<1> HIDE DEF x
<1>6. \A y \in Calls(s), z \in R : Above(y, z)
  <2> SUFFICES ASSUME NEW y \in Calls(s), NEW z \in R PROVE Above(y, z)
    OBVIOUS
  <2>1. z.op \in {"visit", "start", "complete"} /\ Len(z.at.path) <= Len(y.at.path)
    BY <1>5
  <2>2. QED
    BY <1>5, <2>1 DEF Above, Descends
<1>7. /\ IsSeq(todo') /\ Ordered(todo') /\ Calls(todo') = Calls(s) \union R
      /\ UNCHANGED <<entities, history, phase, request, transactions>>
  BY <1>1, <1>2, <1>6, StackReturns DEF R, s
<1>8. Apart(work', made, transactions, Calls(todo'))
  BY <1>4, <1>7
<1>9. DOMAIN work \subseteq DOMAIN work'
  BY DEF Insert
<1>10. QED
  BY <1>7, <1>8, <1>9 DEF Kept

LEMMA StartChildKept ==
  ASSUME DeletionInv, StartChild
  PROVE  Kept \/ Failing
<1> DEFINE x == Head(todo)
           k == ChildKey(x.at, x.region, x.state)
           depth == work[x.at].instance.depth + 1
           instance == Active(k, x.at, x.region, x.state, x.seq, depth)
<1> SUFFICES ASSUME ~ Failing PROVE Kept
  OBVIOUS
<1>1. /\ Running("start") /\ IsCompound(x.at, x.region, x.state)
      /\ ~ (depth > MaxDepth) /\ k \notin DOMAIN work
      /\ work' = Insert(work, k, NewEntity(k, instance)) /\ Return(StartsOf(k))
  BY DEF StartChild, StartChildWithin, StartsOf, Failing
<1>2. /\ RowsOK(work) /\ x.op = "start" /\ x.at \in DOMAIN work
      /\ \A y \in Calls(Tail(todo)) : Above(x, y)
      /\ \A y \in Calls(Tail(todo)) : y.op \in Descends \union {"complete"} => Len(y.at.path) \in Nat
  BY <1>1, TopIs, TopRow DEF Descends
<1>3. /\ k \in Keys /\ Len(x.at.path) \in Nat /\ Len(k.path) = Len(x.at.path) + 1
      /\ InstanceOK(k, instance) /\ instance.status = "active" /\ instance # NotManaged
      /\ instance.link = [owner |-> x.at, region |-> x.region, state |-> x.state, seq |-> x.seq]
  <2>1. RowsOK(work) /\ x.at \in DOMAIN work /\ IsCompound(x.at, x.region, x.state)
    BY <1>1, <1>2
  <2>2. ~ (work[x.at].instance.depth + 1 > MaxDepth)
    BY <1>1
  <2> HIDE DEF x
  <2>3. QED
    BY <2>1, <2>2, StartedInstance
<1> HIDE DEF instance
<1>4. \A y \in Calls(Tail(todo)) : y.op \in {"visit", "start", "complete"} /\ Len(y.at.path) <= Len(k.path)
  <2> SUFFICES ASSUME NEW y \in Calls(Tail(todo))
               PROVE  y.op \in {"visit", "start", "complete"} /\ Len(y.at.path) <= Len(k.path)
    OBVIOUS
  <2>1. y.op \in {"visit", "start", "complete"} /\ Len(y.at.path) <= Len(x.at.path)
    BY <1>2, BelowStart
  <2>2. Len(y.at.path) \in Nat
    BY <1>2, <2>1 DEF Descends
  <2> HIDE DEF k, x
  <2>3. QED
    BY <1>3, <2>1, <2>2
<1>5. k = ChildKey(Head(todo).at, Head(todo).region, Head(todo).state)
  OBVIOUS
<1> HIDE DEF k, x
<1>6. QED
  BY <1>1, <1>3, <1>4, <1>5, InsertKept

LEMMA CreateEntityKept ==
  ASSUME DeletionInv, CreateEntity
  PROVE  Kept
<1> DEFINE k == Head(todo).at
<1>1. Running("create") /\ "create" \in Quiet
  BY DEF CreateEntity, Quiet
<1>2. CASE k \in DOMAIN work
  <2>1. Return(<<>>) /\ UNCHANGED work
    BY <1>2 DEF CreateEntity
  <2>2. IsSeq(<<>>) /\ Ordered(<<>>) /\ Calls(<<>>) = {}
    BY SmallStacks
  <2>3. QED
    BY <1>1, <2>1, <2>2, QuietKept
<1>3. CASE k \notin DOMAIN work
  <2>1. work' = Insert(work, k, NewEntity(k, NotManaged)) /\ Return(StartsOf(k))
    BY <1>3 DEF CreateEntity, StartsOf
  <2>2. k \in Keys
    BY <1>1, TopIs DEF CallShape
  <2>3. InstanceOK(k, NotManaged)
    BY DEF InstanceOK
  <2>4. Calls(Tail(todo)) = {}
    BY <1>1, QuietTop
  <2> HIDE DEF k
  <2>5. QED
    BY <1>1, <1>3, <2>1, <2>2, <2>3, <2>4, InsertKept
<1>4. QED
  BY <1>2, <1>3

LEMMA CancelChildKept ==
  ASSUME DeletionInv, CancelChild
  PROVE  Kept
<1> DEFINE x == Head(todo)
           R == Calls(Tail(todo))
           active == ActiveChild(x.at, x.region, x.state)
<1>1. /\ Running("cancel") /\ UNCHANGED work
      /\ \/ Return(<<>>)
         \/ \E k \in active : Return(CancelsOf(k, work[k].states) \o <<EndCall(k)>>)
  BY DEF CancelChild, CancelsOf
<1>2. /\ Apart(work, made, transactions, {x} \union R) /\ RowsOK(work) /\ CallsShaped(R, work)
      /\ x.op = "cancel" /\ \A y \in R : Above(x, y)
      /\ \A y \in R : y.op \in Descends \union {"complete"} => Len(y.at.path) \in Nat
  BY <1>1, TopIs
<1>3. CASE Return(<<>>)
  <2> HIDE DEF x, R
  <2>1. IsSeq(<<>>) /\ Ordered(<<>>) /\ Calls(<<>>) = {}
    BY SmallStacks
  <2>2. Apart(work, made, transactions, R)
    <3>1. \A y \in {x} \union R : y.op \in {"visit", "start"} => y \in R
      BY <1>2
    <3>2. QED
      BY <1>2, <3>1, OtherCalls
  <2>3. QED
    BY <1>1, <1>3, <2>1, <2>2, ReturnKept DEF R
<1>4. ASSUME NEW k \in active, Return(CancelsOf(k, work[k].states) \o <<EndCall(k)>>)
      PROVE  Kept
  <2> DEFINE s == CancelsOf(k, work[k].states) \o <<EndCall(k)>>
  <2>1. /\ IsCompound(x.at, x.region, x.state) /\ k = ChildKey(x.at, x.region, x.state)
        /\ k \in DOMAIN work /\ work[k].instance.status = "active"
    BY ActiveChildIs
  <2>2. x.at \in Keys
    BY <1>1, TopRow DEF Descends
  <2>3. k \in Keys /\ Len(x.at.path) \in Nat /\ Len(k.path) = Len(x.at.path) + 1
    BY <2>1, <2>2, ChildKeyIsKey
  <2>4. work[k].instance # NotManaged
    BY <2>1 DEF NotManaged
  <2>5. /\ IsSeq(s) /\ Ordered(s)
        /\ \A y \in Calls(s) : y = EndCall(k) \/ \E r \in Regs(k) : y = CancelCall(k, r, work[k].states[r])
    BY <2>3, CancelsAre
  <2> HIDE DEF s
  <2>6. \A y \in Calls(s) : y.op \in {"cancel", "end"} /\ y.at = k
    BY <2>5 DEF CancelCall, EndCall
  <2> HIDE DEF x, R, active
  <2>7. Apart(work, made, transactions, Calls(s) \union R)
    <3>1. CallsShaped(Calls(s), work)
      BY <2>1, <2>4, <2>6 DEF CallsShaped, CallShape, Descends
    <3>2. CallsShaped(Calls(s) \union R, work)
      BY <1>2, <3>1 DEF CallsShaped
    <3>3. \A y \in {x} \union R : y.op \in {"visit", "start"} => y \in Calls(s) \union R
      BY <1>2
    <3>4. QED
      BY <1>2, <3>2, <3>3, OtherCalls
  <2>8. \A y \in Calls(s), z \in R : Above(y, z)
    <3> SUFFICES ASSUME NEW y \in Calls(s), NEW z \in R PROVE Above(y, z)
      OBVIOUS
    <3>1. z.op \in Descends \union {"complete"} /\ Len(z.at.path) <= Len(x.at.path)
      BY <1>2, BelowCancel
    <3>2. Len(z.at.path) \in Nat
      BY <1>2, <3>1
    <3>3. Len(z.at.path) < Len(y.at.path) /\ Len(z.at.path) <= Len(y.at.path)
      BY <2>3, <2>6, <3>1, <3>2
    <3>4. QED
      BY <2>6, <3>1, <3>3 DEF Above, Descends
  <2>9. QED
    BY <1>1, <1>4, <2>5, <2>7, <2>8, ReturnKept DEF R, s
<1>5. QED
  BY <1>1, <1>3, <1>4

LEMMA EndChildKept ==
  ASSUME DeletionInv, EndChild
  PROVE  Kept \/ Failing
<1> DEFINE x == Head(todo)
           R == Calls(Tail(todo))
           k == x.at
           e == work[k]
           e2 == [e EXCEPT !.version = @ + 1, !.instance.status = "cancelled",
                           !.stored = [version |-> e.version + 1, regions |-> Entries(k, e)]]
           v == work'
<1> SUFFICES ASSUME ~ Failing PROVE Kept
  OBVIOUS
<1>1. Running("end") /\ Return(<<>>) /\ v = [work EXCEPT ![k] = e2]
  BY DEF EndChild, Failing
<1>2. /\ Apart(work, made, transactions, {x} \union R) /\ x.op = "end" /\ StackOK
      /\ k \in DOMAIN work /\ Shape(k, e) /\ e.instance # NotManaged
      /\ DOMAIN e.states = Regs(k)
  BY <1>1, TopIs, TopRow, RowIs DEF CallShape, Descends
<1>3. /\ Shape(k, e2) /\ e2.states = e.states /\ e2.version = e.version + 1
      /\ \A r \in DOMAIN e.states : Entry(e2, r) = Entry(e, r)
      /\ e2.instance.status = "cancelled" /\ e2.instance.link = e.instance.link
  <2>1. Shape(k, e) /\ e.instance # NotManaged
    BY <1>2
  <2> HIDE DEF k, e
  <2>2. QED
    BY <2>1, EndedRow
<1> HIDE DEF e2, v
<1>4. v[k] = e2 /\ DOMAIN v = DOMAIN work /\ \A j \in DOMAIN work : j # k => v[j] = work[j]
  BY <1>1, <1>2
<1>5. Apart(v, made, transactions, R)
  <2>1. /\ DOMAIN v = DOMAIN work /\ \A j \in DOMAIN work : j # x.at => v[j] = work[j]
        /\ Shape(x.at, v[x.at]) /\ v[x.at].instance.status = "cancelled"
        /\ v[x.at].instance.link = work[x.at].instance.link
        /\ \A r \in Regs(x.at) : Entry(v[x.at], r) = Entry(work[x.at], r)
    BY <1>2, <1>3, <1>4
  <2> HIDE DEF x, R
  <2>2. QED
    BY <1>2, <2>1, ApartEnded
<1>6. IsSeq(<<>>) /\ Ordered(<<>>) /\ Calls(<<>>) = {}
  BY SmallStacks
<1> HIDE DEF x, R
<1>7. /\ IsSeq(todo') /\ Ordered(todo') /\ Calls(todo') = R
      /\ UNCHANGED <<entities, history, phase, request, transactions>>
  BY <1>1, <1>2, <1>6, StackReturns DEF R
<1>8. QED
  BY <1>4, <1>5, <1>7 DEF Kept, v

\* A write, when nothing that starts a child is pending.
LEMMA WriteKept ==
  ASSUME DeletionInv, NEW k \in DOMAIN work, NEW spec, SpecOK(work[k], spec), NEW answer,
         \A y \in Pending : y.op \notin {"visit", "start"},
         WriteEntity(k, spec, answer)
  PROVE  Kept \/ Failing
<1> DEFINE new == WrittenRows(k, spec, work[k].version + 1)
           v == work'
           ended == Completion(work[k], spec.states) # {}
           first == Len(rows) + 1
           D == Calls(todo')
<1> SUFFICES ASSUME ~ Failing PROVE Kept
  OBVIOUS
<1>1. /\ Apart(work, made, transactions, Pending) /\ RowsOK(work)
      /\ Shape(k, work[k]) /\ k \in Keys /\ DOMAIN work[k].states = Regs(k)
  BY DEF DeletionInv, Apart, RowsOK, Shape
<1>2. Live(work[k]) /\ \A i \in DOMAIN new : ~ Taken(k, new[i].key)
  BY DEF WriteEntity, Failing
<1>3. /\ v = [work EXCEPT ![k] = RowAfter(k, work[k], spec, first)]
      /\ todo' = CallsOfWrite(k, Entries(k, work[k]), StoredAfter(k, work[k], spec, first).regions,
                              ended, CHOOSE t \in Completion(work[k], spec.states) : TRUE)
      /\ UNCHANGED <<entities, history, phase, request, transactions>>
  BY <1>2, WriteEntityIs
<1>4. /\ Effect(work, k, spec, v, ended)
      /\ \A r \in Regs(k) : Entry(v[k], r) = StoredAfter(k, work[k], spec, first).regions[r]
  <2> DEFINE u == [work EXCEPT ![k] = RowAfter(k, work[k], spec, first)]
  <2> HIDE DEF first
  <2>1. /\ Effect(work, k, spec, u, ended)
        /\ \A r \in DOMAIN work[k].states : Entry(u[k], r) = StoredAfter(k, work[k], spec, first).regions[r]
    BY <1>1, <1>2, WriteEffect
  <2>2. u = v
    BY <1>3 DEF first
  <2> HIDE DEF u, v, ended
  <2>3. QED
    BY <1>1, <2>1, <2>2
<1>5. \A r \in Regs(k) : Entries(k, work[k])[r] = Entry(work[k], r)
  BY <1>1, EntriesAreStored
<1>6. ended \in BOOLEAN
  OBVIOUS
<1> HIDE DEF new, v, ended, first
<1>7. /\ Visits(work, k, v, ended, D)
      /\ \A y \in D : y.op \in {"visit", "complete"}
      /\ IsSeq(todo') /\ Ordered(todo')
  <2> DEFINE old == Entries(k, work[k])
             regions == StoredAfter(k, work[k], spec, first).regions
             target == CHOOSE t \in Completion(work[k], spec.states) : TRUE
  <2>1. \A r \in Regs(k) : old[r] = Entry(work[k], r) /\ regions[r] = Entry(v[k], r)
    BY <1>4, <1>5
  <2>2. todo' = CallsOfWrite(k, old, regions, ended, target)
    BY <1>3
  <2> HIDE DEF old, regions, target
  <2>3. /\ Visits(work, k, v, ended, Calls(CallsOfWrite(k, old, regions, ended, target)))
        /\ \A y \in Calls(CallsOfWrite(k, old, regions, ended, target)) : y.op \in {"visit", "complete"}
        /\ IsSeq(CallsOfWrite(k, old, regions, ended, target))
        /\ Ordered(CallsOfWrite(k, old, regions, ended, target))
    BY <1>1, <1>6, <2>1, WriteVisits
  <2>4. QED
    BY <2>2, <2>3
<1> HIDE DEF D
<1>8. Apart(v, made, transactions, D)
  BY <1>1, <1>4, <1>6, <1>7, ApartWritten
<1>9. DOMAIN v = DOMAIN work
  BY <1>4 DEF Effect
<1>10. QED
  BY <1>3, <1>7, <1>8, <1>9 DEF Kept, v, D

LEMMA ApplyEventKept ==
  ASSUME DeletionInv, ApplyEvent
  PROVE  Kept \/ Failing
<1> DEFINE k == Head(todo).at
           e == work[k]
           m == Defs[k.machine]
           ev == request.event
<1>1. Running("event") /\ "event" \in Quiet
  BY DEF ApplyEvent, Quiet, Asks
<1>2. PICK t \in MatchOf(k, ev) : \E spec \in EventWrites(e, ev, t, m) : WriteEntity(k, spec, "applied")
  BY DEF ApplyEvent
<1>3. PICK spec \in EventWrites(e, ev, t, m) : WriteEntity(k, spec, "applied")
  BY <1>2
<1>4. k \in DOMAIN work /\ \A y \in Pending : y.op \notin {"visit", "start"}
  BY <1>1, QuietTop DEF Asks
<1>5. IsSeq(m.joins)
  <2>1. k \in Keys
    BY <1>1, <1>4, TopIs DEF RowsOK
  <2>2. QED
    BY <2>1, DefinitionIs DEF Keys
<1>6. t.region \in DOMAIN e.states
  BY <1>2 DEF MatchOf, Evaluate, Matching
<1> HIDE DEF m
<1>7. SpecOK(e, spec)
  BY <1>3, <1>5, <1>6, EventSpecs
<1>8. k \in DOMAIN work /\ SpecOK(work[k], spec)
  BY <1>4, <1>7
<1> HIDE DEF k, e, ev
<1>9. QED
  BY <1>3, <1>4, <1>8, WriteKept

LEMMA FireTimeoutKept ==
  ASSUME DeletionInv, FireTimeout
  PROVE  Kept \/ Failing
<1> DEFINE k == Head(todo).at
           t == Head(todo).timer
           e == work[k]
           m == Defs[k.machine]
<1>1. Running("timer") /\ t.region \in DOMAIN e.states /\ "timer" \in Quiet
  BY DEF FireTimeout, TimerPending, Quiet
<1>2. PICK spec \in TimeoutWrites(e, t, m) : WriteEntity(k, spec, reply)
  BY DEF FireTimeout
<1>3. k \in DOMAIN work /\ \A y \in Pending : y.op \notin {"visit", "start"}
  BY <1>1, QuietTop
<1>4. IsSeq(m.joins)
  <2>1. k \in Keys
    BY <1>1, <1>3, TopIs DEF RowsOK
  <2>2. QED
    BY <2>1, DefinitionIs DEF Keys
<1> HIDE DEF m, t
<1>5. SpecOK(e, spec)
  BY <1>1, <1>2, <1>4, TimeoutSpecs
<1>6. SpecOK(work[k], spec)
  BY <1>5
<1> HIDE DEF k, e
<1>7. QED
  BY <1>2, <1>3, <1>6, WriteKept

\* A completion whose owner is gone, or has moved on, fails.
LEMMA CompleteParentKept ==
  ASSUME DeletionInv, CompleteParent
  PROVE  Kept \/ Failing
<1> DEFINE x == Head(todo)
           link == work[x.at].instance.link
           k == link.owner
           e == work[k]
           m == Defs[k.machine]
<1> SUFFICES ASSUME ~ Failing PROVE Kept
  OBVIOUS
<1>1. Running("complete")
  BY DEF CompleteParent
<1>2. k \in DOMAIN work /\ \E spec \in ParentWrites(e, link, x.target, m) : WriteEntity(k, spec, reply)
  BY DEF CompleteParent, Failing
<1>3. PICK spec \in ParentWrites(e, link, x.target, m) : WriteEntity(k, spec, reply)
  BY <1>2
<1>4. \A y \in Pending : y.op \notin {"visit", "start"}
  <2> DEFINE R == Calls(Tail(todo))
  <2>1. Pending = {x} \union R /\ x.op = "complete" /\ \A y \in R : Above(x, y)
    BY <1>1, TopIs
  <2> HIDE DEF x, R
  <2>2. QED
    BY <2>1 DEF Above, Asks, Descends
<1>5. /\ RowsOK(work) /\ x.at \in DOMAIN work /\ work[x.at].instance # NotManaged
  BY <1>1, TopIs DEF CallShape
<1>6. link.region \in Regs(k)
  BY <1>5, LinkIs
<1>7. DOMAIN e.states = Regs(k) /\ IsSeq(m.joins)
  <2>1. k \in Keys /\ DOMAIN work[k].states = Regs(k)
    BY <1>2, <1>5, RowIs
  <2>2. QED
    BY <2>1, DefinitionIs DEF Keys
<1> HIDE DEF m, link
<1>8. SpecOK(e, spec)
  BY <1>3, <1>6, <1>7, ParentSpecs
<1>9. SpecOK(work[k], spec)
  BY <1>8
<1> HIDE DEF k, e, x
<1>10. QED
  BY <1>2, <1>3, <1>4, <1>9, WriteKept

\* So a call fails or keeps orphans apart.
LEMMA DeletionCall ==
  ASSUME DeletionInv, Call
  PROVE  phase = "tx" /\ (Kept \/ Failing)
<1>1. phase = "tx"
  BY DEF Call, Running, AnswerDuplicate, AnswerIdentityConflict, AnswerNotActive, ApplyEvent,
         NoTransition, Forward, ResolveTarget, SkipTimeout, FireTimeout, CreateEntity, Visit,
         SkipStart, StartChild, StartChildWithin, CancelChild, EndChild, CompleteParent
<1>2. AnswerIdentityConflict \/ AnswerNotActive => Failing
  BY DEF AnswerIdentityConflict, AnswerNotActive, Failing
<1>3. AnswerDuplicate \/ NoTransition \/ Forward \/ SkipTimeout \/ CreateEntity => Kept
  BY AnswerDuplicateKept, NoTransitionKept, ForwardKept, SkipTimeoutKept, CreateEntityKept
<1>4. Visit \/ SkipStart \/ CancelChild => Kept
  BY VisitKept, SkipStartKept, CancelChildKept
<1>5. ResolveTarget \/ StartChild \/ EndChild => Kept \/ Failing
  BY ResolveTargetKept, StartChildKept, EndChildKept
<1>6. ApplyEvent \/ FireTimeout \/ CompleteParent => Kept \/ Failing
  BY ApplyEventKept, FireTimeoutKept, CompleteParentKept
<1>7. QED
  BY <1>1, <1>2, <1>3, <1>4, <1>5, <1>6 DEF Call

\* The transaction that made a row stays what it was, and is written down.
LEMMA MadeIs ==
  ASSUME DeletionInv, Proceed, transactions' \in Nat, transactions <= transactions'
  PROVE  /\ DOMAIN made' = DOMAIN entities'
         /\ \A k \in DOMAIN entities' : made'[k] = Born(made, transactions, k)
         /\ Births(made', transactions')
<1>1. /\ DOMAIN made' = DOMAIN entities'
      /\ \A k \in DOMAIN entities' : made'[k] = Born(made, transactions, k)
  BY DEF Proceed, Born
<1>2. Births(made, transactions) /\ transactions \in Nat
  BY DEF DeletionInv, Births
<1>3. ASSUME NEW k \in DOMAIN made' PROVE made'[k] \in 0..transactions'
  <2>1. made'[k] = Born(made, transactions, k)
    BY <1>1
  <2>2. Born(made, transactions, k) \in 0..transactions
    BY <1>2, BornBefore
  <2>3. QED
    BY <1>2, <2>1, <2>2
<1>4. QED
  BY <1>1, <1>3 DEF Births

LEMMA DeletionStarts ==
  ASSUME DeletionInit
  PROVE  DeletionInv
<1>1. /\ entities = <<>> /\ work = <<>> /\ made = <<>> /\ rows = <<>> /\ history = <<>>
      /\ todo = <<>> /\ phase = "idle" /\ transactions = 0 /\ request.target = <<>>
  BY DEF DeletionInit, Init
<1>2. DOMAIN <<>> = {}
  OBVIOUS
<1>3. IsSeq(<<>>) /\ Ordered(<<>>) /\ Calls(<<>>) = {}
  BY SmallStacks
<1>4. Apart(<<>>, <<>>, 0, {})
  BY <1>2 DEF Apart, RowsOK, CallsShaped
<1>5. Apart(work, made, transactions, Pending) /\ Apart(entities, made, transactions, {})
  BY <1>1, <1>3, <1>4 DEF Pending
<1>6. Births(made, transactions)
  BY <1>1, <1>2 DEF Births
<1>7. StackOK /\ IsSeq(request.target)
  BY <1>1, <1>3 DEF StackOK
<1>8. PhaseInv
  BY <1>1, BoundsAssumption DEF PhaseInv
<1>9. QED
  BY <1>1, <1>5, <1>6, <1>7, <1>8 DEF DeletionInv

LEMMA DeletionBegins ==
  ASSUME DeletionInv, Proceed, BeginTransaction
  PROVE  DeletionInv'
<1>1. PICK call : Begins(call)
  BY BeginIs DEF DeletionInv
<1>2. /\ CallOK(call, work, {call}) /\ call.op \in Quiet
      /\ phase = "idle" /\ transactions < MaxTransactions
      /\ transactions' = transactions + 1 /\ phase' = "tx" /\ todo' = <<call>>
      /\ entities' = entities /\ history' = history /\ work' = work /\ rows' = rows
      /\ IsSeq(request'.target)
  BY <1>1 DEF Begins
<1>3. /\ work = entities /\ transactions \in 0..MaxTransactions /\ MaxTransactions \in Nat
      /\ Apart(entities, made, transactions, {}) /\ DOMAIN made = DOMAIN entities
  BY <1>2, BoundsAssumption DEF DeletionInv, PhaseInv
<1>4. /\ DOMAIN made' = DOMAIN entities'
      /\ \A k \in DOMAIN entities' : made'[k] = Born(made, transactions, k)
      /\ Births(made', transactions')
  BY <1>2, <1>3, MadeIs
<1>5. Apart(entities, made', transactions', {})
  <2>1. \A k \in DOMAIN entities : Born(made', transactions', k) = Born(made, transactions, k)
    BY <1>2, <1>4 DEF Born
  <2>2. QED
    BY <1>3, <2>1, SameBirths
<1>6. Apart(entities, made', transactions', {call})
  <2>1. CallsShaped({call}, entities)
    <3>1. CallShape(call, work)
      BY <1>2 DEF CallOK, CallShape, Quiet, Asks
    <3>2. QED
      BY <1>3, <3>1 DEF CallsShaped
  <2>2. QED
    BY <1>5, <2>1, OtherCalls
<1>7. IsSeq(<<call>>) /\ Ordered(<<call>>) /\ Calls(<<call>>) = {call}
  BY SmallStacks
<1>8. Apart(work', made', transactions', Calls(todo')) /\ Apart(entities', made', transactions', {})
  BY <1>2, <1>3, <1>5, <1>6, <1>7
<1>9. StackOK' /\ DOMAIN entities' \subseteq DOMAIN work'
  BY <1>2, <1>3, <1>7 DEF StackOK
<1>10. PhaseInv'
  BY <1>2, <1>3 DEF PhaseInv
<1>11. QED
  BY <1>2, <1>4, <1>8, <1>9, <1>10 DEF DeletionInv, Pending

LEMMA DeletionKept ==
  ASSUME DeletionInv, Proceed, phase = "tx", Kept
  PROVE  DeletionInv'
<1>1. /\ entities' = entities /\ phase' = phase /\ request' = request /\ transactions' = transactions
      /\ Apart(work', made, transactions, Calls(todo')) /\ IsSeq(todo') /\ Ordered(todo')
      /\ DOMAIN work \subseteq DOMAIN work'
  BY DEF Kept
<1>2. /\ Apart(entities, made, transactions, {}) /\ DOMAIN made = DOMAIN entities
      /\ DOMAIN entities \subseteq DOMAIN work /\ transactions \in Nat /\ PhaseInv
      /\ IsSeq(request.target)
  BY DEF DeletionInv, Births
<1>3. /\ DOMAIN made' = DOMAIN entities'
      /\ \A k \in DOMAIN entities' : made'[k] = Born(made, transactions, k)
      /\ Births(made', transactions')
  BY <1>1, <1>2, MadeIs
<1>4. \A k : Born(made', transactions', k) = Born(made, transactions, k)
  BY <1>1, <1>2, <1>3 DEF Born
<1>5. Apart(entities', made', transactions', {})
  BY <1>1, <1>2, <1>4, SameBirths
<1>6. Apart(work', made', transactions', Calls(todo'))
  <2> DEFINE v == work'
             D == Calls(todo')
  <2>1. Apart(v, made, transactions, D)
    BY <1>1
  <2> HIDE DEF v, D
  <2>2. Apart(v, made', transactions', D)
    BY <1>4, <2>1, SameBirths
  <2>3. QED
    BY <2>2 DEF v, D
<1>7. StackOK' /\ DOMAIN entities' \subseteq DOMAIN work' /\ IsSeq(request'.target)
  BY <1>1, <1>2 DEF StackOK
<1>8. PhaseInv'
  BY <1>1, <1>2 DEF PhaseInv
<1>9. QED
  BY <1>3, <1>5, <1>6, <1>7, <1>8 DEF DeletionInv, Pending

LEMMA DeletionFails ==
  ASSUME DeletionInv, Proceed, Failing
  PROVE  DeletionInv'
<1>1. /\ phase' = "idle" /\ work' = entities /\ rows' = history /\ todo' = <<>> /\ request' = request
      /\ entities' = entities /\ history' = history /\ transactions' = transactions
  BY DEF Failing, Fail, committed
<1>2. /\ Apart(entities, made, transactions, {}) /\ DOMAIN made = DOMAIN entities
      /\ transactions \in Nat /\ PhaseInv /\ IsSeq(request.target)
  BY DEF DeletionInv, Births
<1>3. /\ DOMAIN made' = DOMAIN entities'
      /\ \A k \in DOMAIN entities' : made'[k] = Born(made, transactions, k)
      /\ Births(made', transactions')
  BY <1>1, <1>2, MadeIs
<1>4. Apart(entities, made', transactions', {})
  <2>1. \A k \in DOMAIN entities : Born(made', transactions', k) = Born(made, transactions, k)
    BY <1>1, <1>3 DEF Born
  <2>2. QED
    BY <1>2, <2>1, SameBirths
<1>5. IsSeq(<<>>) /\ Ordered(<<>>) /\ Calls(<<>>) = {}
  BY SmallStacks
<1>6. Apart(work', made', transactions', Calls(todo')) /\ Apart(entities', made', transactions', {})
  BY <1>1, <1>4, <1>5
<1>7. StackOK' /\ DOMAIN entities' \subseteq DOMAIN work' /\ IsSeq(request'.target)
  BY <1>1, <1>2, <1>5 DEF StackOK
<1>8. PhaseInv'
  BY <1>1, <1>2 DEF PhaseInv
<1>9. QED
  BY <1>3, <1>6, <1>7, <1>8 DEF DeletionInv, Pending

LEMMA DeletionCommits ==
  ASSUME DeletionInv, Proceed, Commit
  PROVE  DeletionInv'
<1>1. /\ todo = <<>> /\ phase' = "idle" /\ entities' = work /\ history' = rows /\ work' = work
      /\ rows' = rows /\ todo' = todo /\ request' = request /\ transactions' = transactions
  BY DEF Commit
<1>2. /\ Apart(work, made, transactions, Pending) /\ StackOK
      /\ transactions \in Nat /\ PhaseInv /\ IsSeq(request.target)
  BY DEF DeletionInv, Births
<1>3. /\ DOMAIN made' = DOMAIN entities'
      /\ \A k \in DOMAIN entities' : made'[k] = Born(made, transactions, k)
      /\ Births(made', transactions')
  BY <1>1, <1>2, MadeIs
<1>4. Calls(<<>>) = {}
  BY SmallStacks
<1>5. Apart(work, made', transactions', {})
  <2>1. \A k \in DOMAIN work : Born(made', transactions', k) = Born(made, transactions, k)
    BY <1>1, <1>3 DEF Born
  <2>2. Apart(work, made, transactions, {})
    BY <1>1, <1>2, <1>4 DEF Pending
  <2>3. QED
    BY <2>1, <2>2, SameBirths
<1>6. Apart(work', made', transactions', Calls(todo')) /\ Apart(entities', made', transactions', {})
  BY <1>1, <1>4, <1>5
<1>7. StackOK' /\ DOMAIN entities' \subseteq DOMAIN work' /\ IsSeq(request'.target)
  BY <1>1, <1>2 DEF StackOK
<1>8. PhaseInv'
  BY <1>1, <1>2 DEF PhaseInv
<1>9. QED
  BY <1>3, <1>6, <1>7, <1>8 DEF DeletionInv, Pending

\* A row goes with its birth; the same id may be born again, later.
LEMMA DeletionDeletes ==
  ASSUME DeletionInv, NEW k, DeleteEntity(k)
  PROVE  DeletionInv'
<1>1. /\ phase = "idle" /\ entities' = Without(entities, k) /\ work' = Without(entities, k)
      /\ made' = Without(made, k)
      /\ UNCHANGED <<history, rows, todo, phase, request, transactions>>
  BY DEF DeleteEntity
<1>2. /\ Apart(entities, made, transactions, {}) /\ DOMAIN made = DOMAIN entities /\ StackOK
      /\ Births(made, transactions) /\ PhaseInv /\ IsSeq(request.target)
      /\ todo = <<>> /\ rows = history
  BY <1>1 DEF DeletionInv, PhaseInv
<1>3. Calls(<<>>) = {}
  BY SmallStacks
<1>4. Apart(work', made', transactions', Calls(todo')) /\ Apart(entities', made', transactions', {})
  BY <1>1, <1>2, <1>3, ApartWithout
<1>5. Births(made', transactions') /\ DOMAIN made' = DOMAIN entities'
  BY <1>1, <1>2 DEF Births, Without
<1>6. StackOK' /\ PhaseInv' /\ IsSeq(request'.target) /\ DOMAIN entities' \subseteq DOMAIN work'
  BY <1>1, <1>2 DEF StackOK, PhaseInv
<1>7. QED
  BY <1>4, <1>5, <1>6 DEF DeletionInv, Pending

LEMMA DeletionForgets ==
  ASSUME DeletionInv, NEW k, DeleteHistory(k)
  PROVE  DeletionInv'
<1>1. phase = "idle" /\ rows' = history'
      /\ UNCHANGED <<entities, work, todo, phase, request, transactions, made>>
  BY DEF DeleteHistory
<1>2. PhaseInv'
  BY <1>1 DEF DeletionInv, PhaseInv
<1>3. QED
  BY <1>1, <1>2 DEF DeletionInv, StackOK, Pending

\* Whatever is deleted between transactions, and whenever, every row and call is
\* sound, and a child older than its owner is in nobody's way but its own owner's.
THEOREM DeletionInvariant == DeletionSpec => []DeletionInv
<1>1. DeletionInit => DeletionInv
  BY DeletionStarts
<1>2. DeletionInv /\ [DeletionNext]_deletionVars => DeletionInv'
  <2> SUFFICES ASSUME DeletionInv, [DeletionNext]_deletionVars PROVE DeletionInv'
    OBVIOUS
  <2>1. CASE Proceed
    <3>1. CASE BeginTransaction
      BY <2>1, <3>1, DeletionBegins
    <3>2. CASE Call
      <4>1. phase = "tx" /\ (Kept \/ Failing)
        BY <3>2, DeletionCall
      <4>2. QED
        BY <2>1, <4>1, DeletionKept, DeletionFails
    <3>3. CASE Commit
      BY <2>1, <3>3, DeletionCommits
    <3>4. CASE Crash
      <4>1. Failing
        BY <3>4 DEF Crash, Failing
      <4>2. QED
        BY <2>1, <4>1, DeletionFails
    <3>5. QED
      BY <2>1, <3>1, <3>2, <3>3, <3>4 DEF Proceed, Next
  <2>2. ASSUME NEW k \in Deletable, DeleteEntity(k) PROVE DeletionInv'
    BY <2>2, DeletionDeletes
  <2>3. ASSUME NEW k \in purging, DeleteHistory(k) PROVE DeletionInv'
    BY <2>3, DeletionForgets
  <2>4. CASE UNCHANGED deletionVars
    BY <2>4 DEF deletionVars, vars, DeletionInv, StackOK, PhaseInv, Pending
  <2>5. QED
    BY <2>1, <2>2, <2>3, <2>4 DEF DeletionNext
<1>3. QED
  BY <1>1, <1>2, PTL DEF DeletionSpec

\* Deleting owners and children leaves every variable its type: the shapes that
\* ManagedTypeOK establishes do not rest on the tree being coherent.
THEOREM DeletionTypeOK == DeletionSpec => []TypeOK
<1>1. ASSUME DeletionInv PROVE TypeOK
  BY <1>1, RowsAreTyped DEF DeletionInv, Apart
<1>2. QED
  BY <1>1, DeletionInvariant, PTL

\* An id that is deleted and created again does not inherit the children of its
\* earlier life: an active child that stands in its live owner's present entry was
\* made with that owner or after it.  start_child refuses a child that exists, so
\* the owner's new life cannot come to be in the state of a leftover child.
THEOREM OrphansAreNeverAdopted == DeletionSpec => []OrphansAreNotAdopted
<1>1. ASSUME DeletionInv PROVE OrphansAreNotAdopted
  <2>1. /\ Apart(entities, made, transactions, {}) /\ RowsOK(entities)
        /\ Births(made, transactions) /\ DOMAIN made = DOMAIN entities
    BY <1>1 DEF DeletionInv, Apart
  <2> SUFFICES ASSUME NEW k \in Instances, LET link == entities[k].instance.link
                                           IN /\ link.owner \in DOMAIN entities
                                              /\ Live(entities[link.owner])
                                              /\ EntryOf(link.owner, link.region).state = link.state
               PROVE  made[k] >= made[entities[k].instance.link.owner]
    BY DEF OrphansAreNotAdopted
  <2> DEFINE link == entities[k].instance.link
             o == link.owner
  <2>2. k \in DOMAIN entities /\ entities[k].instance # NotManaged
    BY DEF Instances
  <2>3. link.region \in Regs(o)
    BY <2>1, <2>2, LinkIs
  <2>4. Entry(entities[o], link.region).state = link.state
    <3>1. Shape(o, entities[o]) /\ DOMAIN entities[o].states = Regs(o)
      BY <2>1, RowIs
    <3>2. EntryOf(o, link.region) = Entry(entities[o], link.region)
      BY <2>3, <3>1, EntriesAreStored DEF EntryOf
    <3>3. QED
      BY <3>2
  <2>5. ~ (Born(made, transactions, k) < Born(made, transactions, o))
    <3>1. OrphanOK(entities, made, transactions, {}, k)
      BY <2>1, <2>2 DEF Apart
    <3>2. ~ Starting({}, o, link.region)
      BY DEF Starting
    <3>3. QED
      BY <2>2, <2>4, <3>1, <3>2 DEF OrphanOK
  <2>6. /\ Born(made, transactions, k) = made[k] /\ Born(made, transactions, o) = made[o]
        /\ made[k] \in 0..transactions /\ made[o] \in 0..transactions /\ transactions \in Nat
    BY <2>1, <2>2 DEF Born, Births
  <2> HIDE DEF o, link
  <2>7. QED
    BY <2>5, <2>6 DEF o, link
<1>2. QED
  BY <1>1, DeletionInvariant, PTL
=============================================================================
