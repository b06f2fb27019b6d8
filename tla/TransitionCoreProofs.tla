------------------------ MODULE TransitionCoreProofs ------------------------
(***************************************************************************)
(* Theorems about TransitionCore for every machine, every set of workers   *)
(* and every bound: type correctness, and that no writer ever meets the    *)
(* version check or the unique index (NoWriterConflict); what it leaves    *)
(* behind: rows of the history and the row of the entity move together, a  *)
(* batch of actions leaves at most once, the answers clients got stay      *)
(* true; it implements AtomicEntity; and its region instances are an index *)
(* of the history, numbered by the version that entered them, on which     *)
(* timers fire when they are due.                                          *)
(***************************************************************************)
EXTENDS TransitionCoreAtomic, RegionEngineProofs

-----------------------------------------------------------------------------
(* Region instances.                                                       *)

\* A row stays well-formed as the clock advances.
LEMMA EntityAges ==
  ASSUME NEW e, NEW now \in Nat, NEW later \in Nat, now <= later, IsEntity(e, now)
  PROVE  IsEntity(e, later)
BY DEF IsEntity

\* A new row is well-formed.
LEMMA NewEntityIsEntity ==
  ASSUME clock \in Nat
  PROVE  IsEntity(NewEntity(clock), clock)
<1>1. ASSUME NEW r \in Regions
      PROVE  LET entry == EffectiveEntries(Machine, NewEntity(clock))[r]
             IN /\ entry.state = NewEntity(clock).states[r]
                /\ entry.seq = 1
                /\ entry.entered_at = clock
  BY DEF EffectiveEntries, NewEntity, InitialEntries, Regions
<1>2. QED
  BY <1>1 DEF IsEntity, NewEntity, Regions

\* A write leaves a well-formed row, never takes a region back to an older
\* instance, and gives every region it enters an instance of its own version.
LEMMA WrittenEntity ==
  ASSUME NEW e, NEW now \in Nat, IsEntity(e, now),
         NEW states, DOMAIN states = Regions, NEW context, NEW entered
  PROVE  LET new == Written(e, states, context, entered, now)
         IN /\ IsEntity(new, now)
            /\ \A r \in Regions :
                 /\ EffectiveEntries(Machine, new)[r].seq >= EffectiveEntries(Machine, e)[r].seq
                 /\ LastFor(entered, r) # {} =>
                      EffectiveEntries(Machine, new)[r].seq = e.version + 1
<1> DEFINE new == Written(e, states, context, entered, now)
           old == EffectiveEntries(Machine, e)
           eff == EffectiveEntries(Machine, new)
<1>1. /\ e.version \in Nat \ {0}
      /\ e.created_at \in 0..now
      /\ \A r \in Regions : old[r].seq \in 1..e.version /\ old[r].entered_at \in 0..now
  BY DEF IsEntity
<1>2. /\ new.version = e.version + 1
      /\ new.states = states
      /\ new.created_at = e.created_at
      /\ new.updated_at = now
      /\ new.stored.regions = AdvanceEntries(old, states, entered, e.version + 1, now).regions
  BY DEF Written
<1>3. ASSUME NEW r \in Regions
      PROVE  LET stored == new.stored.regions[r]
             IN /\ stored.seq \in 1..new.version
                /\ stored.entered_at \in 0..now
                /\ stored.seq >= old[r].seq
                /\ LastFor(entered, r) # {} => stored.seq = new.version
  <2> HIDE DEF new, old
  <2>1. \A state, row : /\ NewEntry(state, e.version + 1, now, row).seq = e.version + 1
                        /\ NewEntry(state, e.version + 1, now, row).entered_at = now
    BY DEF NewEntry
  <2>2. CASE LastFor(entered, r) # {}
    <3>1. \E state, row : new.stored.regions[r] = NewEntry(state, e.version + 1, now, row)
      BY <1>2, <2>2 DEF AdvanceEntries
    <3>2. QED
      BY <1>1, <1>2, <2>1, <3>1
  <2>3. CASE LastFor(entered, r) = {}
    <3>1. \/ new.stored.regions[r] = old[r]
          \/ \E state, row : new.stored.regions[r] = NewEntry(state, e.version + 1, now, row)
      BY <1>2, <2>3 DEF AdvanceEntries
    <3>2. QED
      BY <1>1, <1>2, <2>1, <2>3, <3>1
  <2>4. QED
    BY <2>2, <2>3
<1>4. ASSUME NEW r \in Regions
      PROVE  /\ eff[r].state = new.states[r]
             /\ eff[r].seq \in 1..new.version
             /\ eff[r].entered_at \in 0..now
             /\ eff[r].seq >= old[r].seq
             /\ LastFor(entered, r) # {} => eff[r].seq = new.version
  <2> HIDE DEF new, old
  <2>1. r \in DOMAIN new.states
    BY <1>2
  <2>2. CASE eff[r] = new.stored.regions[r] /\ new.stored.regions[r].state = new.states[r]
    BY <1>3, <2>2
  <2>3. CASE eff[r] = LegacyEntry(Machine, new, r)
    <3>1. /\ eff[r].state = new.states[r]
          /\ eff[r].seq = new.version
          /\ eff[r].entered_at \in {new.created_at, new.updated_at}
      BY <2>3, LegacyInstance
    <3>2. QED
      BY <1>1, <1>2, <3>1
  <2>4. QED
    BY <2>1, <2>2, <2>3, EffectiveIsStoredOrLegacy
<1>5. IsEntity(new, now)
  <2> HIDE DEF new
  <2>1. QED
    BY <1>1, <1>2, <1>4 DEF IsEntity
<1>6. QED
  BY <1>2, <1>4, <1>5

\* The rows of one write: its main row, then one row for each fired join.
LEMMA RowsAre ==
  ASSUME NEW spec, IsSeq(spec.fired), NEW version
  PROVE  LET rows == Rows(spec, version, clock)
         IN /\ IsSeq(rows)
            /\ Len(rows) = 1 + Len(spec.fired)
            /\ rows[1] = [type |-> spec.type, region |-> spec.region, from |-> spec.from, to |-> spec.to,
                          key |-> spec.key, params |-> spec.params, ts |-> spec.ts, at |-> clock]
            /\ \A k \in 1..Len(spec.fired) :
                 rows[1 + k] = [type |-> "$join", region |-> spec.fired[k].region,
                                from |-> spec.fired[k].from, to |-> spec.fired[k].to,
                                key |-> JoinIdentity(spec.fired[k].region, version, k - 1),
                                params |-> <<>>, ts |-> spec.ts, at |-> clock]
<1> DEFINE main == [type |-> spec.type, region |-> spec.region, from |-> spec.from, to |-> spec.to,
                    key |-> spec.key, params |-> spec.params, ts |-> spec.ts, at |-> clock]
           join(k) == [type |-> "$join", region |-> spec.fired[k].region, from |-> spec.fired[k].from,
                       to |-> spec.fired[k].to, key |-> JoinIdentity(spec.fired[k].region, version, k - 1),
                       params |-> <<>>, ts |-> spec.ts, at |-> clock]
           joins == [k \in 1..Len(spec.fired) |-> join(k)]
<1>1. Len(spec.fired) \in Nat /\ DOMAIN spec.fired = 1..Len(spec.fired)
  BY SeqDomain
<1>2. Rows(spec, version, clock) = <<main>> \o joins
  BY <1>1 DEF Rows
<1>3. \A k \in 1..Len(spec.fired) : joins[k] = join(k)
  OBVIOUS
<1> HIDE DEF main, join
<1>4. IsSeq(joins) /\ Len(joins) = Len(spec.fired)
  <2>1. joins \in [1..Len(spec.fired) -> {joins[k] : k \in 1..Len(spec.fired)}]
    OBVIOUS
  <2> HIDE DEF joins
  <2>2. QED
    BY <1>1, <2>1, FunctionIsSeq
<1> HIDE DEF joins
<1>5. /\ IsSeq(<<main>> \o joins)
      /\ Len(<<main>> \o joins) = 1 + Len(joins)
      /\ (<<main>> \o joins)[1] = main
      /\ \A k \in 1..Len(joins) : (<<main>> \o joins)[1 + k] = joins[k]
  BY <1>4, PrependIsSeq
<1>6. QED
  BY <1>2, <1>3, <1>4, <1>5 DEF main, join

\* What tells its rows apart.
LEMMA RowsOfWrite ==
  ASSUME NEW spec, IsSeq(spec.fired), NEW version
  PROVE  LET rows == Rows(spec, version, clock)
         IN /\ IsSeq(rows)
            /\ Len(rows) = 1 + Len(spec.fired)
            /\ /\ rows[1].key = spec.key
               /\ rows[1].type = spec.type
               /\ rows[1].ts = spec.ts
               /\ rows[1].params = spec.params
               /\ rows[1].region = spec.region
            /\ \A k \in 1..Len(spec.fired) :
                 /\ rows[1 + k].key = JoinIdentity(spec.fired[k].region, version, k - 1)
                 /\ rows[1 + k].type = "$join"
<1> DEFINE rows == Rows(spec, version, clock)
           main == [type |-> spec.type, region |-> spec.region, from |-> spec.from, to |-> spec.to,
                    key |-> spec.key, params |-> spec.params, ts |-> spec.ts, at |-> clock]
           join(k) == [type |-> "$join", region |-> spec.fired[k].region, from |-> spec.fired[k].from,
                       to |-> spec.fired[k].to, key |-> JoinIdentity(spec.fired[k].region, version, k - 1),
                       params |-> <<>>, ts |-> spec.ts, at |-> clock]
<1>1. /\ IsSeq(rows) /\ Len(rows) = 1 + Len(spec.fired)
      /\ rows[1] = main
      /\ \A k \in 1..Len(spec.fired) : rows[1 + k] = join(k)
  BY RowsAre
<1> HIDE DEF rows
<1>2. /\ rows[1].key = spec.key /\ rows[1].type = spec.type /\ rows[1].ts = spec.ts
      /\ rows[1].params = spec.params /\ rows[1].region = spec.region
  BY <1>1
<1>3. \A k \in 1..Len(spec.fired) :
        /\ rows[1 + k].key = JoinIdentity(spec.fired[k].region, version, k - 1)
        /\ rows[1 + k].type = "$join"
  <2>1. SUFFICES ASSUME NEW k \in 1..Len(spec.fired)
                 PROVE  /\ rows[1 + k].key = JoinIdentity(spec.fired[k].region, version, k - 1)
                        /\ rows[1 + k].type = "$join"
    OBVIOUS
  <2>2. rows[1 + k] = join(k)
    BY <1>1
  <2>3. QED
    BY <2>2
<1>4. QED
  BY <1>1, <1>2, <1>3 DEF rows

-----------------------------------------------------------------------------
(* Type correctness.  Its inductive form adds what holds of the write      *)
(* lock: its holder is the one worker inside a transaction, the row that   *)
(* worker has read is still the committed one, and a request only reaches  *)
(* its transaction with a row in the table.                                *)

LockInv ==
  /\ \A w \in Workers : phase[w] = "tx" <=> lock = w
  /\ \A w \in Workers : phase[w] = "tx" => snap[w] = entity
  /\ \A p \in Requests : phase[p] \in {"begin", "tx"} => entity # NoEntity

TypeInv == TypeOK /\ LockInv

\* An initial state is well-typed and the lock is free.
LEMMA InitTypeInv == Init => TypeInv
<1> SUFFICES ASSUME Init PROVE TypeInv
  OBVIOUS
<1>1. PICK s \in Stores : /\ entity = s.entity
                          /\ history = s.history
                          /\ sent = [i \in DOMAIN s.history |-> 0]
  BY DEF Init
<1>2. entity = NoEntity \/ IsEntity(entity, clock)
  BY <1>1, StoresAssumption DEF Init
<1>3. IsSeq(history)
  BY <1>1, StoresAssumption
<1>4. sent \in Seq(Nat) /\ Len(sent) = Len(history)
  <2>1. Len(history) \in Nat /\ DOMAIN history = 1..Len(history)
    BY <1>3, SeqDomain
  <2>2. sent \in [1..Len(history) -> Nat]
    BY <1>1, <2>1
  <2>3. QED
    BY <2>1, <2>2
<1>5. clock \in 1..MaxClock
  BY BoundsAssumption DEF Init
<1>6. NewRequestEvent \in Events
  BY EventsAssumption DEF NewRequestEvent
<1>7. WorkersOK
  <2>1. Len(history) \in Nat /\ Len(Machine.transitions) \in Nat
    BY <1>3, SeqDomain, MachineAssumption
  <2>2. QED
    BY <1>6, <2>1, BoundsAssumption DEF Init, WorkersOK
<1>8. LockInv
  BY WorkersAssumption DEF Init, LockInv, Workers
<1>9. QED
  BY <1>2, <1>3, <1>4, <1>5, <1>7, <1>8 DEF TypeInv, TypeOK, StoreOK

\* The write of a worker inside its transaction.
LEMMA WriteKeepsTypeInv ==
  ASSUME TypeInv, NEW w \in Workers, phase[w] = "tx", entity # NoEntity,
         NEW spec, DOMAIN spec.states = Regions, IsSeq(spec.fired),
         NEW refused \in {"idle", "scan"}, WriteEntity(w, spec, refused)
  PROVE  TypeInv'
<1> DEFINE rows  == Rows(spec, snap[w].version + 1, clock)
           first == Len(history) + 1
<1>1. snap[w] = entity /\ IsEntity(entity, clock) /\ lock = w
  BY DEF TypeInv, LockInv, TypeOK, StoreOK
<1>2. /\ IsSeq(history) /\ Len(history) \in Nat
      /\ IsSeq(rows) /\ Len(rows) \in Nat /\ Len(rows) >= 1
      /\ DOMAIN rows = 1..Len(rows)
  <2>1. IsSeq(history) /\ Len(history) \in Nat
    BY SeqDomain DEF TypeInv, TypeOK, StoreOK
  <2>2. IsSeq(rows) /\ Len(rows) = 1 + Len(spec.fired)
    BY RowsOfWrite
  <2> HIDE DEF rows
  <2>3. QED
    BY <2>1, <2>2, SeqDomain
<1>3. /\ lock' = NoOne
      /\ snap' = [snap EXCEPT ![w] = NoEntity]
      /\ UNCHANGED <<clock, request, tick, cursor, submits, crashes>>
  BY DEF WriteEntity
<1>4. CASE Conflicts(snap[w], rows)
  <2>1. Answer(w, "conflict", refused) /\ UNCHANGED <<store, batch>>
    BY <1>4 DEF WriteEntity
  <2>2. QED
    BY <1>1, <1>3, <2>1, WorkersAssumption
       DEF TypeInv, TypeOK, StoreOK, WorkersOK, LockInv, Answer, store, Workers
<1>5. CASE ~ Conflicts(snap[w], rows)
  <2>1. /\ entity' = Written(entity, spec.states, spec.context, Entered(rows, first), clock)
        /\ history' = history \o rows
        /\ sent' = sent \o [k \in DOMAIN rows |-> 0]
        /\ batch' = [batch EXCEPT ![w] = first]
        /\ phase' = [phase EXCEPT ![w] = "dispatch"]
        /\ UNCHANGED reply
    BY <1>1, <1>5 DEF WriteEntity
  <2> HIDE DEF rows
  <2>2. IsEntity(entity', clock)
    <3>1. clock \in Nat
      BY BoundsAssumption DEF TypeInv, TypeOK, StoreOK
    <3>2. QED
      BY <1>1, <2>1, <3>1, WrittenEntity
  <2>3. IsSeq(history') /\ Len(history') = Len(history) + Len(rows)
    BY <1>2, <2>1, ConcatIsSeq
  <2>4. sent' \in Seq(Nat) /\ Len(sent') = Len(history')
    <3> DEFINE zeros == [k \in DOMAIN rows |-> 0]
    <3>1. zeros \in Seq(Nat) /\ Len(zeros) = Len(rows)
      BY <1>2
    <3>2. sent \in Seq(Nat) /\ Len(sent) = Len(history) /\ sent' = sent \o zeros
      BY <2>1 DEF TypeInv, TypeOK, StoreOK
    <3> HIDE DEF zeros
    <3>3. sent' \in Seq(Nat) /\ Len(sent') = Len(sent) + Len(zeros)
      BY <3>1, <3>2, ConcatInSeq
    <3>4. QED
      BY <2>3, <3>1, <3>2, <3>3
  <2>5. batch' \in [Workers -> 0..Len(history')]
    BY <1>2, <2>1, <2>3 DEF TypeInv, TypeOK, WorkersOK
  <2>6. StoreOK'
    BY <1>3, <2>2, <2>3, <2>4 DEF TypeInv, TypeOK, StoreOK
  <2>7. WorkersOK'
    BY <1>3, <2>1, <2>5 DEF TypeInv, TypeOK, WorkersOK
  <2>8. entity' # NoEntity
    BY <1>1, <2>1 DEF NoEntity, Written, IsEntity
  <2>9. LockInv'
    BY <1>1, <1>3, <2>1, <2>8, WorkersAssumption DEF TypeInv, TypeOK, WorkersOK, LockInv, Workers
  <2>10. QED
    BY <2>6, <2>7, <2>9 DEF TypeInv, TypeOK
<1>6. QED
  BY <1>4, <1>5

\* Begin, Refuse, EndTx and Dispatch, whoever takes them.
LEMMA BeginKeepsTypeInv ==
  ASSUME TypeInv, NEW w \in Workers, Begin(w),
         w \in Requests => phase[w] = "begin"
  PROVE  TypeInv'
BY WorkersAssumption
   DEF TypeInv, TypeOK, StoreOK, WorkersOK, LockInv, Begin, store, Workers

LEMMA RefuseKeepsTypeInv ==
  ASSUME TypeInv, NEW w \in Workers, phase[w] # "tx",
         NEW next \in {"idle", "scan"}, Refuse(w, next)
  PROVE  TypeInv'
BY WorkersAssumption
   DEF TypeInv, TypeOK, StoreOK, WorkersOK, LockInv, Refuse, Answer, store, Workers

LEMMA EndTxKeepsTypeInv ==
  ASSUME TypeInv, NEW w \in Workers, phase[w] = "tx", NEW next \in {"idle", "scan"},
         NEW what \in {"none", "duplicate", "identity_conflict", "no_transition"},
         EndTx(w, what, next)
  PROVE  TypeInv'
BY WorkersAssumption
   DEF TypeInv, TypeOK, StoreOK, WorkersOK, LockInv, EndTx, Answer, store, Workers

LEMMA DispatchKeepsTypeInv ==
  ASSUME TypeInv, NEW w \in Workers, NEW what \in {"none", "applied"},
         NEW next \in {"idle", "scan"}, Dispatch(w, what, next)
  PROVE  TypeInv'
<1>1. sent' \in Seq(Nat) /\ Len(sent') = Len(sent)
  <2>1. Len(sent) \in Nat /\ sent \in [1..Len(sent) -> Nat]
    BY DEF TypeInv, TypeOK, StoreOK
  <2>2. sent' = [i \in 1..Len(sent) |-> IF i = batch[w] THEN sent[i] + 1 ELSE sent[i]]
    <3>1. sent' = [sent EXCEPT ![batch[w]] = sent[batch[w]] + 1]
      BY DEF Dispatch
    <3>2. QED
      BY <2>1, <3>1
  <2>3. sent' \in [1..Len(sent) -> Nat]
    BY <2>1, <2>2
  <2>4. QED
    BY <2>1, <2>3
<1>2. StoreOK'
  BY <1>1 DEF TypeInv, TypeOK, StoreOK, Dispatch
<1>3. WorkersOK'
  <2>1. Len(history) \in Nat
    BY SeqDomain DEF TypeInv, TypeOK, StoreOK
  <2>2. QED
    BY <2>1 DEF TypeInv, TypeOK, WorkersOK, Dispatch, Answer
<1>4. LockInv'
  BY WorkersAssumption DEF TypeInv, TypeOK, WorkersOK, LockInv, Dispatch, Answer, Workers
<1>5. QED
  BY <1>2, <1>3, <1>4 DEF TypeInv, TypeOK

\* A crash frees the lock its process held.
LEMMA CrashKeepsTypeInv ==
  ASSUME TypeInv, NEW w \in Workers, Crash(w)
  PROVE  TypeInv'
<1>1. Len(history) \in Nat
  BY SeqDomain DEF TypeInv, TypeOK, StoreOK
<1>2. QED
  BY <1>1, WorkersAssumption, BoundsAssumption
     DEF TypeInv, TypeOK, StoreOK, WorkersOK, LockInv, Crash, Answer, store, Workers

\* Every write a request prepares is a complete state map and a sequence of
\* fired joins.
LEMMA EventWritesAreCascades ==
  ASSUME NEW e, DOMAIN e.states = Regions, NEW ev, NEW t, NEW spec \in EventWrites(e, ev, t)
  PROVE  DOMAIN spec.states = Regions /\ IsSeq(spec.fired)
<1> DEFINE moved == [e.states EXCEPT ![t.region] = t.to]
<1>1. PICK c \in ApplyJoins(Machine, moved) : spec.states = c.states /\ spec.fired = c.fired
  BY DEF EventWrites
<1>2. DOMAIN moved = Regions
  OBVIOUS
<1> HIDE DEF moved
<1>3. IsCascade(c, Regions)
  BY <1>2, MachineAssumption, ApplyJoinsYieldsCascades
<1>4. QED
  BY <1>1, <1>3 DEF IsCascade

\* So is every write a scheduler prepares.
LEMMA TimeoutWritesAreCascades ==
  ASSUME NEW e, DOMAIN e.states = Regions, NEW t, NEW now, NEW spec \in TimeoutWrites(e, t, now)
  PROVE  DOMAIN spec.states = Regions /\ IsSeq(spec.fired)
<1> DEFINE moved == [e.states EXCEPT ![t.region] = t.to]
           plain == [states |-> moved, fired |-> <<>>]
<1>1. PICK c \in IF Machine.parallel THEN ApplyJoins(Machine, moved) ELSE {plain} :
        spec.states = c.states /\ spec.fired = c.fired
  BY DEF TimeoutWrites
<1>2. DOMAIN moved = Regions
  OBVIOUS
<1>3. IsCascade(plain, Regions)
  <2>1. <<>> \in Seq({})
    OBVIOUS
  <2>2. IsSeq(<<>>)
    BY <2>1, SeqIsSeq
  <2>3. plain.fired = <<>> /\ plain.states = moved
    OBVIOUS
  <2>4. QED
    BY <1>2, <2>2, <2>3 DEF IsCascade
<1> HIDE DEF moved, plain
<1>4. \A d \in ApplyJoins(Machine, moved) : IsCascade(d, Regions)
  BY <1>2, MachineAssumption, ApplyJoinsYieldsCascades
<1>5. IsCascade(c, Regions)
  BY <1>1, <1>3, <1>4
<1>6. QED
  BY <1>1, <1>5 DEF IsCascade

\* A step of a request keeps the invariant.
LEMMA RequestStepKeepsTypeInv ==
  ASSUME TypeInv, NEW p \in Requests, RequestStep(p)
  PROVE  TypeInv'
<1> p \in Workers
  BY DEF Workers
<1>1. CASE LoadExisting(p)
  BY <1>1, WorkersAssumption
     DEF TypeInv, TypeOK, StoreOK, WorkersOK, LockInv, LoadExisting, store, Workers
<1>2. CASE AnswerNotFound(p)
  BY <1>2, WorkersAssumption
     DEF TypeInv, TypeOK, StoreOK, WorkersOK, LockInv, AnswerNotFound, Answer, store, Workers
<1>3. CASE LoadMissing(p)
  BY <1>3, WorkersAssumption
     DEF TypeInv, TypeOK, StoreOK, WorkersOK, LockInv, LoadMissing, store, Workers
<1>4. CASE CreateEntity(p)
  <2>1. clock \in Nat /\ IsEntity(NewEntity(clock), clock)
    BY NewEntityIsEntity, BoundsAssumption DEF TypeInv, TypeOK, StoreOK
  <2>2. NewEntity(clock) # NoEntity
    BY DEF NewEntity, NoEntity
  <2>3. entity' # NoEntity /\ IsEntity(entity', clock)
    BY <1>4, <2>1, <2>2 DEF CreateEntity, TypeInv, TypeOK, StoreOK
  <2>4. StoreOK'
    BY <1>4, <2>3 DEF CreateEntity, TypeInv, TypeOK, StoreOK
  <2>5. WorkersOK'
    BY <1>4 DEF CreateEntity, TypeInv, TypeOK, WorkersOK
  <2>6. LockInv'
    BY <1>4, <2>3, WorkersAssumption DEF CreateEntity, TypeInv, TypeOK, WorkersOK, LockInv, Workers
  <2>7. QED
    BY <2>4, <2>5, <2>6 DEF TypeInv, TypeOK
<1>5. CASE BeginTx(p)
  BY <1>5, BeginKeepsTypeInv DEF BeginTx
<1>6. CASE RefuseRequest(p)
  BY <1>6, RefuseKeepsTypeInv DEF RefuseRequest
<1>7. CASE AnswerDuplicate(p)
  BY <1>7, EndTxKeepsTypeInv DEF AnswerDuplicate
<1>8. CASE AnswerIdentityConflict(p)
  BY <1>8, EndTxKeepsTypeInv DEF AnswerIdentityConflict
<1>9. CASE AnswerNoTransition(p)
  BY <1>9, EndTxKeepsTypeInv DEF AnswerNoTransition
<1>10. CASE ApplyEvent(p)
  <2> PICK t \in MatchOf(snap[p], request[p]) :
        \E spec \in EventWrites(snap[p], request[p], t) : WriteEntity(p, spec, "idle")
    BY <1>10 DEF ApplyEvent
  <2>1. PICK spec \in EventWrites(snap[p], request[p], t) : WriteEntity(p, spec, "idle")
    OBVIOUS
  <2>2. phase[p] = "tx" /\ entity # NoEntity /\ snap[p] = entity
    BY <1>10 DEF ApplyEvent, TypeInv, LockInv
  <2>3. DOMAIN snap[p].states = Regions
    BY <2>2 DEF TypeInv, TypeOK, StoreOK, IsEntity
  <2>4. DOMAIN spec.states = Regions /\ IsSeq(spec.fired)
    BY <2>3, EventWritesAreCascades
  <2>5. QED
    BY <2>1, <2>2, <2>4, WriteKeepsTypeInv
<1>11. CASE DispatchEvent(p)
  BY <1>11, DispatchKeepsTypeInv DEF DispatchEvent
<1>12. CASE ReturnActions(p)
  <2>1. Len(history) \in Nat
    BY SeqDomain DEF TypeInv, TypeOK, StoreOK
  <2>2. QED
    BY <1>12, <2>1, WorkersAssumption
       DEF TypeInv, TypeOK, StoreOK, WorkersOK, LockInv, ReturnActions, Answer, store, Workers
<1>13. QED
  BY <1>1, <1>2, <1>3, <1>4, <1>5, <1>6, <1>7, <1>8, <1>9, <1>10, <1>11, <1>12 DEF RequestStep

\* A step of a scheduler keeps the invariant.
LEMMA SchedulerStepKeepsTypeInv ==
  ASSUME TypeInv, NEW s \in Schedulers, SchedulerStep(s)
  PROVE  TypeInv'
<1> s \in Workers /\ s \notin Requests
  BY WorkersAssumption DEF Workers
<1> clock \in 0..MaxClock /\ Len(Machine.transitions) \in Nat
  BY BoundsAssumption, MachineAssumption, SeqDomain DEF TypeInv, TypeOK, StoreOK
<1>1. CASE StartTick(s)
  BY <1>1, WorkersAssumption
     DEF TypeInv, TypeOK, StoreOK, WorkersOK, LockInv, StartTick, store, Workers
<1>2. CASE EndTick(s)
  BY <1>2, WorkersAssumption, BoundsAssumption
     DEF TypeInv, TypeOK, StoreOK, WorkersOK, LockInv, EndTick, Answer, store, Workers
<1>3. CASE Scan(s)
  <2>1. PICK i \in DOMAIN Machine.transitions :
          /\ cursor' = [cursor EXCEPT ![s] = i]
          /\ \E next \in {"fire", "scan"} : phase' = [phase EXCEPT ![s] = next]
    BY <1>3 DEF Scan, Remaining
  <2>2. i \in 0..Len(Machine.transitions)
    BY MachineAssumption, SeqDomain
  <2>3. phase[s] = "scan" /\ UNCHANGED <<store, clock, lock, snap, request, reply, tick, batch, submits, crashes>>
    BY <1>3 DEF Scan
  <2>4. QED
    BY <2>1, <2>2, <2>3, WorkersAssumption
       DEF TypeInv, TypeOK, StoreOK, WorkersOK, LockInv, store, Workers
<1>4. CASE BeginFire(s)
  BY <1>4, BeginKeepsTypeInv DEF BeginFire
<1>5. CASE RefuseFire(s)
  BY <1>5, RefuseKeepsTypeInv DEF RefuseFire
<1>6. CASE SkipTimeout(s)
  BY <1>6, EndTxKeepsTypeInv DEF SkipTimeout
<1>7. CASE FireTimeout(s)
  <2> DEFINE t == Machine.transitions[cursor[s]]
  <2>1. PICK spec \in TimeoutWrites(snap[s], t, tick[s]) : WriteEntity(s, spec, "scan")
    BY <1>7 DEF FireTimeout
  <2>2. phase[s] = "tx" /\ snap[s] = entity /\ entity # NoEntity
    BY <1>7 DEF FireTimeout, StillDue, TypeInv, LockInv
  <2>3. DOMAIN snap[s].states = Regions
    BY <2>2 DEF TypeInv, TypeOK, StoreOK, IsEntity
  <2> HIDE DEF t
  <2>4. DOMAIN spec.states = Regions /\ IsSeq(spec.fired)
    BY <2>3, TimeoutWritesAreCascades
  <2>5. QED
    BY <2>1, <2>2, <2>4, WriteKeepsTypeInv
<1>8. CASE DispatchTimeout(s)
  BY <1>8, DispatchKeepsTypeInv DEF DispatchTimeout
<1>9. QED
  BY <1>1, <1>2, <1>3, <1>4, <1>5, <1>6, <1>7, <1>8 DEF SchedulerStep

\* Every step keeps the invariant.
LEMMA NextKeepsTypeInv ==
  ASSUME TypeInv, [Next]_vars
  PROVE  TypeInv'
<1>1. CASE Tick
  <2>1. clock \in Nat /\ clock' \in Nat /\ clock <= clock' /\ clock' \in 1..MaxClock
    BY <1>1, BoundsAssumption DEF Tick, TypeInv, TypeOK, StoreOK
  <2>2. entity' = NoEntity \/ IsEntity(entity', clock')
    BY <1>1, <2>1, EntityAges DEF Tick, TypeInv, TypeOK, StoreOK, store
  <2>3. QED
    BY <1>1, <2>1, <2>2 DEF Tick, TypeInv, TypeOK, StoreOK, WorkersOK, LockInv, store, worker
<1>2. ASSUME NEW p \in Requests, RequestStep(p) PROVE TypeInv'
  BY <1>2, RequestStepKeepsTypeInv
<1>3. ASSUME NEW p \in Requests, NEW ev \in Events, Submit(p, ev) PROVE TypeInv'
  BY <1>3, WorkersAssumption, BoundsAssumption
     DEF TypeInv, TypeOK, StoreOK, WorkersOK, LockInv, Submit, Answer, store, Workers
<1>4. ASSUME NEW s \in Schedulers, SchedulerStep(s) PROVE TypeInv'
  BY <1>4, SchedulerStepKeepsTypeInv
<1>5. ASSUME NEW w \in Workers, Crash(w) PROVE TypeInv'
  BY <1>5, CrashKeepsTypeInv
<1>6. CASE UNCHANGED vars
  BY <1>6 DEF TypeInv, TypeOK, StoreOK, WorkersOK, LockInv, vars, store, worker
<1>7. QED
  BY <1>1, <1>2, <1>3, <1>4, <1>5, <1>6 DEF Next

\* The lock invariant and the types hold in every reachable state.
THEOREM TypeInvariance == Spec => []TypeInv
BY InitTypeInv, NextKeepsTypeInv, PTL DEF Spec

\* Type correctness: the property TypeOK of the runs, for every machine.
THEOREM TypeCorrectness == Spec => []TypeOK
<1>1. TypeInv => TypeOK
  BY DEF TypeInv
<1>2. QED
  BY <1>1, TypeInvariance, PTL

-----------------------------------------------------------------------------
(* Identities.  A timeout's key names an instance its region has left, and *)
(* a join's key a version the row has reached, so a writer that re-reads   *)
(* the row under the lock and finds no row of its event's identity writes  *)
(* keys that no committed row has.                                         *)

KeyOK(row, e) ==
  \/ row.key = NoIdentity
  \/ row.key = EventIdentity(row.type, row.ts)
  \/ /\ e # NoEntity
     /\ row.key.kind = "timeout"
     /\ row.key.name \in Regions
     /\ row.key.n \in Nat
     /\ row.key.n < EffectiveEntries(Machine, e)[row.key.name].seq
  \/ /\ e # NoEntity
     /\ row.key.kind = "join"
     /\ row.key.n \in Nat
     /\ row.key.n <= e.version

KeyInv == \A i \in DOMAIN history : KeyOK(history[i], entity)

ConflictInv == TypeInv /\ KeyInv /\ NoWriterConflict

\* The keys of a write: the event's or the current instance's.
MainKeyOK(spec, e) ==
  \/ spec.key = EventIdentity(spec.type, spec.ts)
  \/ /\ spec.region \in Regions
     /\ spec.key = TimeoutIdentity(spec.region, EffectiveEntries(Machine, e)[spec.region].seq)

\* None of its rows has the key of a row that lies behind e, but its main row may.
LEMMA WrittenKeysAreNew ==
  ASSUME NEW e, e.version \in Nat, NEW spec, IsSeq(spec.fired),
         NEW row, KeyOK(row, e), row.key # spec.key,
         NEW i \in DOMAIN Rows(spec, e.version + 1, clock)
  PROVE  Rows(spec, e.version + 1, clock)[i].key # row.key
<1> DEFINE rows == Rows(spec, e.version + 1, clock)
<1>1. /\ IsSeq(rows)
      /\ Len(rows) = 1 + Len(spec.fired)
      /\ rows[1].key = spec.key
      /\ \A k \in 1..Len(spec.fired) :
           rows[1 + k].key = JoinIdentity(spec.fired[k].region, e.version + 1, k - 1)
  BY RowsOfWrite
<1>2. i \in DOMAIN rows
  OBVIOUS
<1> HIDE DEF rows
<1>3. i \in 1..(1 + Len(spec.fired)) /\ Len(spec.fired) \in Nat
  BY <1>1, <1>2, SeqDomain
<1>4. CASE i = 1
  BY <1>1, <1>4 DEF rows
<1>5. CASE i # 1
  <2>1. i - 1 \in 1..Len(spec.fired) /\ 1 + (i - 1) = i
    BY <1>3, <1>5
  <2>2. rows[i].key = JoinIdentity(spec.fired[i - 1].region, e.version + 1, (i - 1) - 1)
    BY <1>1, <2>1
  <2>3. rows[i].key.kind = "join" /\ rows[i].key.n = e.version + 1
    BY <2>2 DEF JoinIdentity
  <2>4. row.key.kind # "join" \/ row.key.n <= e.version
    <3>1. NoIdentity.kind = "null" /\ \A type, ts : EventIdentity(type, ts).kind = "evt"
      BY DEF NoIdentity, EventIdentity
    <3>2. QED
      BY <3>1 DEF KeyOK
  <2>5. rows[i].key # row.key
    BY <2>3, <2>4
  <2>6. QED
    BY <2>5 DEF rows
<1>6. QED
  BY <1>4, <1>5

\* The key of an event is new if its type and timestamp are.
LEMMA EventKeyIsNew ==
  ASSUME NEW e, NEW row, KeyOK(row, e), NEW type, NEW ts, row.type # type \/ row.ts # ts
  PROVE  row.key # EventIdentity(type, ts)
<1>1. /\ NoIdentity.kind = "null"
      /\ \A x, y : /\ EventIdentity(x, y).kind = "evt"
                   /\ EventIdentity(x, y).name = x
                   /\ EventIdentity(x, y).n = y
  BY DEF NoIdentity, EventIdentity
<1>2. QED
  BY <1>1 DEF KeyOK

\* That of a timeout is: no row names the instance the region is in.
LEMMA TimeoutKeyIsNew ==
  ASSUME NEW e, NEW row, KeyOK(row, e), NEW r, EffectiveEntries(Machine, e)[r].seq \in Nat
  PROVE  row.key # TimeoutIdentity(r, EffectiveEntries(Machine, e)[r].seq)
<1> DEFINE seq == EffectiveEntries(Machine, e)[r].seq
<1>1. /\ NoIdentity.kind = "null"
      /\ \A x, y : EventIdentity(x, y).kind = "evt"
      /\ TimeoutIdentity(r, seq).kind = "timeout" /\ TimeoutIdentity(r, seq).name = r
      /\ TimeoutIdentity(r, seq).n = seq
  BY DEF NoIdentity, EventIdentity, TimeoutIdentity
<1>2. QED
  BY <1>1 DEF KeyOK

\* A write whose main key is new meets neither the index nor the version check.
LEMMA NewKeyNoConflict ==
  ASSUME TypeInv, KeyInv, entity # NoEntity, NEW spec, IsSeq(spec.fired), MainKeyOK(spec, entity),
         \A j \in DOMAIN history : history[j].key # spec.key
  PROVE  ~ Conflicts(entity, Rows(spec, entity.version + 1, clock))
<1>1. entity.version \in Nat
  BY DEF TypeInv, TypeOK, StoreOK, IsEntity
<1>2. ASSUME NEW i \in DOMAIN Rows(spec, entity.version + 1, clock), NEW j \in DOMAIN history
      PROVE  Rows(spec, entity.version + 1, clock)[i].key # history[j].key
  <2>1. KeyOK(history[j], entity) /\ history[j].key # spec.key
    BY DEF KeyInv
  <2>2. QED
    BY <1>1, <2>1, WrittenKeysAreNew
<1>3. QED
  BY <1>2 DEF Conflicts

\* The region of a write's main row gets a new instance.
LEMMA MainRegionIsEntered ==
  ASSUME NEW rows, IsSeq(rows), Len(rows) >= 1, NEW first
  PROVE  LastFor(Entered(rows, first), rows[1].region) # {}
<1> DEFINE items == Entered(rows, first)
<1>1. Len(rows) \in Nat /\ DOMAIN rows = 1..Len(rows)
  BY SeqDomain
<1>2. items \in [1..Len(rows) -> {items[k] : k \in 1..Len(rows)}]
  BY <1>1 DEF Entered
<1>3. 1 \in DOMAIN items /\ items[1].region = rows[1].region
  BY <1>1 DEF Entered
<1> HIDE DEF items
<1>4. IsSeq(items)
  BY <1>1, <1>2, FunctionIsSeq
<1>5. LastFor(items, items[1].region) # {}
  BY <1>3, <1>4, LastForExists
<1>6. QED
  BY <1>3, <1>5 DEF items

\* What a write stores leaves every key behind it: those of earlier rows and its
\* own.
LEMMA KeysOfWrite ==
  ASSUME NEW e, IsEntity(e, clock), clock \in Nat,
         NEW spec, DOMAIN spec.states = Regions, IsSeq(spec.fired), MainKeyOK(spec, e),
         NEW first
  PROVE  LET rows == Rows(spec, e.version + 1, clock)
             e2   == Written(e, spec.states, spec.context, Entered(rows, first), clock)
         IN /\ e2 # NoEntity /\ IsEntity(e2, clock)
            /\ \A row : KeyOK(row, e) => KeyOK(row, e2)
            /\ IsSeq(rows) /\ \A i \in DOMAIN rows : KeyOK(rows[i], e2)
<1>0. PICK rows : rows = Rows(spec, e.version + 1, clock)
  OBVIOUS
<1> DEFINE entered == Entered(rows, first)
<1>12. PICK e2 : e2 = Written(e, spec.states, spec.context, entered, clock)
  OBVIOUS
<1> DEFINE old     == EffectiveEntries(Machine, e)
           new     == EffectiveEntries(Machine, e2)
<1>1. e # NoEntity
  BY DEF NoEntity, IsEntity
<1>3. /\ IsSeq(rows)
      /\ Len(rows) = 1 + Len(spec.fired)
      /\ rows[1].key = spec.key /\ rows[1].type = spec.type
      /\ rows[1].ts = spec.ts /\ rows[1].region = spec.region
      /\ \A k \in 1..Len(spec.fired) :
           rows[1 + k].key = JoinIdentity(spec.fired[k].region, e.version + 1, k - 1)
  BY <1>0, RowsOfWrite
<1>4. Len(spec.fired) \in Nat /\ Len(rows) >= 1
  BY <1>3, SeqDomain
<1>5. LastFor(entered, spec.region) # {}
  BY <1>3, <1>4, MainRegionIsEntered
<1>2. /\ IsEntity(e2, clock)
      /\ \A r \in Regions : /\ new[r].seq >= old[r].seq
                            /\ LastFor(entered, r) # {} => new[r].seq = e.version + 1
  BY <1>12, WrittenEntity
<1> HIDE DEF entered
<1>6. /\ e.version \in Nat
      /\ e2.version = e.version + 1
      /\ e2 # NoEntity
      /\ \A r \in Regions : /\ old[r].seq \in Nat
                            /\ new[r].seq \in Nat
                            /\ old[r].seq <= e.version
                            /\ new[r].seq >= old[r].seq
                            /\ LastFor(entered, r) # {} => new[r].seq = e.version + 1
  <2>1. e.version \in Nat \ {0} /\ \A r \in Regions : old[r].seq \in 1..e.version
    BY DEF IsEntity
  <2>2. e2.version = e.version + 1
    BY <1>12 DEF Written
  <2>3. e2 # NoEntity /\ \A r \in Regions : new[r].seq \in 1..e2.version
    BY <1>2, <2>1, <2>2 DEF IsEntity, NoEntity
  <2> HIDE DEF old, new
  <2>4. QED
    BY <1>2, <2>1, <2>2, <2>3
<1> HIDE DEF old, new
<1>7. ASSUME NEW row, KeyOK(row, e) PROVE KeyOK(row, e2)
  BY <1>6, <1>7 DEF KeyOK, old, new
<1>8. KeyOK(rows[1], e2)
  <2>1. CASE spec.key = EventIdentity(spec.type, spec.ts)
    BY <1>3, <2>1 DEF KeyOK
  <2>2. CASE spec.region \in Regions /\ spec.key = TimeoutIdentity(spec.region, old[spec.region].seq)
    <3>1. /\ rows[1].key.kind = "timeout"
          /\ rows[1].key.name = spec.region
          /\ rows[1].key.n = old[spec.region].seq
      BY <1>3, <2>2 DEF TimeoutIdentity
    <3>2. old[spec.region].seq \in Nat /\ old[spec.region].seq < new[spec.region].seq
      BY <1>5, <1>6, <2>2
    <3>3. QED
      BY <1>6, <2>2, <3>1, <3>2 DEF KeyOK, new
  <2>3. QED
    BY <2>1, <2>2 DEF MainKeyOK, old
<1>9. ASSUME NEW k \in 1..Len(spec.fired) PROVE KeyOK(rows[1 + k], e2)
  <2>1. rows[1 + k].key.kind = "join" /\ rows[1 + k].key.n = e.version + 1
    <3>1. rows[1 + k].key = JoinIdentity(spec.fired[k].region, e.version + 1, k - 1)
      BY <1>3
    <3>2. QED
      BY <3>1 DEF JoinIdentity
  <2>2. QED
    BY <1>6, <2>1 DEF KeyOK
<1>10. ASSUME NEW i \in DOMAIN rows PROVE KeyOK(rows[i], e2)
  <2>1. i \in 1..(1 + Len(spec.fired))
    BY <1>3, SeqDomain
  <2>2. i = 1 \/ (i - 1 \in 1..Len(spec.fired) /\ 1 + (i - 1) = i)
    BY <1>4, <2>1
  <2>3. QED
    BY <1>8, <1>9, <2>2
<1>11. QED
  BY <1>0, <1>12, <1>2, <1>3, <1>6, <1>7, <1>10 DEF entered

\* A committed write leaves every key behind the row.
LEMMA WriteKeepsKeyInv ==
  ASSUME TypeInv, KeyInv, NEW w \in Workers, phase[w] = "tx", entity # NoEntity,
         NEW spec, DOMAIN spec.states = Regions, IsSeq(spec.fired), MainKeyOK(spec, entity),
         ~ Conflicts(entity, Rows(spec, entity.version + 1, clock)),
         NEW refused, WriteEntity(w, spec, refused)
  PROVE  KeyInv' /\ UNCHANGED reply
<1> DEFINE rows    == Rows(spec, entity.version + 1, clock)
           entered == Entered(rows, Len(history) + 1)
<1>1. snap[w] = entity /\ IsEntity(entity, clock) /\ clock \in Nat
  BY BoundsAssumption DEF TypeInv, LockInv, TypeOK, StoreOK
<1>2. /\ entity' = Written(entity, spec.states, spec.context, entered, clock)
      /\ history' = history \o rows
      /\ UNCHANGED reply
  BY <1>1 DEF WriteEntity
<1>3. PICK e2 : e2 = entity'
  OBVIOUS
<1>9. rows = Rows(spec, entity.version + 1, clock)
  OBVIOUS
<1> HIDE DEF rows
<1>10. /\ \A row : KeyOK(row, entity) => KeyOK(row, e2)
       /\ IsSeq(rows) /\ \A i \in DOMAIN rows : KeyOK(rows[i], e2)
  BY <1>1, <1>2, <1>3, <1>9, KeysOfWrite
<1>4. IsSeq(history) /\ Len(history) \in Nat /\ DOMAIN history = 1..Len(history)
  BY SeqDomain DEF TypeInv, TypeOK, StoreOK
<1>5. Len(rows) \in Nat /\ DOMAIN rows = 1..Len(rows)
  BY <1>10, SeqDomain
<1>6. /\ DOMAIN history' = 1..(Len(history) + Len(rows))
      /\ \A j \in 1..Len(history) : history'[j] = history[j]
      /\ \A j \in 1..Len(rows) : history'[Len(history) + j] = rows[j]
  BY <1>2, <1>4, <1>10, ConcatIsSeq, SeqDomain
<1>7. ASSUME NEW i \in DOMAIN history' PROVE KeyOK(history'[i], entity')
  <2>1. CASE i <= Len(history)
    <3>1. i \in DOMAIN history /\ history'[i] = history[i]
      BY <1>4, <1>6, <2>1
    <3>2. QED
      BY <1>3, <1>10, <3>1 DEF KeyInv
  <2>2. CASE i > Len(history)
    <3>1. i - Len(history) \in 1..Len(rows) /\ Len(history) + (i - Len(history)) = i
      BY <1>4, <1>5, <1>6, <2>2
    <3>2. history'[i] = rows[i - Len(history)]
      BY <1>6, <3>1
    <3>3. QED
      BY <1>3, <1>5, <1>10, <3>1, <3>2
  <2>3. QED
    BY <1>4, <1>6, <2>1, <2>2
<1>8. QED
  BY <1>2, <1>7 DEF KeyInv

\* A write of worker w that goes through.
Writes(w, spec) ==
  /\ phase[w] = "tx" /\ entity # NoEntity
  /\ DOMAIN spec.states = Regions /\ IsSeq(spec.fired)
  /\ MainKeyOK(spec, entity)
  /\ ~ Conflicts(entity, Rows(spec, entity.version + 1, clock))
  /\ \E refused \in {"idle", "scan"} : WriteEntity(w, spec, refused)

\* An event that is new by the dedup query has a new key, so its write goes
\* through.
LEMMA ApplyEventWrites ==
  ASSUME TypeInv, KeyInv, NEW p \in Requests, ApplyEvent(p)
  PROVE  \E spec : /\ Writes(p, spec)
                   /\ spec.type = request[p].type
                   /\ spec.ts = request[p].ts
                   /\ spec.params = request[p].params
                   /\ spec.key = EventIdentity(request[p].type, request[p].ts)
                   /\ \E t \in MatchOf(entity, request[p]) : spec \in EventWrites(entity, request[p], t)
<1> DEFINE ev == request[p]
<1> p \in Workers
  BY DEF Workers
<1> PICK t \in MatchOf(snap[p], ev) :
      \E spec \in EventWrites(snap[p], ev, t) : WriteEntity(p, spec, "idle")
  BY DEF ApplyEvent
<1>1. PICK spec \in EventWrites(snap[p], ev, t) : WriteEntity(p, spec, "idle")
  OBVIOUS
<1>2. phase[p] = "tx" /\ entity # NoEntity /\ snap[p] = entity /\ Dedup(history, ev) = "new"
  BY DEF ApplyEvent, TypeInv, LockInv
<1>3. DOMAIN snap[p].states = Regions
  BY <1>2 DEF TypeInv, TypeOK, StoreOK, IsEntity
<1>4. DOMAIN spec.states = Regions /\ IsSeq(spec.fired)
  BY <1>3, EventWritesAreCascades
<1>5. /\ spec.type = ev.type /\ spec.ts = ev.ts /\ spec.params = ev.params
      /\ spec.key = EventIdentity(ev.type, ev.ts)
  BY DEF EventWrites
<1>6. ASSUME NEW j \in DOMAIN history PROVE history[j].key # spec.key
  <2>1. history[j].type # ev.type \/ history[j].ts # ev.ts
    BY <1>2 DEF Dedup, SameIdentity
  <2>2. KeyOK(history[j], entity)
    BY DEF KeyInv
  <2>3. QED
    BY <1>5, <2>1, <2>2, EventKeyIsNew
<1>7. MainKeyOK(spec, entity)
  BY <1>5 DEF MainKeyOK
<1>8. ~ Conflicts(entity, Rows(spec, entity.version + 1, clock))
  BY <1>2, <1>4, <1>6, <1>7, NewKeyNoConflict
<1>9. Writes(p, spec)
  BY <1>1, <1>2, <1>4, <1>7, <1>8 DEF Writes
<1>10. t \in MatchOf(entity, ev) /\ spec \in EventWrites(entity, ev, t)
  BY <1>2
<1>11. QED
  BY <1>5, <1>9, <1>10

\* A timeout that is still due fires for an instance no row has fired for.
LEMMA FireTimeoutWrites ==
  ASSUME TypeInv, KeyInv, NEW s \in Schedulers, FireTimeout(s)
  PROVE  \E spec : /\ Writes(s, spec) /\ spec.type = "$timeout" /\ spec.key.kind = "timeout"
                   /\ spec \in TimeoutWrites(entity, Machine.transitions[cursor[s]], tick[s])
<1> DEFINE t == Machine.transitions[cursor[s]]
           seq == EffectiveEntries(Machine, entity)[t.region].seq
<1> s \in Workers
  BY DEF Workers
<1>1. PICK spec \in TimeoutWrites(snap[s], t, tick[s]) : WriteEntity(s, spec, "scan")
  BY DEF FireTimeout
<1>2. phase[s] = "tx" /\ snap[s] = entity /\ entity # NoEntity /\ t.region \in DOMAIN entity.states
  BY DEF FireTimeout, StillDue, TypeInv, LockInv
<1>3. DOMAIN entity.states = Regions /\ seq \in Nat
  BY <1>2 DEF TypeInv, TypeOK, StoreOK, IsEntity
<1>4. spec.region = t.region /\ spec.type = "$timeout" /\ spec.key = TimeoutIdentity(t.region, seq)
  BY <1>1, <1>2 DEF TimeoutWrites
<1> HIDE DEF t
<1>5. DOMAIN spec.states = Regions /\ IsSeq(spec.fired)
  BY <1>1, <1>2, <1>3, TimeoutWritesAreCascades
<1>6. MainKeyOK(spec, entity)
  BY <1>2, <1>3, <1>4 DEF MainKeyOK
<1>7. spec.key.kind = "timeout"
  BY <1>4 DEF TimeoutIdentity
<1>8. ASSUME NEW j \in DOMAIN history PROVE history[j].key # spec.key
  <2>1. KeyOK(history[j], entity)
    BY DEF KeyInv
  <2>2. QED
    BY <1>3, <1>4, <2>1, TimeoutKeyIsNew
<1>9. ~ Conflicts(entity, Rows(spec, entity.version + 1, clock))
  BY <1>2, <1>5, <1>6, <1>8, NewKeyNoConflict
<1>10. Writes(s, spec)
  BY <1>1, <1>2, <1>5, <1>6, <1>9 DEF Writes
<1>11. spec \in TimeoutWrites(entity, t, tick[s])
  BY <1>1, <1>2
<1>12. QED
  BY <1>4, <1>7, <1>10, <1>11 DEF t

\* A write that goes through keeps the whole invariant.
LEMMA WritesKeepConflictInv ==
  ASSUME ConflictInv, NEW w \in Workers, NEW spec, Writes(w, spec)
  PROVE  KeyInv' /\ NoWriterConflict'
<1>1. PICK refused \in {"idle", "scan"} : WriteEntity(w, spec, refused)
  BY DEF Writes
<1>2. KeyInv' /\ UNCHANGED reply
  BY <1>1, WriteKeepsKeyInv DEF ConflictInv, Writes
<1>3. QED
  BY <1>2 DEF ConflictInv, NoWriterConflict

\* Every step keeps the invariant.
LEMMA NextKeepsConflictInv ==
  ASSUME ConflictInv, [Next]_vars
  PROVE  ConflictInv'
<1>1. TypeInv'
  BY NextKeepsTypeInv DEF ConflictInv
<1>2. ASSUME UNCHANGED <<entity, history>>,
             NEW w \in Workers, NEW what, what # "conflict",
             reply' = reply \/ reply' = [reply EXCEPT ![w] = what]
      PROVE  KeyInv' /\ NoWriterConflict'
  BY <1>2 DEF ConflictInv, KeyInv, NoWriterConflict, TypeInv, TypeOK, WorkersOK
<1>3. ASSUME NEW p \in Requests, RequestStep(p) PROVE KeyInv' /\ NoWriterConflict'
  <2> p \in Workers
    BY DEF Workers
  <2>1. CASE LoadExisting(p) \/ LoadMissing(p)
    BY <1>2, <2>1 DEF LoadExisting, LoadMissing, store
  <2>2. CASE CreateEntity(p)
    <3>1. history' = history /\ reply' = reply
      BY <2>2 DEF CreateEntity
    <3>2. ASSUME NEW i \in DOMAIN history PROVE KeyOK(history[i], entity')
      <4>1. KeyOK(history[i], entity)
        BY DEF ConflictInv, KeyInv
      <4>2. CASE entity = NoEntity
        BY <4>1, <4>2 DEF KeyOK
      <4>3. CASE entity # NoEntity
        BY <2>2, <4>1, <4>3 DEF CreateEntity
      <4>4. QED
        BY <4>2, <4>3
    <3>3. QED
      BY <3>1, <3>2 DEF KeyInv, ConflictInv, NoWriterConflict
  <2>3. CASE AnswerNotFound(p) \/ RefuseRequest(p) \/ ReturnActions(p) \/ DispatchEvent(p)
    BY <1>2, <2>3
       DEF AnswerNotFound, RefuseRequest, Refuse, ReturnActions, DispatchEvent, Dispatch, Answer, store
  <2>4. CASE BeginTx(p)
    BY <1>2, <2>4 DEF BeginTx, Begin, store
  <2>5. CASE AnswerDuplicate(p) \/ AnswerIdentityConflict(p) \/ AnswerNoTransition(p)
    BY <1>2, <2>5 DEF AnswerDuplicate, AnswerIdentityConflict, AnswerNoTransition, EndTx, Answer, store
  <2>6. CASE ApplyEvent(p)
    BY <2>6, ApplyEventWrites, WritesKeepConflictInv DEF ConflictInv
  <2>7. QED
    BY <1>3, <2>1, <2>2, <2>3, <2>4, <2>5, <2>6 DEF RequestStep
<1>4. ASSUME NEW s \in Schedulers, SchedulerStep(s) PROVE KeyInv' /\ NoWriterConflict'
  <2> s \in Workers
    BY DEF Workers
  <2>1. CASE StartTick(s) \/ Scan(s)
    BY <1>2, <2>1 DEF StartTick, Scan, store
  <2>2. CASE EndTick(s) \/ RefuseFire(s) \/ DispatchTimeout(s)
    BY <1>2, <2>2 DEF EndTick, RefuseFire, Refuse, DispatchTimeout, Dispatch, Answer, store
  <2>3. CASE BeginFire(s)
    BY <1>2, <2>3 DEF BeginFire, Begin, store
  <2>4. CASE SkipTimeout(s)
    BY <1>2, <2>4 DEF SkipTimeout, EndTx, Answer, store
  <2>5. CASE FireTimeout(s)
    BY <2>5, FireTimeoutWrites, WritesKeepConflictInv DEF ConflictInv
  <2>6. QED
    BY <1>4, <2>1, <2>2, <2>3, <2>4, <2>5 DEF SchedulerStep
<1>5. ASSUME NEW p \in Requests, NEW ev \in Events, Submit(p, ev)
      PROVE  KeyInv' /\ NoWriterConflict'
  <2>1. p \in Workers
    BY DEF Workers
  <2>2. QED
    BY <1>2, <1>5, <2>1 DEF Submit, Answer, store
<1>6. ASSUME NEW w \in Workers, Crash(w) PROVE KeyInv' /\ NoWriterConflict'
  BY <1>2, <1>6 DEF Crash, Answer, store
<1>7. CASE Tick \/ UNCHANGED vars
  BY <1>1, <1>7 DEF Tick, vars, store, worker, ConflictInv, KeyInv, NoWriterConflict
<1>8. QED
  BY <1>1, <1>3, <1>4, <1>5, <1>6, <1>7 DEF Next, ConflictInv

\* Keys of committed rows lie behind the row in every reachable state.
THEOREM ConflictInvariance == Spec => []ConflictInv
<1>1. Init => ConflictInv
  <2> SUFFICES ASSUME Init PROVE ConflictInv
    OBVIOUS
  <2>1. KeyInv
    BY StoresAssumption DEF Init, KeyInv, KeyOK
  <2>2. NoWriterConflict
    BY DEF Init, NoWriterConflict
  <2>3. QED
    BY <2>1, <2>2, InitTypeInv DEF ConflictInv
<1>2. QED
  BY <1>1, NextKeepsConflictInv, PTL DEF Spec

\* No request and no tick is ever answered CONFLICT: NoWriterConflict, for every
\* machine, every number of workers and replicas, and crashes at any point.
THEOREM NoWriterEverConflicts == Spec => []NoWriterConflict
<1>1. ConflictInv => NoWriterConflict
  BY DEF ConflictInv
<1>2. QED
  BY <1>1, ConflictInvariance, PTL

-----------------------------------------------------------------------------
(* Every step either appends the rows of one write or leaves the history   *)
(* alone.                                                                  *)

\* What a write that goes through does to the tables.
LEMMA WriteAppends ==
  ASSUME ConflictInv, NEW w \in Workers, NEW spec, Writes(w, spec),
         NEW rows, rows = Rows(spec, entity.version + 1, clock)
  PROVE  /\ history' = history \o rows
         /\ IsSeq(rows) /\ Len(rows) \in Nat \ {0}
         /\ Len(history') = Len(history) + Len(rows)
         /\ \A i \in 1..Len(history) : history'[i] = history[i]
         /\ sent' = sent \o [k \in DOMAIN rows |-> 0]
         /\ batch' = [batch EXCEPT ![w] = Len(history) + 1]
         /\ phase' = [phase EXCEPT ![w] = "dispatch"]
         /\ entity'.version = entity.version + 1
         /\ UNCHANGED <<reply, request, clock>>
<1>1. snap[w] = entity /\ IsSeq(history)
  BY DEF Writes, ConflictInv, TypeInv, LockInv, TypeOK, StoreOK
<1>2. PICK refused : WriteEntity(w, spec, refused)
  BY DEF Writes
<1>3. /\ history' = history \o rows
      /\ sent' = sent \o [k \in DOMAIN rows |-> 0]
      /\ batch' = [batch EXCEPT ![w] = Len(history) + 1]
      /\ phase' = [phase EXCEPT ![w] = "dispatch"]
      /\ entity' = Written(entity, spec.states, spec.context, Entered(rows, Len(history) + 1), clock)
      /\ UNCHANGED <<reply, request, clock>>
  BY <1>1, <1>2 DEF WriteEntity, Writes
<1>4. IsSeq(rows) /\ Len(rows) = 1 + Len(spec.fired) /\ Len(spec.fired) \in Nat
  BY RowsOfWrite, SeqDomain DEF Writes
<1>5. /\ Len(history') = Len(history) + Len(rows)
      /\ \A i \in 1..Len(history) : history'[i] = history[i]
  <2>1. /\ Len(history \o rows) = Len(history) + Len(rows)
        /\ \A i \in 1..Len(history) : (history \o rows)[i] = history[i]
    <3>1. IsSeq(history) /\ IsSeq(rows)
      BY <1>1, <1>4
    <3>2. QED
      BY <3>1, ConcatIsSeq
  <2>2. QED
    BY <1>3, <2>1
<1>6. entity'.version = entity.version + 1
  BY <1>3 DEF Written
<1>7. QED
  BY <1>3, <1>4, <1>5, <1>6

\* A row of a committed write is its main row or the row of a join.
LEMMA WrittenRow ==
  ASSUME ConflictInv, NEW w \in Workers, NEW spec, Writes(w, spec),
         NEW i \in DOMAIN history', i \notin DOMAIN history
  PROVE  \/ /\ i = Len(history) + 1
            /\ history'[i].key = spec.key
            /\ history'[i].type = spec.type
            /\ history'[i].ts = spec.ts
            /\ history'[i].params = spec.params
         \/ \E k \in 1..Len(spec.fired) :
              /\ i = Len(history) + 1 + k
              /\ history'[i].key = JoinIdentity(spec.fired[k].region, entity.version + 1, k - 1)
              /\ history'[i].type = "$join"
<1> DEFINE rows == Rows(spec, entity.version + 1, clock)
           j == i - Len(history)
<1>1. /\ IsSeq(history) /\ Len(history) \in Nat /\ DOMAIN history = 1..Len(history)
      /\ IsSeq(history') /\ DOMAIN history' = 1..Len(history')
  <2>1. TypeInv'
    <3>1. PICK refused \in {"idle", "scan"} : WriteEntity(w, spec, refused)
      BY DEF Writes
    <3>2. QED
      BY <3>1, WriteKeepsTypeInv DEF Writes, ConflictInv
  <2>2. IsSeq(history) /\ IsSeq(history')
    BY <2>1 DEF ConflictInv, TypeInv, TypeOK, StoreOK
  <2>3. QED
    BY <2>2, SeqDomain
<1>2. /\ Len(rows) \in Nat
      /\ Len(history') = Len(history) + Len(rows)
      /\ \A n \in 1..Len(rows) : history'[Len(history) + n] = rows[n]
  <2>1. IsSeq(rows) /\ Len(rows) \in Nat /\ history' = history \o rows
    BY WriteAppends
  <2> HIDE DEF rows
  <2>2. QED
    BY <1>1, <2>1, ConcatIsSeq
<1>3. /\ Len(rows) = 1 + Len(spec.fired)
      /\ rows[1].key = spec.key /\ rows[1].type = spec.type
      /\ rows[1].ts = spec.ts /\ rows[1].params = spec.params
      /\ \A k \in 1..Len(spec.fired) :
           /\ rows[1 + k].key = JoinIdentity(spec.fired[k].region, entity.version + 1, k - 1)
           /\ rows[1 + k].type = "$join"
  BY RowsOfWrite DEF Writes
<1>4. Len(spec.fired) \in Nat
  BY SeqDomain DEF Writes
<1> HIDE DEF rows
<1>5. j \in 1..Len(rows) /\ Len(history) + j = i
  BY <1>1, <1>2
<1>6. history'[i] = rows[j]
  BY <1>2, <1>5
<1>7. j = 1 \/ (j - 1 \in 1..Len(spec.fired) /\ 1 + (j - 1) = j)
  BY <1>3, <1>4, <1>5
<1>8. CASE j = 1
  BY <1>1, <1>3, <1>6, <1>8
<1>9. CASE j - 1 \in 1..Len(spec.fired) /\ 1 + (j - 1) = j
  <2>1. /\ rows[j].key = JoinIdentity(spec.fired[j - 1].region, entity.version + 1, (j - 1) - 1)
        /\ rows[j].type = "$join"
    BY <1>3, <1>9
  <2>2. i = Len(history) + 1 + (j - 1)
    BY <1>1, <1>9
  <2>3. QED
    BY <1>6, <1>9, <2>1, <2>2
<1>10. QED
  BY <1>7, <1>8, <1>9

\* The main rows after a write: those before it, and its own.
LEMMA WriteAddsOneMainRow ==
  ASSUME ConflictInv, NEW w \in Workers, NEW spec, Writes(w, spec)
  PROVE  /\ MainRows' = MainRows \union {Len(history) + 1}
         /\ Len(history) + 1 \notin DOMAIN history
<1>1. /\ Len(history) \in Nat /\ DOMAIN history = 1..Len(history)
      /\ DOMAIN history' = 1..Len(history')
  <2>1. TypeInv'
    <3>1. PICK refused \in {"idle", "scan"} : WriteEntity(w, spec, refused)
      BY DEF Writes
    <3>2. QED
      BY <3>1, WriteKeepsTypeInv DEF Writes, ConflictInv
  <2>2. IsSeq(history) /\ IsSeq(history')
    BY <2>1 DEF ConflictInv, TypeInv, TypeOK, StoreOK
  <2>3. QED
    BY <2>2, SeqDomain
<1>2. /\ Len(history') \in Nat /\ Len(history') > Len(history)
      /\ \A i \in 1..Len(history) : history'[i] = history[i]
  <2> DEFINE rows == Rows(spec, entity.version + 1, clock)
  <2>1. /\ Len(rows) \in Nat \ {0} /\ Len(history') = Len(history) + Len(rows)
        /\ \A i \in 1..Len(history) : history'[i] = history[i]
    BY WriteAppends
  <2> HIDE DEF rows
  <2>2. QED
    BY <1>1, <2>1
<1>3. spec.key.kind \in {"evt", "timeout"}
  BY DEF Writes, MainKeyOK, EventIdentity, TimeoutIdentity
<1>4. NoIdentity.kind = "null" /\ \A r, v, n : JoinIdentity(r, v, n).kind = "join"
  BY DEF NoIdentity, JoinIdentity
<1>5. ASSUME NEW i \in DOMAIN history', i \notin DOMAIN history
      PROVE  /\ i = Len(history) + 1 => history'[i].key # NoIdentity /\ history'[i].key.kind # "join"
             /\ i # Len(history) + 1 => history'[i].key.kind = "join"
  <2>1. CASE i = Len(history) + 1 /\ history'[i].key = spec.key
    BY <1>3, <1>4, <2>1
  <2>2. CASE \E k \in 1..Len(spec.fired) :
               /\ i = Len(history) + 1 + k
               /\ history'[i].key = JoinIdentity(spec.fired[k].region, entity.version + 1, k - 1)
    <3>1. PICK k \in 1..Len(spec.fired) :
            /\ i = Len(history) + 1 + k
            /\ history'[i].key = JoinIdentity(spec.fired[k].region, entity.version + 1, k - 1)
      BY <2>2
    <3>2. Len(spec.fired) \in Nat
      BY SeqDomain DEF Writes
    <3>3. i # Len(history) + 1
      BY <1>1, <3>1, <3>2
    <3>4. QED
      BY <1>4, <3>1, <3>3
  <2>3. QED
    BY <1>5, <2>1, <2>2, WrittenRow
<1>6. QED
  BY <1>1, <1>2, <1>5 DEF MainRows, Tracked

\* Every other step leaves the tables alone, but for the creation of the row
\* and the count of a dispatch.
LEMMA StepWritesOrNot ==
  ASSUME ConflictInv, [Next]_vars
  PROVE  \/ history' = history /\ (entity' = entity \/ entity = NoEntity)
         \/ \E w \in Workers : \E spec : Writes(w, spec)
<1>1. ASSUME NEW p \in Requests, ApplyEvent(p) PROVE \E w \in Workers : \E spec : Writes(w, spec)
  BY <1>1, ApplyEventWrites DEF ConflictInv, Workers
<1>2. ASSUME NEW s \in Schedulers, FireTimeout(s) PROVE \E w \in Workers : \E spec : Writes(w, spec)
  BY <1>2, FireTimeoutWrites DEF ConflictInv, Workers
<1>3. ASSUME NEW p \in Requests, RequestStep(p), ~ ApplyEvent(p)
      PROVE  history' = history /\ (entity' = entity \/ entity = NoEntity)
  BY <1>3 DEF RequestStep, LoadExisting, LoadMissing, CreateEntity, AnswerNotFound, BeginTx, Begin,
              RefuseRequest, Refuse, AnswerDuplicate, AnswerIdentityConflict, AnswerNoTransition,
              EndTx, ReturnActions, DispatchEvent, Dispatch, store
<1>4. ASSUME NEW s \in Schedulers, SchedulerStep(s), ~ FireTimeout(s)
      PROVE  history' = history /\ entity' = entity
  BY <1>4 DEF SchedulerStep, StartTick, EndTick, Scan, BeginFire, Begin, RefuseFire, Refuse,
              SkipTimeout, EndTx, DispatchTimeout, Dispatch, store
<1>5. ASSUME NEW p \in Requests, NEW ev \in Events, Submit(p, ev)
      PROVE  history' = history /\ entity' = entity
  BY <1>5 DEF Submit, store
<1>6. ASSUME NEW w \in Workers, Crash(w) PROVE history' = history /\ entity' = entity
  BY <1>6 DEF Crash, store
<1>7. CASE Tick \/ UNCHANGED vars
  BY <1>7 DEF Tick, vars, store
<1>8. QED
  BY <1>1, <1>2, <1>3, <1>4, <1>5, <1>6, <1>7 DEF Next

\* The history and the row of the entity move together, one write at a time:
\* OneWritePerStep, for every machine and every number of workers.
THEOREM HistoryAndRowMoveTogether == Spec => OneWritePerStep
<1> DEFINE Step ==
      /\ Len(history') >= Len(history)
      /\ SubSeq(history', 1, Len(history)) = history
      /\ IF history' = history
         THEN entity' = entity \/ entity = NoEntity
         ELSE /\ entity'.version = entity.version + 1
              /\ MainRows' \ MainRows = {Len(history) + 1}
<1>1. ASSUME ConflictInv, [Next]_vars PROVE Step
  <2>1. IsSeq(history) /\ Len(history) \in Nat /\ DOMAIN history = 1..Len(history)
    BY <1>1, SeqDomain DEF ConflictInv, TypeInv, TypeOK, StoreOK
  <2>2. SubSeq(history, 1, Len(history)) = history
    BY <2>1, PrefixIsSubSeq
  <2>3. CASE history' = history /\ (entity' = entity \/ entity = NoEntity)
    BY <2>1, <2>2, <2>3
  <2>4. CASE \E w \in Workers : \E spec : Writes(w, spec)
    <3> PICK w \in Workers : \E spec : Writes(w, spec)
      BY <2>4
    <3>1. PICK spec : Writes(w, spec)
      OBVIOUS
    <3> DEFINE rows == Rows(spec, entity.version + 1, clock)
    <3>2. /\ history' = history \o rows
          /\ IsSeq(rows) /\ Len(rows) \in Nat \ {0}
          /\ Len(history') = Len(history) + Len(rows)
          /\ \A i \in 1..Len(history) : history'[i] = history[i]
          /\ entity'.version = entity.version + 1
      BY <1>1, <3>1, WriteAppends
    <3> HIDE DEF rows
    <3>3. IsSeq(history')
      BY <2>1, <3>2, ConcatIsSeq
    <3>4. MainRows' \ MainRows = {Len(history) + 1} /\ history' # history
      <4>1. MainRows' = MainRows \union {Len(history) + 1} /\ Len(history) + 1 \notin DOMAIN history
        BY <1>1, <3>1, WriteAddsOneMainRow
      <4>2. Len(history) + 1 \notin MainRows
        BY <4>1 DEF MainRows, Tracked
      <4> HIDE DEF Step
      <4>3. history' # history
        <5>1. Len(history') = Len(history) + Len(rows) /\ Len(rows) \in Nat /\ Len(rows) # 0
          BY <3>2
        <5>2. SUFFICES ASSUME history' = history PROVE FALSE
          OBVIOUS
        <5>3. Len(history) = Len(history) + Len(rows)
          BY <5>1, <5>2
        <5>4. Len(history) \in Nat
          BY <2>1
        <5>5. QED
          BY <5>1, <5>3, <5>4
      <4>4. QED
        BY <4>1, <4>2, <4>3
    <3>5. SubSeq(history', 1, Len(history)) = history
      <4>1. Len(history) <= Len(history')
        BY <2>1, <3>2
      <4>2. QED
        BY <2>1, <3>2, <3>3, <4>1, PrefixIsSubSeq
    <3>6. Len(history') >= Len(history)
      BY <2>1, <3>2
    <3>7. QED
      BY <3>2, <3>4, <3>5, <3>6
  <2>5. QED
    BY <1>1, <2>3, <2>4, StepWritesOrNot
<1>2. ASSUME ConflictInv, [Next]_vars PROVE [Step]_vars
  BY <1>1, <1>2
<1>3. QED
  BY <1>2, ConflictInvariance, PTL DEF Spec, OneWritePerStep

-----------------------------------------------------------------------------
(* Dispatch.  A batch waits with exactly the worker that wrote it, and only *)
(* until that worker hands it out, so no row is handed out twice.           *)

DispatchInv ==
  /\ \A i \in DOMAIN history : sent[i] \in {0, 1}
  /\ \A i \in DOMAIN history : sent[i] = 1 => i \in MainRows
  /\ \A w \in Workers : phase[w] = "dispatch" <=> batch[w] # 0
  /\ \A w \in Workers : batch[w] # 0 => batch[w] \in MainRows /\ sent[batch[w]] = 0
  /\ \A v, w \in Workers : batch[v] # 0 /\ batch[v] = batch[w] => v = w

\* A step that moves no batch and dispatches nothing keeps it.
LEMMA QuietStepKeepsDispatchInv ==
  ASSUME DispatchInv, UNCHANGED <<history, sent, batch>>,
         \A w \in Workers : phase'[w] = "dispatch" <=> phase[w] = "dispatch"
  PROVE  DispatchInv'
BY DEF DispatchInv, MainRows, Tracked

\* A batch leaves its worker: dispatched, returned in the answer or lost.
LEMMA ReleaseKeepsDispatchInv ==
  ASSUME TypeInv, DispatchInv, NEW w \in Workers, history' = history,
         batch' = [batch EXCEPT ![w] = 0],
         \A v \in Workers : phase'[v] = "dispatch" <=> v # w /\ phase[v] = "dispatch",
         \/ sent' = sent
         \/ batch[w] # 0 /\ sent' = [sent EXCEPT ![batch[w]] = @ + 1]
  PROVE  DispatchInv'
<1>1. /\ batch \in [Workers -> 0..Len(history)]
      /\ sent \in Seq(Nat) /\ Len(sent) = Len(history) /\ DOMAIN history = 1..Len(history)
  BY SeqDomain DEF TypeInv, TypeOK, StoreOK, WorkersOK
<1>2. MainRows' = MainRows
  BY DEF MainRows, Tracked
<1>3. /\ batch'[w] = 0
      /\ \A v \in Workers : v # w => batch'[v] = batch[v]
  BY <1>1
<1>4. CASE sent' = sent
  BY <1>2, <1>3, <1>4 DEF DispatchInv
<1>5. CASE batch[w] # 0 /\ sent' = [sent EXCEPT ![batch[w]] = @ + 1]
  <2>1. batch[w] \in DOMAIN history /\ batch[w] \in MainRows /\ sent[batch[w]] = 0
    BY <1>5 DEF DispatchInv, MainRows, Tracked
  <2>2. \A i \in DOMAIN history : sent'[i] = IF i = batch[w] THEN 1 ELSE sent[i]
    BY <1>1, <1>5, <2>1
  <2>3. \A v \in Workers : v # w /\ batch[v] # 0 => batch[v] # batch[w]
    BY DEF DispatchInv
  <2>4. \A v \in Workers : batch[v] # 0 => batch[v] \in DOMAIN history
    BY DEF DispatchInv, MainRows, Tracked
  <2>5. QED
    BY <1>2, <1>3, <2>1, <2>2, <2>3, <2>4 DEF DispatchInv
<1>6. QED
  BY <1>4, <1>5

\* A write leaves its batch with its worker.
LEMMA WriteKeepsDispatchInv ==
  ASSUME ConflictInv, DispatchInv, NEW w \in Workers, NEW spec, Writes(w, spec)
  PROVE  DispatchInv'
<1> DEFINE n == Len(history) + 1
           added == Len(Rows(spec, entity.version + 1, clock))
<1>1. /\ batch \in [Workers -> 0..Len(history)] /\ DOMAIN phase = Workers
      /\ sent \in Seq(Nat) /\ Len(sent) = Len(history)
      /\ Len(history) \in Nat /\ DOMAIN history = 1..Len(history)
  BY SeqDomain DEF ConflictInv, TypeInv, TypeOK, StoreOK, WorkersOK
<1>2. /\ added \in Nat \ {0}
      /\ DOMAIN Rows(spec, entity.version + 1, clock) = 1..added
      /\ sent' = sent \o [k \in 1..added |-> 0]
      /\ batch' = [batch EXCEPT ![w] = n]
      /\ phase' = [phase EXCEPT ![w] = "dispatch"]
      /\ Len(history') = Len(history) + added
  <2>1. /\ IsSeq(Rows(spec, entity.version + 1, clock)) /\ added \in Nat \ {0}
        /\ sent' = sent \o [k \in DOMAIN Rows(spec, entity.version + 1, clock) |-> 0]
        /\ batch' = [batch EXCEPT ![w] = n]
        /\ phase' = [phase EXCEPT ![w] = "dispatch"]
        /\ Len(history') = Len(history) + added
    BY WriteAppends
  <2>2. DOMAIN Rows(spec, entity.version + 1, clock) = 1..added
    BY <2>1, SeqDomain
  <2>3. QED
    BY <2>1, <2>2
<1>3. MainRows' = MainRows \union {n} /\ n \notin DOMAIN history
  BY WriteAddsOneMainRow
<1>4. DOMAIN history' = 1..Len(history')
  <2>1. PICK refused \in {"idle", "scan"} : WriteEntity(w, spec, refused)
    BY DEF Writes
  <2>2. TypeInv'
    BY <2>1, WriteKeepsTypeInv DEF Writes, ConflictInv
  <2>3. IsSeq(history')
    BY <2>2 DEF TypeInv, TypeOK, StoreOK
  <2>4. QED
    BY <2>3, SeqDomain
<1> HIDE DEF added
<1>5. \A i \in 1..Len(history) + added : sent'[i] = IF i \in 1..Len(history) THEN sent[i] ELSE 0
  <2> DEFINE zeros == [k \in 1..added |-> 0]
  <2>1. zeros \in Seq(Nat) /\ Len(zeros) = added /\ \A k \in 1..added : zeros[k] = 0
    BY <1>2
  <2>2. sent' = sent \o zeros
    BY <1>2
  <2> HIDE DEF zeros
  <2>3. QED
    BY <1>1, <1>2, <2>1, <2>2
<1>6. \A i \in DOMAIN history' : i \in 1..Len(history) + added
  BY <1>2, <1>4
<1>7. /\ batch'[w] = n /\ n # 0 /\ phase'[w] = "dispatch"
      /\ \A v \in Workers : v # w => batch'[v] = batch[v] /\ phase'[v] = phase[v] /\ batch[v] # n
  BY <1>1, <1>2
<1>8. MainRows \subseteq 1..Len(history) /\ n \in 1..Len(history) + added /\ n \notin 1..Len(history)
  BY <1>1, <1>2 DEF MainRows, Tracked
<1>9. \A i \in DOMAIN history' : sent'[i] \in {0, 1} /\ (sent'[i] = 1 => i \in MainRows')
  BY <1>1, <1>3, <1>5, <1>6 DEF DispatchInv
<1>10. \A v \in Workers : phase'[v] = "dispatch" <=> batch'[v] # 0
  BY <1>7 DEF DispatchInv
<1>11. \A v \in Workers : batch'[v] # 0 => batch'[v] \in MainRows' /\ sent'[batch'[v]] = 0
  <2>1. \A i \in 1..Len(history) : i \in 1..Len(history) + added
    BY <1>1, <1>2
  <2>2. n \in MainRows' /\ sent'[n] = 0
    BY <1>3, <1>5, <1>8
  <2>3. ASSUME NEW v \in Workers, v # w, batch'[v] # 0
        PROVE  batch'[v] \in MainRows' /\ sent'[batch'[v]] = 0
    <3>1. batch'[v] = batch[v] /\ batch[v] \in MainRows /\ sent[batch[v]] = 0
      BY <1>7, <2>3 DEF DispatchInv
    <3>2. batch[v] \in 1..Len(history)
      BY <1>8, <3>1
    <3>3. QED
      BY <1>3, <1>5, <2>1, <3>1, <3>2
  <2>4. QED
    BY <1>7, <2>2, <2>3
<1>12. \A u, v \in Workers : batch'[u] # 0 /\ batch'[u] = batch'[v] => u = v
  BY <1>7 DEF DispatchInv
<1>13. QED
  BY <1>9, <1>10, <1>11, <1>12 DEF DispatchInv

\* Every step keeps it.
LEMMA NextKeepsDispatchInv ==
  ASSUME ConflictInv, DispatchInv, [Next]_vars
  PROVE  DispatchInv'
<1> phase \in [Workers -> {"idle", "load", "create", "begin", "scan", "fire", "tx", "dispatch"}]
  BY DEF ConflictInv, TypeInv, TypeOK, WorkersOK
<1>1. ASSUME NEW w \in Workers, NEW next, next # "dispatch", phase[w] # "dispatch",
             phase' = [phase EXCEPT ![w] = next], UNCHANGED <<history, sent, batch>>
      PROVE  DispatchInv'
  BY <1>1, QuietStepKeepsDispatchInv
<1>2. ASSUME NEW w \in Workers, NEW what, NEW next, next # "dispatch", Dispatch(w, what, next)
      PROVE  DispatchInv'
  <2>1. /\ history' = history /\ batch' = [batch EXCEPT ![w] = 0]
        /\ sent' = [sent EXCEPT ![batch[w]] = @ + 1] /\ batch[w] # 0
        /\ \A v \in Workers : phase'[v] = "dispatch" <=> v # w /\ phase[v] = "dispatch"
    BY <1>2 DEF Dispatch, Answer, DispatchInv
  <2>2. QED
    BY <2>1, ReleaseKeepsDispatchInv DEF ConflictInv
<1>3. ASSUME NEW p \in Requests, RequestStep(p) PROVE DispatchInv'
  <2> p \in Workers
    BY DEF Workers
  <2>1. CASE ApplyEvent(p)
    BY <2>1, ApplyEventWrites, WriteKeepsDispatchInv DEF ConflictInv
  <2>2. CASE DispatchEvent(p)
    BY <1>2, <2>2 DEF DispatchEvent
  <2>3. CASE ReturnActions(p)
    <3>1. /\ history' = history /\ batch' = [batch EXCEPT ![p] = 0] /\ sent' = sent
          /\ \A v \in Workers : phase'[v] = "dispatch" <=> v # p /\ phase[v] = "dispatch"
      BY <2>3 DEF ReturnActions, Answer, store
    <3>2. QED
      BY <3>1, ReleaseKeepsDispatchInv DEF ConflictInv
  <2>4. CASE LoadExisting(p) \/ LoadMissing(p) \/ CreateEntity(p) \/ AnswerNotFound(p)
    BY <1>1, <2>4 DEF LoadExisting, LoadMissing, CreateEntity, AnswerNotFound, Answer, store
  <2>5. CASE BeginTx(p) \/ RefuseRequest(p)
    BY <1>1, <2>5 DEF BeginTx, Begin, RefuseRequest, Refuse, Answer, store
  <2>6. CASE AnswerDuplicate(p) \/ AnswerIdentityConflict(p) \/ AnswerNoTransition(p)
    BY <1>1, <2>6 DEF AnswerDuplicate, AnswerIdentityConflict, AnswerNoTransition, EndTx, Answer, store
  <2>7. QED
    BY <1>3, <2>1, <2>2, <2>3, <2>4, <2>5, <2>6 DEF RequestStep
<1>4. ASSUME NEW s \in Schedulers, SchedulerStep(s) PROVE DispatchInv'
  <2> s \in Workers
    BY DEF Workers
  <2>1. CASE FireTimeout(s)
    BY <2>1, FireTimeoutWrites, WriteKeepsDispatchInv DEF ConflictInv
  <2>2. CASE DispatchTimeout(s)
    BY <1>2, <2>2 DEF DispatchTimeout
  <2>3. CASE StartTick(s) \/ EndTick(s) \/ BeginFire(s)
    BY <1>1, <2>3 DEF StartTick, EndTick, BeginFire, Begin, Answer, store
  <2>4. CASE RefuseFire(s) \/ SkipTimeout(s)
    BY <1>1, <2>4 DEF RefuseFire, Refuse, SkipTimeout, EndTx, Answer, store
  <2>5. CASE Scan(s)
    <3>1. PICK next \in {"fire", "scan"} : phase' = [phase EXCEPT ![s] = next]
      BY <2>5 DEF Scan
    <3>2. QED
      BY <1>1, <2>5, <3>1 DEF Scan, store
  <2>6. QED
    BY <1>4, <2>1, <2>2, <2>3, <2>4, <2>5 DEF SchedulerStep
<1>5. ASSUME NEW p \in Requests, NEW ev \in Events, Submit(p, ev) PROVE DispatchInv'
  <2> p \in Workers
    BY DEF Workers
  <2>1. QED
    BY <1>1, <1>5 DEF Submit, Answer, store
<1>6. ASSUME NEW w \in Workers, Crash(w) PROVE DispatchInv'
  <2>1. /\ history' = history /\ batch' = [batch EXCEPT ![w] = 0] /\ sent' = sent
        /\ \A v \in Workers : phase'[v] = "dispatch" <=> v # w /\ phase[v] = "dispatch"
    BY <1>6 DEF Crash, Answer, store
  <2>2. QED
    BY <2>1, ReleaseKeepsDispatchInv DEF ConflictInv
<1>7. CASE Tick \/ UNCHANGED vars
  BY <1>7, QuietStepKeepsDispatchInv DEF Tick, vars, store, worker
<1>8. QED
  BY <1>3, <1>4, <1>5, <1>6, <1>7 DEF Next

\* The batches a database starts with are none.
LEMMA InitDispatchInv == Init => DispatchInv
<1> SUFFICES ASSUME Init PROVE DispatchInv
  OBVIOUS
<1>1. \A i \in DOMAIN history : sent[i] = 0
  BY DEF Init
<1>2. \A w \in Workers : phase[w] = "idle" /\ batch[w] = 0
  BY DEF Init
<1>3. QED
  BY <1>1, <1>2 DEF DispatchInv

\* The actions of a committed write leave at most once and those of nothing
\* else ever do: DispatchedAtMostOnce, for every number of workers and crashes.
THEOREM ActionsLeaveAtMostOnce == Spec => []DispatchedAtMostOnce
<1>1. DispatchInv /\ TypeInv => DispatchedAtMostOnce
  <2> SUFFICES ASSUME DispatchInv, TypeInv, NEW i \in DOMAIN history
               PROVE  /\ sent[i] <= 1
                      /\ sent[i] = 1 => i \in MainRows
                      /\ sent[i] + Cardinality({w \in Workers : batch[w] = i}) <= 1
    BY DEF DispatchedAtMostOnce
  <2> DEFINE holders == {w \in Workers : batch[w] = i}
  <2>1. i # 0 /\ sent[i] \in {0, 1}
    BY SeqDomain DEF TypeInv, TypeOK, StoreOK, DispatchInv
  <2>2. CASE holders = {}
    <3>1. Cardinality(holders) = 0
      BY <2>2, FS_EmptySet
    <3> HIDE DEF holders
    <3>2. QED
      BY <2>1, <3>1 DEF DispatchInv, holders
  <2>3. CASE holders # {}
    <3>1. PICK w \in Workers : batch[w] = i
      BY <2>3
    <3>2. holders = {w} /\ sent[i] = 0
      BY <2>1, <3>1 DEF DispatchInv
    <3>3. Cardinality(holders) = 1
      BY <3>2, FS_Singleton
    <3> HIDE DEF holders
    <3>4. QED
      BY <3>2, <3>3 DEF DispatchInv, holders
  <2>4. QED
    BY <2>2, <2>3
<1>2. ConflictInv => TypeInv
  BY DEF ConflictInv
<1>3. QED
  BY <1>1, <1>2, InitDispatchInv, NextKeepsDispatchInv, ConflictInvariance, PTL DEF Spec

-----------------------------------------------------------------------------
(* Answers.                                                                *)

Recorded(ev) == \E i \in SameIdentity(history, ev) : history[i].params = ev.params

KeysAreUnique == \A i, j \in Tracked : history[i].key = history[j].key => i = j

\* What the answer of request p, given or on its way, says of the history.
AnswerOK(p) ==
  /\ phase[p] = "dispatch" => Recorded(request[p])
  /\ reply[p] \in {"applied", "duplicate"} => Recorded(request[p])
  /\ reply[p] = "identity_conflict" => SameIdentity(history, request[p]) # {} /\ ~ Recorded(request[p])

AnswerInv == KeysAreUnique /\ \A p \in Requests : AnswerOK(p)

\* A write never repeats an identity, neither a committed one nor its own.
LEMMA WriteKeepsKeysUnique ==
  ASSUME ConflictInv, KeysAreUnique, NEW w \in Workers, NEW spec, Writes(w, spec)
  PROVE  KeysAreUnique'
<1> DEFINE rows == Rows(spec, entity.version + 1, clock)
           n == Len(history)
           join(i, k) == /\ i = n + 1 + k
                         /\ history'[i].key = JoinIdentity(spec.fired[k].region, entity.version + 1, k - 1)
<1>1. n \in Nat /\ DOMAIN history = 1..n /\ DOMAIN history' = 1..Len(history')
  <2>1. PICK refused \in {"idle", "scan"} : WriteEntity(w, spec, refused)
    BY DEF Writes
  <2>2. TypeInv'
    BY <2>1, WriteKeepsTypeInv DEF Writes, ConflictInv
  <2>3. IsSeq(history) /\ IsSeq(history')
    BY <2>2 DEF ConflictInv, TypeInv, TypeOK, StoreOK
  <2>4. QED
    BY <2>3, SeqDomain
<1>2. /\ IsSeq(rows) /\ Len(rows) \in Nat
      /\ Len(history') = n + Len(rows)
      /\ \A i \in 1..n : history'[i] = history[i]
      /\ \A i \in 1..Len(rows) : history'[n + i] = rows[i]
  <2>1. rows = Rows(spec, entity.version + 1, clock) /\ n = Len(history)
    OBVIOUS
  <2> HIDE DEF n, join, rows
  <2>2. /\ IsSeq(rows) /\ Len(rows) \in Nat \ {0}
        /\ Len(history') = Len(history) + Len(rows)
        /\ \A i \in 1..Len(history) : history'[i] = history[i]
        /\ history' = history \o rows
    BY <2>1, WriteAppends
  <2>3. IsSeq(history)
    BY DEF ConflictInv, TypeInv, TypeOK, StoreOK
  <2>4. \A i \in 1..Len(rows) : history'[Len(history) + i] = rows[i]
    BY <2>2, <2>3, ConcatIsSeq
  <2>5. QED
    BY <2>1, <2>2, <2>4
<1>3. DOMAIN rows = 1..Len(rows)
  BY <1>2, SeqDomain
<1>4. ASSUME NEW i \in DOMAIN history', NEW j \in DOMAIN history, i \notin DOMAIN history
      PROVE  history'[i].key # history'[j].key
  <2>1. \A a \in DOMAIN rows, b \in DOMAIN history : rows[a].key # history[b].key
    BY DEF Writes, Conflicts
  <2> HIDE DEF rows
  <2>2. i - n \in DOMAIN rows /\ n + (i - n) = i
    BY <1>1, <1>2, <1>3, <1>4
  <2>3. history'[i] = rows[i - n] /\ history'[j] = history[j]
    BY <1>1, <1>2, <1>3, <2>2
  <2>4. QED
    BY <2>1, <2>2, <2>3
<1>5. spec.key.kind # "join"
  BY DEF Writes, MainKeyOK, EventIdentity, TimeoutIdentity
<1>6. ASSUME NEW i \in DOMAIN history', NEW j \in DOMAIN history',
             i \notin DOMAIN history, j \notin DOMAIN history, history'[i].key = history'[j].key
      PROVE  i = j
  <2>1. (i = n + 1 /\ history'[i].key = spec.key) \/ \E k \in 1..Len(spec.fired) : join(i, k)
    BY <1>6, WrittenRow
  <2>2. (j = n + 1 /\ history'[j].key = spec.key) \/ \E k \in 1..Len(spec.fired) : join(j, k)
    BY <1>6, WrittenRow
  <2>3. Len(spec.fired) \in Nat
    BY SeqDomain DEF Writes
  <2>4. \A r, v, m : JoinIdentity(r, v, m).kind = "join" /\ JoinIdentity(r, v, m).step = m
    BY DEF JoinIdentity
  <2>5. CASE \E k \in 1..Len(spec.fired) : join(i, k)
    <3>1. PICK k \in 1..Len(spec.fired) : join(i, k)
      BY <2>5
    <3>2. history'[i].key.kind = "join" /\ history'[i].key.step = k - 1
      BY <2>4, <3>1
    <3>3. PICK l \in 1..Len(spec.fired) : join(j, l)
      BY <1>5, <1>6, <2>2, <3>2
    <3>4. history'[j].key.step = l - 1
      BY <2>4, <3>3
    <3>5. k - 1 = l - 1
      BY <1>6, <3>2, <3>4
    <3>6. QED
      BY <2>3, <3>1, <3>3, <3>5
  <2>6. CASE i = n + 1 /\ history'[i].key = spec.key
    <3>1. \A k \in 1..Len(spec.fired) : ~ join(j, k)
      BY <1>5, <1>6, <2>4, <2>6
    <3>2. QED
      BY <2>2, <2>6, <3>1
  <2>7. QED
    BY <2>1, <2>5, <2>6
<1>7. \A i \in DOMAIN history : i \in DOMAIN history' /\ history'[i] = history[i]
  <2> HIDE DEF rows
  <2>1. QED
    BY <1>1, <1>2
<1>8. SUFFICES ASSUME NEW i \in DOMAIN history', NEW j \in DOMAIN history',
                      history'[i].key # NoIdentity, history'[j].key # NoIdentity,
                      history'[i].key = history'[j].key
               PROVE  i = j
  BY DEF KeysAreUnique, Tracked
<1>9. QED
  BY <1>4, <1>6, <1>7, <1>8 DEF KeysAreUnique, Tracked

\* A step that neither writes nor gives a telling answer keeps the answers.
LEMMA QuietStepKeepsAnswers ==
  ASSUME AnswerInv, history' = history,
         \A p \in Requests :
           \/ /\ request'[p] = request[p]
              /\ phase'[p] = "dispatch" => phase[p] = "dispatch"
              /\ reply'[p] \in {"applied", "duplicate", "identity_conflict"} => reply'[p] = reply[p]
           \/ /\ phase'[p] # "dispatch"
              /\ reply'[p] \notin {"applied", "duplicate", "identity_conflict"}
  PROVE  AnswerInv'
<1>1. KeysAreUnique'
  BY DEF AnswerInv, KeysAreUnique, Tracked
<1>2. ASSUME NEW ev
      PROVE  SameIdentity(history, ev)' = SameIdentity(history, ev) /\ (Recorded(ev)' <=> Recorded(ev))
  BY DEF Recorded, SameIdentity
<1>3. ASSUME NEW p \in Requests PROVE AnswerOK(p)'
  BY DEF AnswerInv, AnswerOK, Recorded, SameIdentity
<1>4. QED
  BY <1>1, <1>3 DEF AnswerInv

\* So does an answer that the history bears out.
LEMMA AnswerKeepsAnswers ==
  ASSUME TypeInv, AnswerInv, history' = history, request' = request, NEW p \in Requests, NEW what,
         phase' = [phase EXCEPT ![p] = "idle"], reply' = [reply EXCEPT ![p] = what],
         what \in {"applied", "duplicate"} => Recorded(request[p]),
         what = "identity_conflict" => SameIdentity(history, request[p]) # {} /\ ~ Recorded(request[p])
  PROVE  AnswerInv'
<1>1. KeysAreUnique'
  BY DEF AnswerInv, KeysAreUnique, Tracked
<1>2. DOMAIN phase = Workers /\ DOMAIN reply = Workers /\ Requests \subseteq Workers
  BY DEF TypeInv, TypeOK, WorkersOK, Workers
<1>3. ASSUME NEW q \in Requests PROVE AnswerOK(q)'
  <2>1. CASE q = p
    BY <1>2, <2>1 DEF AnswerOK, Recorded, SameIdentity
  <2>2. CASE q # p
    BY <1>2, <2>2 DEF AnswerInv, AnswerOK, Recorded, SameIdentity
  <2>3. QED
    BY <2>1, <2>2
<1>4. QED
  BY <1>1, <1>3 DEF AnswerInv

\* A write keeps the answers of the others: what is recorded stays recorded, and
\* the write of an event whose identity was free, or of a timeout, brings no
\* row of an identity that is taken.
LEMMA WriteKeepsAnswers ==
  ASSUME ConflictInv, AnswerInv, NEW w \in Workers, NEW spec, Writes(w, spec),
         NEW p \in Requests, p # w, request[p].type # "$join",
         SameIdentity(history, request[p]) # {} => request[p].type # spec.type \/ request[p].ts # spec.ts
  PROVE  AnswerOK(p)'
<1> DEFINE ev == request[p]
<1>1. /\ phase'[p] = phase[p] /\ reply'[p] = reply[p] /\ request'[p] = request[p]
      /\ \A i \in DOMAIN history : i \in DOMAIN history' /\ history'[i] = history[i]
  <2>1. /\ phase' = [phase EXCEPT ![w] = "dispatch"]
        /\ UNCHANGED <<reply, request>>
        /\ \A i \in 1..Len(history) : history'[i] = history[i]
        /\ \E k \in Nat : Len(history') = Len(history) + k
    BY WriteAppends
  <2>2. DOMAIN phase = Workers /\ p \in Workers
    BY DEF ConflictInv, TypeInv, TypeOK, WorkersOK, Workers
  <2>3. PICK refused \in {"idle", "scan"} : WriteEntity(w, spec, refused)
    BY DEF Writes
  <2>4. TypeInv'
    BY <2>3, WriteKeepsTypeInv DEF Writes, ConflictInv
  <2>5. IsSeq(history) /\ IsSeq(history')
    BY <2>4 DEF ConflictInv, TypeInv, TypeOK, StoreOK
  <2>6. Len(history) \in Nat /\ DOMAIN history = 1..Len(history) /\ DOMAIN history' = 1..Len(history')
    BY <2>5, SeqDomain
  <2>7. \A i \in DOMAIN history : i \in DOMAIN history' /\ history'[i] = history[i]
    BY <2>1, <2>6
  <2>8. QED
    BY <2>1, <2>2, <2>7
<1>2. Recorded(ev) => Recorded(request[p])'
  BY <1>1 DEF Recorded, SameIdentity
<1>3. SameIdentity(history, ev) # {} => SameIdentity(history, request[p])' = SameIdentity(history, ev)
  <2>1. SUFFICES ASSUME SameIdentity(history, ev) # {}, NEW i \in DOMAIN history', i \notin DOMAIN history
                 PROVE  ~ (history'[i].type = ev.type /\ history'[i].ts = ev.ts)
    BY <1>1 DEF SameIdentity
  <2>2. CASE history'[i].type = spec.type /\ history'[i].ts = spec.ts
    BY <2>1, <2>2
  <2>3. CASE history'[i].type = "$join"
    BY <2>3
  <2>4. QED
    BY <2>1, <2>2, <2>3, WrittenRow
<1>4. SameIdentity(history, ev) # {} /\ ~ Recorded(ev)
        => SameIdentity(history, request[p])' # {} /\ ~ Recorded(request[p])'
  BY <1>1, <1>3 DEF Recorded, SameIdentity
<1>5. AnswerOK(p)
  BY DEF AnswerInv
<1>6. QED
  BY <1>1, <1>2, <1>4, <1>5 DEF AnswerOK

\* Every step keeps the answers true, if no client uses the engine's own event
\* types.
LEMMA NextKeepsAnswers ==
  ASSUME \A ev \in Events : ev.type \notin {"$timeout", "$join"},
         ConflictInv, AnswerInv, [Next]_vars
  PROVE  AnswerInv'
<1> /\ phase \in [Workers -> {"idle", "load", "create", "begin", "scan", "fire", "tx", "dispatch"}]
    /\ DOMAIN reply = Workers
    /\ request \in [Requests -> Events]
    /\ Requests \subseteq Workers /\ Schedulers \subseteq Workers
    /\ Requests \intersect Schedulers = {}
  BY WorkersAssumption DEF ConflictInv, TypeInv, TypeOK, WorkersOK, Workers
<1> TypeInv
  BY DEF ConflictInv
<1>1. ASSUME NEW p \in Requests, RequestStep(p) PROVE AnswerInv'
  <2>1. CASE ApplyEvent(p)
    <3>1. PICK spec : /\ Writes(p, spec)
                      /\ spec.type = request[p].type
                      /\ spec.ts = request[p].ts
                      /\ spec.params = request[p].params
      BY <2>1, ApplyEventWrites DEF ConflictInv
    <3>2. SameIdentity(history, request[p]) = {}
      BY <2>1 DEF ApplyEvent, Dedup
    <3>3. ASSUME NEW q \in Requests, q # p PROVE AnswerOK(q)'
      <4>1. SameIdentity(history, request[q]) # {} =>
              request[q].type # spec.type \/ request[q].ts # spec.ts
        BY <3>1, <3>2 DEF SameIdentity
      <4>2. request[q].type # "$join"
        OBVIOUS
      <4>3. QED
        BY <3>1, <3>3, <4>1, <4>2, WriteKeepsAnswers
    <3>4. AnswerOK(p)'
      <4>1. /\ UNCHANGED <<reply, request>>
            /\ Len(history) + 1 \in DOMAIN history' /\ Len(history) + 1 \notin DOMAIN history
        <5>1. MainRows' = MainRows \union {Len(history) + 1} /\ Len(history) + 1 \notin DOMAIN history
          BY <3>1, WriteAddsOneMainRow
        <5>2. UNCHANGED <<reply, request>>
          BY <3>1, WriteAppends
        <5>3. QED
          BY <5>1, <5>2 DEF MainRows, Tracked
      <4> DEFINE i == Len(history) + 1
      <4>2. history'[i].type = spec.type /\ history'[i].ts = spec.ts /\ history'[i].params = spec.params
        <5>1. \A k \in 1..Len(spec.fired) : i # Len(history) + 1 + k
          <6>1. Len(spec.fired) \in Nat /\ Len(history) \in Nat
            BY <3>1, SeqDomain DEF Writes, TypeInv, TypeOK, StoreOK
          <6>2. QED
            BY <6>1
        <5> HIDE DEF i
        <5>2. i \in DOMAIN history' /\ i \notin DOMAIN history
          BY <4>1 DEF i
        <5>3. QED
          BY <3>1, <5>1, <5>2, WrittenRow
      <4> HIDE DEF i
      <4>3. i \in DOMAIN history'
        BY <4>1 DEF i
      <4>4. Recorded(request[p])'
        BY <3>1, <4>1, <4>2, <4>3 DEF Recorded, SameIdentity
      <4>5. reply'[p] # "identity_conflict"
        BY <3>2, <4>1 DEF AnswerInv, AnswerOK
      <4>6. QED
        BY <4>4, <4>5 DEF AnswerOK
    <3>5. KeysAreUnique'
      BY <3>1, WriteKeepsKeysUnique DEF AnswerInv
    <3>6. QED
      BY <3>3, <3>4, <3>5 DEF AnswerInv
  <2>2. CASE DispatchEvent(p) \/ ReturnActions(p)
    <3>1. /\ history' = history /\ request' = request /\ phase[p] = "dispatch"
          /\ phase' = [phase EXCEPT ![p] = "idle"] /\ reply' = [reply EXCEPT ![p] = "applied"]
      BY <2>2 DEF DispatchEvent, Dispatch, ReturnActions, Answer, store
    <3>2. Recorded(request[p])
      BY <3>1 DEF AnswerInv, AnswerOK
    <3>3. QED
      BY <3>1, <3>2, AnswerKeepsAnswers
  <2>3. CASE AnswerDuplicate(p)
    <3>1. Recorded(request[p])
      BY <2>3 DEF AnswerDuplicate, Dedup, Recorded
    <3>2. /\ history' = history /\ request' = request
          /\ phase' = [phase EXCEPT ![p] = "idle"] /\ reply' = [reply EXCEPT ![p] = "duplicate"]
      BY <2>3 DEF AnswerDuplicate, EndTx, Answer, store
    <3>3. QED
      BY <3>1, <3>2, AnswerKeepsAnswers
  <2>4. CASE AnswerIdentityConflict(p)
    <3>1. SameIdentity(history, request[p]) # {} /\ ~ Recorded(request[p])
      BY <2>4 DEF AnswerIdentityConflict, Dedup, Recorded
    <3>2. /\ history' = history /\ request' = request
          /\ phase' = [phase EXCEPT ![p] = "idle"] /\ reply' = [reply EXCEPT ![p] = "identity_conflict"]
      BY <2>4 DEF AnswerIdentityConflict, EndTx, Answer, store
    <3>3. QED
      BY <3>1, <3>2, AnswerKeepsAnswers
  <2>5. CASE AnswerNoTransition(p) \/ AnswerNotFound(p) \/ RefuseRequest(p)
    <3>1. PICK what \in {"no_transition", "not_found", "locked"} :
            /\ history' = history /\ request' = request
            /\ phase' = [phase EXCEPT ![p] = "idle"] /\ reply' = [reply EXCEPT ![p] = what]
      BY <2>5 DEF AnswerNoTransition, EndTx, AnswerNotFound, RefuseRequest, Refuse, Answer, store
    <3>2. what \notin {"applied", "duplicate", "identity_conflict"}
      OBVIOUS
    <3>3. QED
      BY <3>1, <3>2, AnswerKeepsAnswers
  <2>6. CASE LoadExisting(p) \/ LoadMissing(p) \/ CreateEntity(p) \/ BeginTx(p)
    <3>1. PICK next \in {"begin", "create", "tx"} :
            /\ UNCHANGED <<history, request, reply>> /\ phase' = [phase EXCEPT ![p] = next]
      BY <2>6 DEF LoadExisting, LoadMissing, CreateEntity, BeginTx, Begin, store
    <3>2. QED
      BY <3>1, QuietStepKeepsAnswers
  <2>7. QED
    BY <1>1, <2>1, <2>2, <2>3, <2>4, <2>5, <2>6 DEF RequestStep
<1>2. ASSUME NEW s \in Schedulers, SchedulerStep(s) PROVE AnswerInv'
  <2>1. CASE FireTimeout(s)
    <3>1. PICK spec : Writes(s, spec) /\ spec.type = "$timeout"
      BY <2>1, FireTimeoutWrites DEF ConflictInv
    <3>2. ASSUME NEW q \in Requests PROVE AnswerOK(q)'
      <4>1. request[q].type # "$join" /\ request[q].type # spec.type /\ q # s
        BY <3>1
      <4>2. QED
        BY <3>1, <4>1, WriteKeepsAnswers
    <3>3. KeysAreUnique'
      BY <3>1, WriteKeepsKeysUnique DEF AnswerInv
    <3>4. QED
      BY <3>2, <3>3 DEF AnswerInv
  <2>2. CASE ~ FireTimeout(s)
    <3>1. UNCHANGED <<history, request>>
      BY <1>2, <2>2
         DEF SchedulerStep, StartTick, EndTick, Scan, BeginFire, Begin, RefuseFire, Refuse,
             SkipTimeout, EndTx, DispatchTimeout, Dispatch, store
    <3>2. \A q \in Requests : phase'[q] = phase[q] /\ reply'[q] = reply[q]
      BY <1>2, <2>2
         DEF SchedulerStep, StartTick, EndTick, Scan, BeginFire, Begin, RefuseFire, Refuse,
             SkipTimeout, EndTx, DispatchTimeout, Dispatch, Answer
    <3>3. QED
      BY <3>1, <3>2, QuietStepKeepsAnswers
  <2>3. QED
    BY <2>1, <2>2
<1>3. ASSUME NEW p \in Requests, NEW ev \in Events, Submit(p, ev) PROVE AnswerInv'
  <2>1. /\ history' = history /\ request' = [request EXCEPT ![p] = ev]
        /\ phase' = [phase EXCEPT ![p] = "load"] /\ reply' = [reply EXCEPT ![p] = "none"]
    BY <1>3 DEF Submit, Answer, store
  <2>2. QED
    BY <2>1, QuietStepKeepsAnswers
<1>4. ASSUME NEW w \in Workers, Crash(w) PROVE AnswerInv'
  <2>1. /\ UNCHANGED <<history, request>>
        /\ phase' = [phase EXCEPT ![w] = "idle"] /\ reply' = [reply EXCEPT ![w] = "none"]
    BY <1>4 DEF Crash, Answer, store
  <2>2. QED
    BY <2>1, QuietStepKeepsAnswers
<1>5. CASE Tick \/ UNCHANGED vars
  <2>1. UNCHANGED <<history, request, phase, reply>>
    BY <1>5 DEF Tick, vars, store, worker
  <2>2. QED
    BY <2>1, QuietStepKeepsAnswers
<1>6. QED
  BY <1>1, <1>2, <1>3, <1>4, <1>5 DEF Next

\* Nothing was answered and no row has an identity.
LEMMA InitAnswerInv == Init => AnswerInv
<1> SUFFICES ASSUME Init PROVE AnswerInv
  OBVIOUS
<1>1. \A i \in DOMAIN history : history[i].key = NoIdentity
  BY StoresAssumption DEF Init
<1>2. KeysAreUnique
  BY <1>1 DEF KeysAreUnique, Tracked
<1>3. \A p \in Requests : phase[p] = "idle" /\ reply[p] = "none"
  BY DEF Init, Workers
<1>4. QED
  BY <1>2, <1>3 DEF AnswerInv, AnswerOK

\* Clients are told the truth for good, and no identity is recorded twice:
\* AnswersAreTruthful, for every machine and every number of clients that replay
\* and contradict each other, as long as none of them submits an event under one
\* of the engine's own types.
THEOREM AnswersStayTrue ==
  ASSUME \A ev \in Events : ev.type \notin {"$timeout", "$join"}
  PROVE  Spec => []AnswersAreTruthful
<1>1. AnswerInv => AnswersAreTruthful
  BY DEF AnswerInv, AnswerOK, KeysAreUnique, AnswersAreTruthful, Recorded
<1>2. ConflictInv /\ AnswerInv /\ [Next]_vars => AnswerInv'
  BY NextKeepsAnswers
<1>3. QED
  BY <1>1, <1>2, InitAnswerInv, ConflictInvariance, PTL DEF Spec

-----------------------------------------------------------------------------
(* The refinement.                                                         *)
\* What a pass carries from its start to its transaction: a clock reading that
\* is not in the future and, once it has a candidate, the timer it is for.
PassInv ==
  \A s \in Schedulers :
    /\ tick[s] \in 0..clock
    /\ phase[s] \in {"fire", "tx"} =>
         cursor[s] \in DOMAIN Machine.transitions /\ IsTimeout(cursor[s])

\* Every step keeps it.
LEMMA NextKeepsPassInv ==
  ASSUME TypeInv, PassInv, [Next]_vars
  PROVE  PassInv'
<1> USE DEF PassInv
<1>1. /\ clock \in Nat /\ DOMAIN phase = Workers
      /\ DOMAIN tick = Schedulers /\ DOMAIN cursor = Schedulers
  BY BoundsAssumption DEF TypeInv, TypeOK, StoreOK, WorkersOK
<1>2. ASSUME NEW w \in Workers, NEW next, UNCHANGED <<clock, tick, cursor>>,
             phase' = [phase EXCEPT ![w] = next],
             w \notin Schedulers \/ next \notin {"fire", "tx"} \/ phase[w] = "fire"
      PROVE  PassInv'
  BY <1>1, <1>2
<1>3. ASSUME NEW w \in Workers, NEW spec, NEW refused, refused \notin {"fire", "tx"},
             WriteEntity(w, spec, refused)
      PROVE  PassInv'
  <2>1. PICK next \in {"dispatch", refused} : phase' = [phase EXCEPT ![w] = next]
    BY <1>3 DEF WriteEntity, Answer
  <2>2. UNCHANGED <<clock, tick, cursor>>
    BY <1>3 DEF WriteEntity
  <2>3. QED
    BY <1>2, <1>3, <2>1, <2>2
<1>4. ASSUME NEW p \in Requests, RequestStep(p) PROVE PassInv'
  <2> p \in Workers /\ p \notin Schedulers
    BY WorkersAssumption DEF Workers
  <2>1. CASE ApplyEvent(p)
    BY <1>3, <2>1 DEF ApplyEvent
  <2>2. CASE LoadExisting(p) \/ LoadMissing(p) \/ CreateEntity(p) \/ AnswerNotFound(p)
    BY <1>2, <2>2 DEF LoadExisting, LoadMissing, CreateEntity, AnswerNotFound, Answer
  <2>3. CASE BeginTx(p) \/ RefuseRequest(p)
    BY <1>2, <2>3 DEF BeginTx, Begin, RefuseRequest, Refuse, Answer
  <2>4. CASE AnswerDuplicate(p) \/ AnswerIdentityConflict(p) \/ AnswerNoTransition(p)
    BY <1>2, <2>4 DEF AnswerDuplicate, AnswerIdentityConflict, AnswerNoTransition, EndTx, Answer
  <2>5. CASE ReturnActions(p) \/ DispatchEvent(p)
    BY <1>2, <2>5 DEF ReturnActions, DispatchEvent, Dispatch, Answer
  <2>6. QED
    BY <1>4, <2>1, <2>2, <2>3, <2>4, <2>5 DEF RequestStep
<1>5. ASSUME NEW s \in Schedulers, SchedulerStep(s) PROVE PassInv'
  <2> s \in Workers
    BY DEF Workers
  <2>1. CASE StartTick(s) \/ EndTick(s)
    <3>1. /\ clock' = clock /\ clock \in Nat
          /\ phase'[s] \notin {"fire", "tx"} /\ tick'[s] \in {0, clock}
          /\ \A v \in Schedulers : v # s => /\ phase'[v] = phase[v] /\ tick'[v] = tick[v]
                                          /\ cursor'[v] = cursor[v]
      BY <1>1, <2>1 DEF StartTick, EndTick, Answer, Workers
    <3> HIDE <1>1, <2>1
    <3>2. tick'[s] \in 0..clock'
      BY <3>1
    <3>3. QED
      BY <3>1, <3>2
  <2>2. CASE Scan(s)
    BY <1>1, <2>2 DEF Scan, Remaining
  <2>3. CASE BeginFire(s) \/ RefuseFire(s)
    BY <1>2, <2>3 DEF BeginFire, Begin, RefuseFire, Refuse, Answer
  <2>4. CASE SkipTimeout(s) \/ DispatchTimeout(s)
    BY <1>2, <2>4 DEF SkipTimeout, EndTx, DispatchTimeout, Dispatch, Answer
  <2>5. CASE FireTimeout(s)
    BY <1>3, <2>5 DEF FireTimeout
  <2>6. QED
    BY <1>5, <2>1, <2>2, <2>3, <2>4, <2>5 DEF SchedulerStep
<1>6. ASSUME NEW p \in Requests, NEW ev \in Events, Submit(p, ev) PROVE PassInv'
  BY <1>2, <1>6, WorkersAssumption DEF Submit, Answer, Workers
<1>7. ASSUME NEW w \in Workers, Crash(w) PROVE PassInv'
  BY <1>2, <1>7 DEF Crash, Answer
<1>8. CASE Tick \/ UNCHANGED vars
  BY <1>1, <1>8 DEF Tick, vars, worker
<1>9. QED
  BY <1>4, <1>5, <1>6, <1>7, <1>8 DEF Next

\* No pass is under way at first.
LEMMA InitPassInv == Init => PassInv
BY DEF Init, PassInv, Workers

AtomicInv == ConflictInv /\ DispatchInv /\ PassInv

\* What the refinement rests on holds in every reachable state.
LEMMA AtomicInvariance == Spec => []AtomicInv
<1>1. ConflictInv => TypeInv
  BY DEF ConflictInv
<1>2. QED
  BY <1>1, ConflictInvariance, InitDispatchInv, NextKeepsDispatchInv, InitPassInv,
     NextKeepsPassInv, PTL DEF Spec, AtomicInv

-----------------------------------------------------------------------------
(* One lemma for each way a step is seen from outside.                     *)

Handed == {i \in DOMAIN sent : sent[i] > 0}
Status == [p \in Requests |-> StatusOf(p)]
Replies == [p \in Requests |-> reply[p]]

\* A request between its arrival and its commit, and every step of a pass that
\* writes nothing: nothing is seen.
LEMMA HiddenStep ==
  ASSUME TypeInv, UNCHANGED <<entity, history, sent, clock, request, batch>>,
         Status' = Status, Replies' = Replies
  PROVE  UNCHANGED Atomic!avars
BY DEF Atomic!avars, Atomic!tables, Status, Replies

\* A client's phase moves and no other worker's does.
LEMMA StatusMoves ==
  ASSUME TypeInv, NEW w \in Workers, NEW next, phase' = [phase EXCEPT ![w] = next]
  PROVE  /\ w \notin Requests => Status' = Status
         /\ next = "idle" => Status' = [Status EXCEPT ![w] = "idle"]
         /\ next = "dispatch" => Status' = [Status EXCEPT ![w] = "served"]
         /\ next \notin {"idle", "dispatch"} => Status' = [Status EXCEPT ![w] = "asked"]
<1>1. DOMAIN phase = Workers
  BY DEF TypeInv, TypeOK, WorkersOK
<1>2. ASSUME NEW p \in Requests
      PROVE  StatusOf(p)' = IF p # w THEN StatusOf(p)
                            ELSE IF next = "idle" THEN "idle"
                            ELSE IF next = "dispatch" THEN "served" ELSE "asked"
  BY <1>1, <1>2 DEF StatusOf, Workers
<1>3. QED
  BY <1>2 DEF Status

\* A committed write is one Write of the atomic entity.
LEMMA WriteIsAtomic ==
  ASSUME AtomicInv, NEW w \in Workers, NEW spec, Writes(w, spec),
         NEW steps, AfterWrite(entity, history, spec, clock) \in steps
  PROVE  Atomic!Write(w, steps) /\ phase' = [phase EXCEPT ![w] = "dispatch"]
<1> DEFINE rows == Rows(spec, entity.version + 1, clock)
           new  == AfterWrite(entity, history, spec, clock)
<1>1. TypeInv /\ ConflictInv /\ DispatchInv
  BY DEF AtomicInv, ConflictInv
<1>2. snap[w] = entity /\ entity # NoEntity /\ batch[w] = 0
  BY <1>1 DEF Writes, TypeInv, LockInv, DispatchInv
<1>3. PICK refused : WriteEntity(w, spec, refused)
  BY DEF Writes
<1>4. /\ entity' = Written(entity, spec.states, spec.context, Entered(rows, Len(history) + 1), clock)
      /\ history' = history \o rows
      /\ sent' = sent \o [k \in DOMAIN rows |-> 0]
      /\ batch' = [batch EXCEPT ![w] = Len(history) + 1]
      /\ phase' = [phase EXCEPT ![w] = "dispatch"]
      /\ UNCHANGED <<reply, request, clock>>
  BY <1>2, <1>3 DEF WriteEntity, Writes
<1>5. entity' = new.entity /\ history' = new.history
  BY <1>4 DEF AfterWrite
<1>6. Handed' = Handed
  <2> DEFINE zeros == [k \in DOMAIN rows |-> 0]
  <2>1. IsSeq(sent) /\ IsSeq(rows) /\ IsSeq(zeros)
    <3>1. IsSeq(sent)
      BY <1>1, SeqIsSeq DEF TypeInv, TypeOK, StoreOK
    <3>2. IsSeq(rows) /\ DOMAIN rows = 1..Len(rows) /\ Len(rows) \in Nat
      BY <1>1, WriteAppends, SeqDomain
    <3> HIDE DEF rows
    <3>3. IsSeq(zeros)
      BY <3>2, FunctionIsSeq
    <3>4. QED
      BY <3>1, <3>2, <3>3
  <2>2. /\ DOMAIN sent = 1..Len(sent) /\ Len(sent) \in Nat
        /\ DOMAIN zeros = 1..Len(zeros) /\ Len(zeros) \in Nat
        /\ \A n \in DOMAIN zeros : zeros[n] = 0
    BY <2>1, SeqDomain
  <2> HIDE DEF zeros
  <2>3. /\ DOMAIN sent' = 1..Len(sent')
        /\ Len(sent') = Len(sent) + Len(zeros)
        /\ \A i \in 1..Len(sent) : sent'[i] = sent[i]
        /\ \A n \in 1..Len(zeros) : sent'[Len(sent) + n] = zeros[n]
    <3>1. sent' = sent \o zeros
      BY <1>4 DEF zeros
    <3>2. IsSeq(sent')
      BY <2>1, <3>1, ConcatIsSeq
    <3>3. QED
      BY <2>1, <3>1, <3>2, ConcatIsSeq, SeqDomain
  <2>4. ASSUME NEW i \in DOMAIN sent', i \notin DOMAIN sent PROVE sent'[i] = 0
    <3>1. i - Len(sent) \in 1..Len(zeros) /\ Len(sent) + (i - Len(sent)) = i
      BY <2>2, <2>3, <2>4
    <3>2. QED
      BY <2>2, <2>3, <3>1
  <2>5. QED
    BY <2>2, <2>3, <2>4 DEF Handed
<1>7. Replies' = Replies
  BY <1>4 DEF Replies
<1> HIDE DEF new
<1>8. QED
  BY <1>2, <1>4, <1>5, <1>6, <1>7 DEF Atomic!Write, Handed, Replies, new

\* An answer the tables justify is a refusal of the atomic entity.
LEMMA RefusalIsAtomic ==
  ASSUME TypeInv, NEW p \in Requests, NEW what \in Refusals(entity, history, request[p]),
         phase[p] \notin {"idle", "dispatch"},
         Answer(p, what, "idle"), UNCHANGED <<entity, history, sent, clock, request, batch>>
  PROVE  Atomic!Refuse(p)
<1>1. phase' = [phase EXCEPT ![p] = "idle"] /\ reply' = [reply EXCEPT ![p] = what]
  BY DEF Answer
<1>2. Status' = [Status EXCEPT ![p] = "idle"] /\ Status[p] = "asked"
  BY <1>1, StatusMoves DEF Workers, Status, StatusOf
<1>3. Replies' = [Replies EXCEPT ![p] = what]
  BY <1>1 DEF Replies, TypeInv, TypeOK, WorkersOK, Workers
<1>4. QED
  BY <1>2, <1>3 DEF Atomic!Refuse, Atomic!tables, Status, Replies

\* dispatch_committed hands over a batch that was never handed over.
LEMMA DispatchHandsOver ==
  ASSUME AtomicInv, NEW w \in Workers, NEW what, NEW next, Dispatch(w, what, next)
  PROVE  Atomic!HandOver(w)
<1>1. /\ sent \in Seq(Nat) /\ Len(sent) = Len(history) /\ DOMAIN sent = DOMAIN history
      /\ batch[w] \in MainRows /\ batch[w] \in DOMAIN history /\ batch[w] # 0 /\ sent[batch[w]] = 0
  BY SeqDomain DEF AtomicInv, ConflictInv, TypeInv, TypeOK, StoreOK, DispatchInv, Dispatch, MainRows,
     Tracked
<1>2. sent' = [sent EXCEPT ![batch[w]] = @ + 1]
  BY DEF Dispatch
<1>3. sent' = [sent EXCEPT ![batch[w]] = 1]
  BY <1>1, <1>2
<1>4. Handed' = Handed \union {batch[w]} /\ batch[w] \notin Handed
  BY <1>1, <1>3 DEF Handed
<1>5. QED
  BY <1>1, <1>4 DEF Atomic!HandOver, Handed

-----------------------------------------------------------------------------
(* Every step is a step of the atomic entity or leaves it alone.           *)

\* A step of a request.
LEMMA RequestStepIsAtomic ==
  ASSUME AtomicInv, NEW p \in Requests, RequestStep(p)
  PROVE  Atomic!Next \/ UNCHANGED Atomic!avars
<1>1. TypeInv /\ p \in Workers /\ DOMAIN phase = Workers /\ DOMAIN reply = Workers
  BY DEF AtomicInv, ConflictInv, TypeInv, TypeOK, WorkersOK, Workers
<1> HIDE DEF AtomicInv
<1>2. SUFFICES \/ Atomic!Create(p) \/ Atomic!Serve(p) \/ Atomic!Refuse(p) \/ Atomic!Finish(p)
               \/ UNCHANGED Atomic!avars
  BY DEF Atomic!Next
<1>3. ASSUME NEW next, next \notin {"idle", "dispatch"}, phase' = [phase EXCEPT ![p] = next],
             phase[p] \notin {"idle", "dispatch"}
      PROVE  Status' = Status
  BY <1>1, <1>3, StatusMoves DEF Status, StatusOf
<1>4. CASE LoadExisting(p) \/ LoadMissing(p) \/ BeginTx(p)
  <2>1. UNCHANGED <<entity, history, sent, clock, request, batch, reply>>
    BY <1>4 DEF LoadExisting, LoadMissing, BeginTx, Begin, store
  <2>2. Status' = Status
    BY <1>3, <1>4 DEF LoadExisting, LoadMissing, BeginTx, Begin
  <2>3. QED
    BY <1>1, <2>1, <2>2, HiddenStep DEF Replies
<1>5. CASE CreateEntity(p)
  <2>1. UNCHANGED <<history, sent, clock, request, batch, reply>>
    BY <1>5 DEF CreateEntity
  <2>2. Status' = Status
    BY <1>3, <1>5 DEF CreateEntity
  <2>3. CASE entity # NoEntity
    BY <1>1, <1>5, <2>1, <2>2, <2>3, HiddenStep DEF CreateEntity, Replies
  <2>4. CASE entity = NoEntity
    <3>1. Status[p] = "asked"
      BY <1>5 DEF CreateEntity, Status, StatusOf
    <3>2. Atomic!Create(p)
      BY <1>5, <2>1, <2>2, <2>4, <3>1 DEF CreateEntity, Atomic!Create, Status, Replies
    <3>3. QED
      BY <3>2
  <2>5. QED
    BY <2>3, <2>4
<1>6. CASE AnswerNotFound(p)
  <2>1. "not_found" \in Refusals(entity, history, request[p])
    BY <1>6 DEF AnswerNotFound, Refusals
  <2>2. QED
    BY <1>1, <1>6, <2>1, RefusalIsAtomic DEF AnswerNotFound, store
<1>7. CASE RefuseRequest(p)
  <2>1. "locked" \in Refusals(entity, history, request[p])
    BY DEF Refusals
  <2>2. QED
    BY <1>1, <1>7, <2>1, RefusalIsAtomic DEF RefuseRequest, Refuse, store
<1>8. CASE AnswerDuplicate(p) \/ AnswerIdentityConflict(p) \/ AnswerNoTransition(p)
  <2>1. phase[p] = "tx" /\ entity # NoEntity /\ snap[p] = entity
    BY <1>1, <1>8 DEF AnswerDuplicate, AnswerIdentityConflict, AnswerNoTransition, TypeInv, LockInv
  <2>2. PICK what \in Refusals(entity, history, request[p]) : EndTx(p, what, "idle")
    BY <1>8, <2>1 DEF AnswerDuplicate, AnswerIdentityConflict, AnswerNoTransition, Refusals
  <2>3. QED
    BY <1>1, <2>1, <2>2, RefusalIsAtomic DEF EndTx, store
<1>9. CASE ApplyEvent(p)
  <2>1. PICK spec : /\ Writes(p, spec)
                    /\ \E t \in MatchOf(entity, request[p]) : spec \in EventWrites(entity, request[p], t)
    BY <1>9, ApplyEventWrites DEF AtomicInv, ConflictInv
  <2>2. phase[p] = "tx" /\ Dedup(history, request[p]) = "new"
    BY <1>9 DEF ApplyEvent
  <2>3. AfterWrite(entity, history, spec, clock) \in EventSteps(entity, history, request[p], clock)
    BY <2>1, <2>2 DEF EventSteps
  <2>4. /\ Atomic!Write(p, EventSteps(entity, history, request[p], clock))
        /\ phase' = [phase EXCEPT ![p] = "dispatch"]
    BY <1>1, <2>1, <2>3, WriteIsAtomic
  <2>5. Status' = [Status EXCEPT ![p] = "served"] /\ Status[p] = "asked"
    BY <1>1, <2>2, <2>4, StatusMoves DEF Status, StatusOf
  <2>6. Atomic!Serve(p)
    BY <2>4, <2>5 DEF Atomic!Serve, Status
  <2>7. QED
    BY <2>6
<1>10. CASE ReturnActions(p) \/ DispatchEvent(p)
  <2>1. /\ phase[p] = "dispatch" /\ Answer(p, "applied", "idle")
        /\ batch' = [batch EXCEPT ![p] = 0]
        /\ UNCHANGED <<entity, history, clock, request>>
    BY <1>10 DEF ReturnActions, DispatchEvent, Dispatch, store
  <2>2. Status' = [Status EXCEPT ![p] = "idle"] /\ Status[p] = "served"
    BY <1>1, <2>1, StatusMoves DEF Status, StatusOf, Answer
  <2>3. Replies' = [Replies EXCEPT ![p] = "applied"]
    BY <1>1, <2>1 DEF Replies, Answer, Workers
  <2>4. IF request[p].dispatch THEN Atomic!HandOver(p) ELSE UNCHANGED Handed
    <3>1. CASE DispatchEvent(p)
      BY <1>1, <3>1, DispatchHandsOver DEF DispatchEvent
    <3>2. CASE ReturnActions(p)
      BY <3>2 DEF ReturnActions, Handed, store
    <3>3. QED
      BY <1>10, <3>1, <3>2
  <2>5. Atomic!Finish(p)
    BY <2>1, <2>2, <2>3, <2>4 DEF Atomic!Finish, Atomic!tables, Status, Replies, Handed
  <2>6. QED
    BY <2>5
<1>11. QED
  BY <1>4, <1>5, <1>6, <1>7, <1>8, <1>9, <1>10 DEF RequestStep

\* A step of a scheduler.
LEMMA SchedulerStepIsAtomic ==
  ASSUME AtomicInv, NEW s \in Schedulers, SchedulerStep(s)
  PROVE  Atomic!Next \/ UNCHANGED Atomic!avars
<1>1. /\ TypeInv /\ s \in Workers /\ s \notin Requests
      /\ DOMAIN phase = Workers /\ DOMAIN reply = Workers
  BY WorkersAssumption DEF AtomicInv, ConflictInv, TypeInv, TypeOK, WorkersOK, Workers
<1> HIDE DEF AtomicInv
<1>2. ASSUME NEW next, phase' = [phase EXCEPT ![s] = next] PROVE Status' = Status
  BY <1>1, <1>2, StatusMoves
<1>3. ASSUME reply' = reply \/ \E what : reply' = [reply EXCEPT ![s] = what]
      PROVE  Replies' = Replies
  BY <1>1, <1>3 DEF Replies, Workers
<1>4. CASE StartTick(s) \/ EndTick(s) \/ Scan(s) \/ BeginFire(s) \/ RefuseFire(s) \/ SkipTimeout(s)
  <2>1. UNCHANGED <<entity, history, sent, clock, request, batch>>
    BY <1>4 DEF StartTick, EndTick, Scan, BeginFire, Begin, RefuseFire, Refuse, SkipTimeout, EndTx,
                store
  <2>2. \E next : phase' = [phase EXCEPT ![s] = next]
    BY <1>4 DEF StartTick, EndTick, Scan, BeginFire, Begin, RefuseFire, Refuse, SkipTimeout, EndTx,
                Answer
  <2>3. reply' = reply \/ \E what : reply' = [reply EXCEPT ![s] = what]
    BY <1>4 DEF StartTick, EndTick, Scan, BeginFire, Begin, RefuseFire, Refuse, SkipTimeout, EndTx,
                Answer
  <2>4. QED
    BY <1>1, <1>2, <1>3, <2>1, <2>2, <2>3, HiddenStep
<1>5. CASE FireTimeout(s)
  <2> DEFINE then == tick[s]
             i    == cursor[s]
  <2>1. PICK spec : Writes(s, spec) /\ spec \in TimeoutWrites(entity, Machine.transitions[i], then)
    BY <1>5, FireTimeoutWrites DEF AtomicInv, ConflictInv
  <2>2. phase[s] = "tx" /\ snap[s] = entity /\ StillDue(entity, Machine.transitions[i], then)
    BY <1>1, <1>5 DEF FireTimeout, TypeInv, LockInv
  <2>3. then \in 0..clock /\ i \in DueTimers(entity, then)
    BY <2>2 DEF AtomicInv, PassInv, DueTimers
  <2>4. AfterWrite(entity, history, spec, clock) \in TimeoutSteps(entity, history, then, clock)
    BY <2>1, <2>3 DEF TimeoutSteps
  <2> HIDE DEF then, i
  <2>5. /\ Atomic!Write(s, TimeoutSteps(entity, history, then, clock))
        /\ phase' = [phase EXCEPT ![s] = "dispatch"]
    BY <1>1, <2>1, <2>4, WriteIsAtomic
  <2>6. Atomic!Expire(s)
    BY <1>2, <2>3, <2>5 DEF Atomic!Expire, Status
  <2>7. QED
    BY <2>6 DEF Atomic!Next
<1>6. CASE DispatchTimeout(s)
  <2>1. Dispatch(s, "none", "scan")
    BY <1>6 DEF DispatchTimeout
  <2>2. Status' = Status /\ Replies' = Replies
    BY <1>2, <1>3, <2>1 DEF Dispatch, Answer
  <2>3. Atomic!FinishTimeout(s)
    BY <1>1, <2>1, <2>2, DispatchHandsOver
       DEF Dispatch, Atomic!FinishTimeout, Atomic!tables, Status, Replies
  <2>4. QED
    BY <2>3 DEF Atomic!Next
<1>7. QED
  BY <1>4, <1>5, <1>6 DEF SchedulerStep

\* A step of anyone.
LEMMA NextIsAtomic ==
  ASSUME AtomicInv, [Next]_vars
  PROVE  Atomic!Next \/ UNCHANGED Atomic!avars
<1>1. TypeInv /\ DOMAIN phase = Workers /\ DOMAIN reply = Workers
  BY DEF AtomicInv, ConflictInv, TypeInv, TypeOK, WorkersOK
<1>2. CASE Tick
  <2>1. Status' = Status /\ Replies' = Replies /\ Handed' = Handed
    BY <1>2 DEF Tick, Status, StatusOf, Replies, Handed, worker, store
  <2>2. Atomic!Tick
    BY <1>2, <2>1 DEF Tick, Atomic!Tick, Atomic!tables, Status, Replies, Handed, worker, store
  <2>3. QED
    BY <2>2 DEF Atomic!Next
<1>3. ASSUME NEW p \in Requests, NEW ev \in Events, Submit(p, ev) PROVE Atomic!Next
  <2>1. p \in Workers /\ phase' = [phase EXCEPT ![p] = "load"] /\ phase[p] = "idle"
    BY <1>3 DEF Submit, Answer, Workers
  <2>2. Status' = [Status EXCEPT ![p] = "asked"] /\ Status[p] = "idle"
    BY <1>1, <2>1, StatusMoves DEF Status, StatusOf
  <2>3. Replies' = [Replies EXCEPT ![p] = "none"]
    BY <1>1, <1>3, <2>1 DEF Submit, Answer, Replies, Workers
  <2>4. Atomic!Ask(p, ev)
    BY <1>3, <2>2, <2>3 DEF Submit, Atomic!Ask, Atomic!tables, Status, Replies, store
  <2>5. QED
    BY <2>4 DEF Atomic!Next
<1>4. ASSUME NEW w \in Workers, Crash(w) PROVE Atomic!Next
  <2>1. Status' = IF w \in Requests THEN [Status EXCEPT ![w] = "idle"] ELSE Status
    BY <1>1, <1>4, StatusMoves DEF Crash, Answer
  <2>2. Replies' = IF w \in Requests THEN [Replies EXCEPT ![w] = "none"] ELSE Replies
    BY <1>1, <1>4 DEF Crash, Answer, Replies, Workers
  <2>3. Atomic!Lose(w)
    BY <1>4, <2>1, <2>2 DEF Crash, Atomic!Lose, Atomic!tables, Status, Replies, store
  <2>4. QED
    BY <1>4, <2>3 DEF Atomic!Next, Workers
<1>5. CASE UNCHANGED vars
  BY <1>5 DEF vars, store, worker, Atomic!avars, Atomic!tables, StatusOf
<1>6. QED
  BY <1>2, <1>3, <1>4, <1>5, RequestStepIsAtomic, SchedulerStepIsAtomic DEF Next

\* The databases the entity starts with are its own initial states.
LEMMA InitIsAtomic == Init => Atomic!Init
<1> SUFFICES ASSUME Init PROVE Atomic!Init
  OBVIOUS
<1>1. \E s \in Stores : entity = s.entity /\ history = s.history
  BY DEF Init
<1>2. {i \in DOMAIN sent : sent[i] > 0} = {}
  BY DEF Init
<1>3. [p \in Requests |-> StatusOf(p)] = [p \in Requests |-> "idle"]
  BY DEF Init, StatusOf, Workers
<1>4. [p \in Requests |-> reply[p]] = [p \in Requests |-> "none"]
  BY DEF Init, Workers
<1>5. clock = 1 /\ request \in [Requests -> Events] /\ batch = [w \in Requests \union Schedulers |-> 0]
  BY EventsAssumption DEF Init, NewRequestEvent, Workers
<1>6. QED
  BY <1>1, <1>2, <1>3, <1>4, <1>5 DEF Atomic!Init

\* Whatever a client or a reader of the tables sees could have been seen of an
\* entity that handles one request or timeout at a time: ImplementsAtomic, for
\* every machine, every number of workers and crashes at any point.
THEOREM CoreIsAtomic == Spec => ImplementsAtomic
<1>1. AtomicInv /\ [Next]_vars => [Atomic!Next]_(Atomic!avars)
  BY NextIsAtomic
<1>2. QED
  BY <1>1, InitIsAtomic, AtomicInvariance, PTL DEF Spec, ImplementsAtomic, Atomic!Spec

-----------------------------------------------------------------------------
(* How a write moves the regions and makes instances.                      *)

\* Where the rows of one write lead, and when.
LEMMA RowsMove ==
  ASSUME NEW spec, IsSeq(spec.fired), NEW version, NEW rows, rows = Rows(spec, version, clock)
  PROVE  /\ Len(spec.fired) \in Nat /\ DOMAIN spec.fired = 1..Len(spec.fired)
         /\ IsSeq(rows) /\ Len(rows) = 1 + Len(spec.fired) /\ DOMAIN rows = 1..Len(rows)
         /\ rows[1].region = spec.region /\ rows[1].from = spec.from /\ rows[1].to = spec.to
         /\ rows[1].key = spec.key /\ rows[1].type = spec.type /\ rows[1].ts = spec.ts
         /\ \A k \in 1..Len(spec.fired) : /\ rows[1 + k].region = spec.fired[k].region
                                          /\ rows[1 + k].to = spec.fired[k].to
                                          /\ rows[1 + k].key.kind = "join"
         /\ \A k \in DOMAIN rows : rows[k].at = clock
<1> DEFINE main == [type |-> spec.type, region |-> spec.region, from |-> spec.from, to |-> spec.to,
                    key |-> spec.key, params |-> spec.params, ts |-> spec.ts, at |-> clock]
           join(k) == [type |-> "$join", region |-> spec.fired[k].region, from |-> spec.fired[k].from,
                       to |-> spec.fired[k].to, key |-> JoinIdentity(spec.fired[k].region, version, k - 1),
                       params |-> <<>>, ts |-> spec.ts, at |-> clock]
<1>1. /\ IsSeq(rows) /\ Len(rows) = 1 + Len(spec.fired)
      /\ rows[1] = main
      /\ \A k \in 1..Len(spec.fired) : rows[1 + k] = join(k)
  BY RowsAre
<1>2. /\ Len(spec.fired) \in Nat /\ DOMAIN spec.fired = 1..Len(spec.fired)
      /\ DOMAIN rows = 1..Len(rows)
  BY <1>1, SeqDomain
<1>3. /\ rows[1].region = spec.region /\ rows[1].from = spec.from /\ rows[1].to = spec.to
      /\ rows[1].key = spec.key /\ rows[1].type = spec.type /\ rows[1].ts = spec.ts
      /\ rows[1].at = clock
  BY <1>1
<1>4. \A k \in 1..Len(spec.fired) : /\ rows[1 + k].region = spec.fired[k].region
                                   /\ rows[1 + k].to = spec.fired[k].to
                                   /\ rows[1 + k].key.kind = "join"
                                   /\ rows[1 + k].at = clock
  <2>1. SUFFICES ASSUME NEW k \in 1..Len(spec.fired)
                 PROVE  /\ rows[1 + k].region = spec.fired[k].region
                        /\ rows[1 + k].to = spec.fired[k].to
                        /\ rows[1 + k].key.kind = "join"
                        /\ rows[1 + k].at = clock
    OBVIOUS
  <2>2. rows[1 + k] = join(k)
    BY <1>1
  <2>3. QED
    BY <2>2 DEF JoinIdentity
<1>5. \A k \in DOMAIN rows : rows[k].at = clock
  <2>1. SUFFICES ASSUME NEW k \in DOMAIN rows PROVE rows[k].at = clock
    OBVIOUS
  <2>2. k = 1 \/ (k - 1 \in 1..Len(spec.fired) /\ 1 + (k - 1) = k)
    BY <1>1, <1>2
  <2>3. QED
    BY <1>3, <1>4, <2>2
<1>6. QED
  BY <1>1, <1>2, <1>3, <1>4, <1>5

\* A write whose rows account for the state map it leaves.
Moves(e, spec) == spec.states = SetAll(e.states, Rows(spec, e.version + 1, clock))

\* The transition taken, and the joins fired by a map that has it.
LEMMA JoinedWriteMoves ==
  ASSUME NEW e, NEW spec, IsSeq(spec.fired),
         spec.states = SetAll([e.states EXCEPT ![spec.region] = spec.to], spec.fired)
  PROVE  Moves(e, spec)
<1> DEFINE rows == Rows(spec, e.version + 1, clock)
<1>1. MainAndJoins(rows, spec.region, spec.to, spec.fired)
  BY RowsMove DEF MainAndJoins
<1> HIDE DEF rows
<1>2. PICK moved : moved = [e.states EXCEPT ![spec.region] = spec.to]
  OBVIOUS
<1>3. SetAll(moved, spec.fired) = SetAll(e.states, rows)
  BY <1>1, <1>2, SetMainAndJoins
<1>4. QED
  BY <1>2, <1>3 DEF Moves, rows

\* Every write a request prepares accounts for what it changes.
LEMMA EventWritesMove ==
  ASSUME NEW e, NEW ev, NEW t, NEW spec \in EventWrites(e, ev, t)
  PROVE  IsSeq(spec.fired) /\ Moves(e, spec)
<1> DEFINE moved == [e.states EXCEPT ![t.region] = t.to]
<1>1. PICK c \in ApplyJoins(Machine, moved) :
        spec.states = c.states /\ spec.fired = c.fired /\ spec.region = t.region /\ spec.to = t.to
  BY DEF EventWrites
<1>2. moved = [r \in DOMAIN moved |-> moved[r]]
  OBVIOUS
<1> HIDE DEF moved
<1>3. Accounts(moved, c)
  BY <1>2, MachineAssumption, ApplyJoinsAccounts
<1>4. IsSeq(spec.fired) /\ spec.states = SetAll(moved, spec.fired)
  BY <1>1, <1>3 DEF Accounts
<1>5. moved = [e.states EXCEPT ![spec.region] = spec.to]
  BY <1>1 DEF moved
<1>6. QED
  BY <1>4, <1>5, JoinedWriteMoves

\* So does every write a scheduler prepares.
LEMMA TimeoutWritesMove ==
  ASSUME NEW e, NEW t, NEW now, NEW spec \in TimeoutWrites(e, t, now)
  PROVE  IsSeq(spec.fired) /\ Moves(e, spec)
<1> DEFINE moved == [e.states EXCEPT ![t.region] = t.to]
           plain == [states |-> moved, fired |-> <<>>]
<1>1. PICK c \in IF Machine.parallel THEN ApplyJoins(Machine, moved) ELSE {plain} :
        spec.states = c.states /\ spec.fired = c.fired /\ spec.region = t.region /\ spec.to = t.to
  BY DEF TimeoutWrites
<1>2. moved = [r \in DOMAIN moved |-> moved[r]]
  OBVIOUS
<1>3. plain.states = moved /\ plain.fired = <<>>
  OBVIOUS
<1> HIDE DEF moved, plain
<1>4. Accounts(moved, plain)
  <2>1. <<>> \in Seq({})
    OBVIOUS
  <2>2. IsSeq(<<>>)
    BY <2>1, SeqIsSeq
  <2>3. SetAll(moved, <<>>) = moved
    BY <1>2, SetNothing
  <2>4. QED
    BY <1>3, <2>2, <2>3 DEF Accounts
<1>5. Accounts(moved, c)
  BY <1>1, <1>2, <1>4, MachineAssumption, ApplyJoinsAccounts
<1>6. IsSeq(spec.fired) /\ spec.states = SetAll(moved, spec.fired)
  BY <1>1, <1>5 DEF Accounts
<1>7. moved = [e.states EXCEPT ![spec.region] = spec.to]
  BY <1>1 DEF moved
<1>8. QED
  BY <1>6, <1>7, JoinedWriteMoves

\* Row `new` is what a write of `spec` to row e stores, `rows` being its rows
\* and `first` the id of the first.
WriteStores(new, e, spec, rows, first) ==
  /\ rows = Rows(spec, e.version + 1, clock)
  /\ new = Written(e, spec.states, spec.context, Entered(rows, first), clock)

\* What a write makes of a region: the instance its last row of that region
\* entered, or, without one, the instance there was.
LEMMA WriteMakesInstances ==
  ASSUME NEW e, NEW now, IsEntity(e, now), NEW spec, IsSeq(spec.fired), Moves(e, spec),
         NEW first \in Nat \ {0}, NEW rows, NEW new, WriteStores(new, e, spec, rows, first),
         NEW r \in Regions
  PROVE  /\ LastFor(rows, r) = {} => /\ EffectiveEntries(Machine, new)[r] = EffectiveEntries(Machine, e)[r]
                                     /\ new.states[r] = e.states[r]
         /\ \A i \in LastFor(rows, r) :
              /\ EffectiveEntries(Machine, new)[r] = NewEntry(rows[i].to, e.version + 1, clock, first + i - 1)
              /\ new.states[r] = rows[i].to
<1> DEFINE entered == Entered(rows, first)
           old == EffectiveEntries(Machine, e)
<1> /\ rows = Rows(spec, e.version + 1, clock)
    /\ new = Written(e, spec.states, spec.context, Entered(rows, first), clock)
  BY DEF WriteStores
<1>1. IsSeq(rows) /\ Len(rows) \in Nat /\ DOMAIN rows = 1..Len(rows)
  BY RowsMove, SeqDomain
<1>2. /\ DOMAIN entered = DOMAIN rows
      /\ \A k \in DOMAIN rows : /\ entered[k].region = rows[k].region
                               /\ entered[k].state = rows[k].to
                               /\ entered[k].row = first + k - 1
  BY DEF Entered
<1>3. LastFor(entered, r) = LastFor(rows, r) /\ LastFor(rows, r) \subseteq DOMAIN rows
  <2> HIDE DEF entered
  <2>1. QED
    BY <1>2 DEF LastFor
<1>4. /\ spec.states = SetAll(e.states, rows)
      /\ DOMAIN e.states = Regions /\ DOMAIN spec.states = Regions
      /\ old[r].state = e.states[r]
  BY DEF Moves, SetAll, IsEntity
<1>5. /\ new.version = e.version + 1 /\ new.states = spec.states
      /\ new.stored = AdvanceEntries(old, spec.states, entered, e.version + 1, clock)
  BY DEF Written
<1>6. new.stored.version = new.version /\ DOMAIN new.stored.regions = Regions
  BY <1>4, <1>5 DEF AdvanceEntries
<1>7. ASSUME new.stored.regions[r].state = new.states[r]
      PROVE  EffectiveEntries(Machine, new)[r] = new.stored.regions[r]
  <2>1. r \in DOMAIN new.states
    BY <1>4, <1>5
  <2>2. QED
    BY <1>6, <1>7, <2>1 DEF EffectiveEntries
<1>8. CASE LastFor(rows, r) = {}
  <2>1. spec.states[r] = e.states[r]
    BY <1>4, <1>8 DEF SetAll
  <2>2. new.stored.regions[r] = old[r]
    BY <1>3, <1>4, <1>5, <1>8, <2>1 DEF AdvanceEntries
  <2>3. QED
    BY <1>4, <1>5, <1>7, <1>8, <2>1, <2>2
<1>9. ASSUME NEW i \in LastFor(rows, r)
      PROVE  /\ EffectiveEntries(Machine, new)[r] = NewEntry(rows[i].to, e.version + 1, clock, first + i - 1)
             /\ new.states[r] = rows[i].to
  <2>1. LastFor(rows, r) = {i}
    BY <1>1, LastForIsUnique
  <2>2. (CHOOSE j \in {i} : TRUE) = i
    OBVIOUS
  <2>3. spec.states[r] = rows[i].to
    BY <1>4, <2>1, <2>2 DEF SetAll
  <2>4. new.stored.regions[r] = NewEntry(entered[i].state, e.version + 1, clock, entered[i].row)
    <3> HIDE DEF entered
    <3>1. QED
      BY <1>3, <1>4, <1>5, <2>1, <2>2 DEF AdvanceEntries
  <2>5. entered[i].state = rows[i].to /\ entered[i].row = first + i - 1
    BY <1>2, <1>3
  <2>6. NewEntry(rows[i].to, e.version + 1, clock, first + i - 1).state = rows[i].to
    BY DEF NewEntry
  <2> HIDE DEF entered
  <2>7. QED
    BY <1>5, <1>7, <2>3, <2>4, <2>5, <2>6
<1>10. QED
  BY <1>8, <1>9

-----------------------------------------------------------------------------
(* The last row of a region.                                               *)

\* LastRowBefore of any history.
LastIn(rows, ids, r, n) ==
  LET before == {i \in ids : rows[i].region = r /\ i < n}
  IN IF before = {} THEN 0 ELSE CHOOSE i \in before : \A j \in before : j <= i

\* The greatest one below n, if there is one.
LEMMA LastInIs ==
  ASSUME NEW rows, NEW m \in Nat, NEW ids, ids \subseteq 1..m, NEW r, NEW n
  PROVE  LET last == LastIn(rows, ids, r, n)
         IN /\ last = 0 => \A i \in ids : ~ (rows[i].region = r /\ i < n)
            /\ last # 0 => /\ last \in ids /\ rows[last].region = r /\ last < n
                           /\ \A i \in ids : rows[i].region = r /\ i < n => i <= last
<1> DEFINE before == {i \in ids : rows[i].region = r /\ i < n}
           last == LastIn(rows, ids, r, n)
<1>1. before \subseteq 1..m
  OBVIOUS
<1>2. CASE before = {}
  <2>1. last = 0
    BY <1>2 DEF LastIn
  <2>2. QED
    BY <1>2, <2>1
<1>3. CASE before # {}
  <2>1. last = CHOOSE i \in before : \A j \in before : j <= i
    BY <1>3 DEF LastIn
  <2> HIDE DEF before, last
  <2>2. \E i \in before : \A j \in before : j <= i
    BY <1>1, <1>3, MaxExists
  <2>3. last \in before /\ \A j \in before : j <= last
    BY <2>1, <2>2
  <2>4. last # 0
    BY <1>1, <2>3
  <2>5. QED
    BY <2>3, <2>4 DEF before, last
<1>4. QED
  BY <1>2, <1>3

\* An id with those properties is the last one.
LEMMA LastInIsUnique ==
  ASSUME NEW rows, NEW m \in Nat, NEW ids, ids \subseteq 1..m, NEW r, NEW n,
         NEW x \in ids, rows[x].region = r, x < n,
         \A i \in ids : rows[i].region = r /\ i < n => i <= x
  PROVE  LastIn(rows, ids, r, n) = x
<1> DEFINE last == LastIn(rows, ids, r, n)
<1>1. /\ last = 0 => \A i \in ids : ~ (rows[i].region = r /\ i < n)
      /\ last # 0 => /\ last \in ids /\ rows[last].region = r /\ last < n
                     /\ \A i \in ids : rows[i].region = r /\ i < n => i <= last
  BY LastInIs
<1> HIDE DEF last
<1>2. last \in ids /\ x <= last /\ last <= x
  BY <1>1
<1>3. last \in Nat /\ x \in Nat
  BY <1>2
<1>4. last = x
  BY <1>2, <1>3
<1>5. QED
  BY <1>4 DEF last

\* `rows` are appended to `old`, and newIds are ids and those of `rows`.
Appended(old, ids, rows, new, newIds) ==
  /\ IsSeq(old) /\ IsSeq(rows) /\ new = old \o rows
  /\ ids \subseteq DOMAIN old /\ newIds \subseteq DOMAIN new
  /\ ids \subseteq newIds /\ \A i \in newIds : i \in DOMAIN old => i \in ids
  /\ \A k \in DOMAIN rows : Len(old) + k \in newIds

\* Rows that are appended come last where they have the region.
LEMMA LastInAppended ==
  ASSUME NEW old, NEW ids, NEW rows, NEW new, NEW newIds, Appended(old, ids, rows, new, newIds), NEW r
  PROVE  /\ LastFor(rows, r) = {} => LastIn(new, newIds, r, Len(new) + 1) = LastIn(old, ids, r, Len(old) + 1)
         /\ \A k \in LastFor(rows, r) : LastIn(new, newIds, r, Len(new) + 1) = Len(old) + k
<1> /\ IsSeq(old) /\ IsSeq(rows) /\ new = old \o rows
    /\ ids \subseteq DOMAIN old /\ newIds \subseteq DOMAIN new
    /\ ids \subseteq newIds /\ \A i \in newIds : i \in DOMAIN old => i \in ids
    /\ \A k \in DOMAIN rows : Len(old) + k \in newIds
  BY DEF Appended
<1>1. /\ Len(old) \in Nat /\ DOMAIN old = 1..Len(old)
      /\ Len(rows) \in Nat /\ DOMAIN rows = 1..Len(rows)
  BY SeqDomain
<1>2. /\ IsSeq(new) /\ Len(new) = Len(old) + Len(rows)
      /\ \A i \in 1..Len(old) : new[i] = old[i]
      /\ \A k \in 1..Len(rows) : new[Len(old) + k] = rows[k]
  BY ConcatIsSeq
<1>3. Len(new) \in Nat /\ DOMAIN new = 1..Len(new)
  BY <1>2, SeqDomain
<1>4. ASSUME NEW i \in newIds
      PROVE  \/ i \in ids /\ new[i] = old[i] /\ i <= Len(old)
             \/ \E k \in DOMAIN rows : i = Len(old) + k /\ new[i] = rows[k]
  <2>1. CASE i \in DOMAIN old
    BY <1>1, <1>2, <2>1
  <2>2. CASE i \notin DOMAIN old
    <3>1. i - Len(old) \in DOMAIN rows /\ i = Len(old) + (i - Len(old))
      BY <1>1, <1>2, <1>3, <2>2
    <3>2. QED
      BY <1>1, <1>2, <3>1
  <2>3. QED
    BY <2>1, <2>2
<1>5. ASSUME LastFor(rows, r) = {}
      PROVE  LastIn(new, newIds, r, Len(new) + 1) = LastIn(old, ids, r, Len(old) + 1)
  <2>1. \A k \in DOMAIN rows : rows[k].region # r
    BY <1>5, LastForIsUnique
  <2> DEFINE after  == {i \in newIds : new[i].region = r /\ i < Len(new) + 1}
             before == {i \in ids : old[i].region = r /\ i < Len(old) + 1}
  <2>2. after = before
    <3>1. ASSUME NEW i \in newIds, new[i].region = r
          PROVE  i \in ids /\ old[i].region = r /\ i < Len(old) + 1
      BY <1>1, <1>4, <2>1, <3>1
    <3>2. ASSUME NEW i \in ids PROVE i \in newIds /\ new[i] = old[i] /\ i < Len(new) + 1
      BY <1>1, <1>2
    <3>3. QED
      BY <3>1, <3>2
  <2>3. /\ LastIn(new, newIds, r, Len(new) + 1)
             = IF after = {} THEN 0 ELSE CHOOSE i \in after : \A j \in after : j <= i
        /\ LastIn(old, ids, r, Len(old) + 1)
             = IF before = {} THEN 0 ELSE CHOOSE i \in before : \A j \in before : j <= i
    BY DEF LastIn
  <2> HIDE DEF after, before
  <2>4. QED
    BY <2>2, <2>3
<1>6. ASSUME NEW k \in LastFor(rows, r)
      PROVE  LastIn(new, newIds, r, Len(new) + 1) = Len(old) + k
  <2>1. k \in DOMAIN rows /\ rows[k].region = r /\ \A j \in DOMAIN rows : rows[j].region = r => j <= k
    BY DEF LastFor
  <2> DEFINE x == Len(old) + k
  <2>2. x \in newIds /\ new[x].region = r /\ x < Len(new) + 1
    BY <1>1, <1>2, <2>1
  <2>3. ASSUME NEW i \in newIds, new[i].region = r PROVE i <= x
    <3>1. CASE i \in ids /\ i <= Len(old)
      BY <1>1, <2>1, <3>1
    <3>2. CASE \E j \in DOMAIN rows : i = Len(old) + j /\ new[i] = rows[j]
      BY <1>1, <2>1, <2>3, <3>2
    <3>3. QED
      BY <1>4, <3>1, <3>2
  <2> HIDE DEF x
  <2>4. LastIn(new, newIds, r, Len(new) + 1) = x
    BY <1>3, <2>2, <2>3, LastInIsUnique
  <2>5. QED
    BY <2>4 DEF x
<1>7. QED
  BY <1>5, <1>6

-----------------------------------------------------------------------------
(* The instances index the history.                                        *)

\* The instance of region r is the one its last row written by the engine
\* entered.
IndexOK(r) ==
  LET entry == CurrentEntries[r]
      last  == LastRowBefore(Tracked, r, Len(history) + 1)
  IN IF last = 0
     THEN entry.row = 0 /\ entry.basis # "transition"
     ELSE /\ entry.row = last
          /\ entry.state = history[last].to
          /\ entry.entered_at = history[last].at
          /\ entry.basis = "transition"

\* Its number lags the version by the writes since.
SeqOK(r) ==
  entity.version - CurrentEntries[r].seq
    = Cardinality({i \in MainRows : i > CurrentEntries[r].row})

\* The last row of region r, of whatever engine, leads to where the region is,
\* and the instance is no older than that row, or than the entity.
LeadsOK(r) ==
  LET last == LastRowBefore(DOMAIN history, r, Len(history) + 1)
  IN IF last = 0
     THEN entity.created_at <= CurrentEntries[r].entered_at
     ELSE history[last].to = entity.states[r] /\ history[last].at \in 0..CurrentEntries[r].entered_at

EntryInv ==
  IF entity = NoEntity THEN history = <<>>
  ELSE \A r \in Regions : IndexOK(r) /\ SeqOK(r) /\ LeadsOK(r)

\* The tables before and after a write, and what it does to one region.
LEMMA WriteAndRegion ==
  ASSUME AtomicInv, NEW w \in Workers, NEW spec, Writes(w, spec), Moves(entity, spec),
         NEW r \in Regions
  PROVE  LET rows == Rows(spec, entity.version + 1, clock)
             n == Len(history)
         IN /\ LastFor(rows, r) \subseteq 1..Len(rows)
            /\ LastFor(rows, r) = {} =>
                 /\ CurrentEntries'[r] = CurrentEntries[r]
                 /\ entity'.states[r] = entity.states[r]
                 /\ LastRowBefore(Tracked, r, Len(history) + 1)' = LastRowBefore(Tracked, r, n + 1)
                 /\ LastRowBefore(DOMAIN history, r, Len(history) + 1)'
                      = LastRowBefore(DOMAIN history, r, n + 1)
            /\ \A i \in LastFor(rows, r) :
                 /\ CurrentEntries'[r] = NewEntry(rows[i].to, entity.version + 1, clock, n + i)
                 /\ entity'.states[r] = rows[i].to
                 /\ LastRowBefore(Tracked, r, Len(history) + 1)' = n + i
                 /\ LastRowBefore(DOMAIN history, r, Len(history) + 1)' = n + i
<1> DEFINE rows == Rows(spec, entity.version + 1, clock)
           n == Len(history)
<1> rows = Rows(spec, entity.version + 1, clock) /\ n = Len(history)
  OBVIOUS
<1> HIDE DEF rows, n
<1>1. /\ snap[w] = entity /\ entity # NoEntity /\ IsEntity(entity, clock)
      /\ IsSeq(history) /\ n \in Nat /\ DOMAIN history = 1..n
  BY SeqDomain DEF AtomicInv, ConflictInv, TypeInv, LockInv, TypeOK, StoreOK, Writes
<1>2. PICK refused : WriteEntity(w, spec, refused)
  BY DEF Writes
<1>3. /\ history' = history \o rows
      /\ entity' = Written(entity, spec.states, spec.context, Entered(rows, n + 1), clock)
  BY <1>1, <1>2 DEF WriteEntity, Writes
<1>4. IsSeq(spec.fired)
  BY DEF Writes
<1>5. /\ IsSeq(rows) /\ Len(rows) \in Nat /\ DOMAIN rows = 1..Len(rows)
      /\ rows[1].key = spec.key
      /\ \A k \in 1..Len(spec.fired) : rows[1 + k].key.kind = "join"
      /\ Len(rows) = 1 + Len(spec.fired) /\ Len(spec.fired) \in Nat
  <2>1. PICK version : rows = Rows(spec, version, clock)
    OBVIOUS
  <2>2. /\ Len(spec.fired) \in Nat
        /\ IsSeq(rows) /\ Len(rows) = 1 + Len(spec.fired) /\ DOMAIN rows = 1..Len(rows)
        /\ rows[1].key = spec.key
        /\ \A k \in 1..Len(spec.fired) : rows[1 + k].key.kind = "join"
    BY <1>4, <2>1, RowsMove
  <2>3. QED
    BY <2>2
<1>6. \A k \in DOMAIN rows : rows[k].key # NoIdentity
  <2>1. spec.key # NoIdentity /\ NoIdentity.kind # "join"
    <3>1. /\ NoIdentity.kind = "null"
          /\ \A x, m : EventIdentity(x, m).kind = "evt" /\ TimeoutIdentity(x, m).kind = "timeout"
      BY DEF EventIdentity, TimeoutIdentity, NoIdentity
    <3>2. spec.key.kind \in {"evt", "timeout"}
      BY <3>1 DEF Writes, MainKeyOK
    <3>3. QED
      BY <3>1, <3>2
  <2>2. SUFFICES ASSUME NEW k \in DOMAIN rows PROVE rows[k].key # NoIdentity
    OBVIOUS
  <2>3. k = 1 \/ (k - 1 \in 1..Len(spec.fired) /\ 1 + (k - 1) = k)
    BY <1>5
  <2>4. QED
    BY <1>5, <2>1, <2>3
<1>7. /\ LastFor(rows, r) = {} => /\ CurrentEntries'[r] = CurrentEntries[r]
                                  /\ entity'.states[r] = entity.states[r]
      /\ \A i \in LastFor(rows, r) :
           /\ CurrentEntries'[r] = NewEntry(rows[i].to, entity.version + 1, clock, n + 1 + i - 1)
           /\ entity'.states[r] = rows[i].to
  <2>1. PICK first \in Nat \ {0} : first = n + 1
    BY <1>1
  <2>2. PICK new : new = entity'
    OBVIOUS
  <2>3. WriteStores(new, entity, spec, rows, first)
    BY <1>3, <2>1, <2>2 DEF WriteStores
  <2>4. /\ LastFor(rows, r) = {} => /\ EffectiveEntries(Machine, new)[r] = EffectiveEntries(Machine, entity)[r]
                                    /\ new.states[r] = entity.states[r]
        /\ \A i \in LastFor(rows, r) :
             /\ EffectiveEntries(Machine, new)[r] = NewEntry(rows[i].to, entity.version + 1, clock, first + i - 1)
             /\ new.states[r] = rows[i].to
    BY <1>1, <1>4, <2>3, WriteMakesInstances
  <2>5. QED
    BY <2>1, <2>2, <2>4 DEF CurrentEntries
<1>8. LastFor(rows, r) \subseteq 1..Len(rows)
  BY <1>5, LastForIsUnique
<1>9. /\ IsSeq(history') /\ Len(history') = n + Len(rows) /\ DOMAIN history' = 1..Len(history')
      /\ \A i \in 1..n : history'[i] = history[i]
      /\ \A k \in 1..Len(rows) : history'[n + k] = rows[k]
  <2>1. /\ IsSeq(history') /\ Len(history') = n + Len(rows)
        /\ \A i \in 1..n : history'[i] = history[i]
        /\ \A k \in 1..Len(rows) : history'[n + k] = rows[k]
    BY <1>1, <1>3, <1>5, ConcatIsSeq
  <2>2. QED
    BY <2>1, SeqDomain
<1>10. /\ \A i \in 1..n : i \in DOMAIN history'
       /\ \A k \in 1..Len(rows) : n + k \in DOMAIN history'
  BY <1>1, <1>5, <1>9
<1>11. \A ids : LastRowBefore(ids, r, n + 1) = LastIn(history, ids, r, n + 1)
  BY DEF LastRowBefore, LastIn
<1>12. /\ LastRowBefore(Tracked, r, Len(history) + 1)' = LastIn(history', Tracked', r, Len(history') + 1)
       /\ LastRowBefore(DOMAIN history, r, Len(history) + 1)'
            = LastIn(history', DOMAIN history', r, Len(history') + 1)
  BY DEF LastRowBefore, LastIn
<1>13. /\ LastFor(rows, r) = {} => LastRowBefore(Tracked, r, Len(history) + 1)'
                                     = LastRowBefore(Tracked, r, n + 1)
       /\ \A i \in LastFor(rows, r) : LastRowBefore(Tracked, r, Len(history) + 1)' = n + i
  <2>1. /\ Tracked \subseteq DOMAIN history /\ Tracked' \subseteq DOMAIN history'
        /\ Tracked \subseteq Tracked' /\ \A i \in Tracked' : i \in DOMAIN history => i \in Tracked
        /\ \A k \in DOMAIN rows : n + k \in Tracked'
    <3>1. \A i \in DOMAIN history : i \in Tracked <=> i \in Tracked'
      BY <1>1, <1>9, <1>10 DEF Tracked
    <3>2. \A k \in DOMAIN rows : n + k \in Tracked'
      BY <1>5, <1>6, <1>9, <1>10 DEF Tracked
    <3>3. QED
      BY <3>1, <3>2 DEF Tracked
  <2>2. /\ LastFor(rows, r) = {} => LastIn(history', Tracked', r, Len(history') + 1)
                                      = LastIn(history, Tracked, r, Len(history) + 1)
        /\ \A i \in LastFor(rows, r) : LastIn(history', Tracked', r, Len(history') + 1) = Len(history) + i
    <3>1. Appended(history, Tracked, rows, history', Tracked')
      BY <1>1, <1>3, <1>5, <2>1 DEF Appended
    <3>2. QED
      BY <3>1, LastInAppended
  <2>3. QED
    BY <1>11, <1>12, <2>2
<1>14. /\ LastFor(rows, r) = {} => LastRowBefore(DOMAIN history, r, Len(history) + 1)'
                                     = LastRowBefore(DOMAIN history, r, n + 1)
       /\ \A i \in LastFor(rows, r) : LastRowBefore(DOMAIN history, r, Len(history) + 1)' = n + i
  <2>1. /\ DOMAIN history \subseteq DOMAIN history'
        /\ \A k \in DOMAIN rows : n + k \in DOMAIN history'
    BY <1>1, <1>5, <1>10
  <2>2. /\ LastFor(rows, r) = {} => LastIn(history', DOMAIN history', r, Len(history') + 1)
                                      = LastIn(history, DOMAIN history, r, Len(history) + 1)
        /\ \A i \in LastFor(rows, r) : LastIn(history', DOMAIN history', r, Len(history') + 1) = Len(history) + i
    <3>1. Appended(history, DOMAIN history, rows, history', DOMAIN history')
      BY <1>1, <1>3, <1>5, <2>1 DEF Appended
    <3>2. QED
      BY <3>1, LastInAppended
  <2>3. QED
    BY <1>11, <1>12, <2>2
<1>15. \A i \in LastFor(rows, r) : n + 1 + i - 1 = n + i
  BY <1>1, <1>8
<1>16. QED
  BY <1>7, <1>8, <1>13, <1>14, <1>15 DEF rows, n

\* A write keeps all three.
LEMMA WriteKeepsEntryInv ==
  ASSUME AtomicInv, EntryInv, NEW w \in Workers, NEW spec, Writes(w, spec), Moves(entity, spec)
  PROVE  EntryInv'
<1> DEFINE rows == Rows(spec, entity.version + 1, clock)
           n == Len(history)
<1>1. /\ IsSeq(history) /\ n \in Nat /\ DOMAIN history = 1..n
      /\ entity # NoEntity /\ IsEntity(entity, clock) /\ clock \in Nat
  BY SeqDomain, BoundsAssumption DEF AtomicInv, ConflictInv, TypeInv, TypeOK, StoreOK, Writes
<1>2. /\ history' = history \o rows
      /\ IsSeq(rows) /\ Len(rows) \in Nat \ {0}
      /\ Len(history') = n + Len(rows)
      /\ \A i \in 1..n : history'[i] = history[i]
      /\ entity'.version = entity.version + 1
  BY WriteAppends DEF AtomicInv
<1>3. \A k \in 1..Len(rows) : rows[k].at = clock
  BY RowsMove, SeqDomain DEF Writes
<1>4. MainRows' = MainRows \union {n + 1} /\ n + 1 \notin DOMAIN history /\ MainRows \subseteq 1..n
  BY <1>1, WriteAddsOneMainRow DEF AtomicInv, MainRows, Tracked
<1>5. entity' # NoEntity
  <2>1. NoEntity.version = 0
    BY DEF NoEntity
  <2>2. entity.version \in Nat
    BY <1>1 DEF IsEntity
  <2>3. QED
    BY <1>2, <2>1, <2>2
<1>6. ASSUME NEW r \in Regions PROVE IndexOK(r)' /\ SeqOK(r)' /\ LeadsOK(r)'
  <2> DEFINE entry == CurrentEntries[r]
             new == CurrentEntries'[r]
             last(ids) == LastRowBefore(ids, r, n + 1)
             lastTracked == LastRowBefore(Tracked, r, Len(history) + 1)'
             lastRow == LastRowBefore(DOMAIN history, r, Len(history) + 1)'
  <2>1. /\ LastFor(rows, r) \subseteq 1..Len(rows)
        /\ LastFor(rows, r) = {} => /\ new = entry
                                    /\ entity'.states[r] = entity.states[r]
                                    /\ lastTracked = last(Tracked)
                                    /\ lastRow = last(DOMAIN history)
        /\ \A i \in LastFor(rows, r) : /\ new = NewEntry(rows[i].to, entity.version + 1, clock, n + i)
                                       /\ entity'.states[r] = rows[i].to
                                       /\ lastTracked = n + i
                                       /\ lastRow = n + i
    BY WriteAndRegion
  <2>2. IndexOK(r) /\ SeqOK(r) /\ LeadsOK(r)
    BY <1>1 DEF EntryInv
  <2>3. /\ entity.version \in Nat \ {0} /\ entry.seq \in 1..entity.version
        /\ entity'.created_at = entity.created_at
    <3>1. PICK refused : WriteEntity(w, spec, refused)
      BY DEF Writes
    <3>2. snap[w] = entity
      BY DEF AtomicInv, ConflictInv, TypeInv, LockInv, Writes
    <3>3. entity' = Written(entity, spec.states, spec.context, Entered(rows, n + 1), clock)
      BY <3>1, <3>2 DEF WriteEntity, Writes
    <3>4. entity'.created_at = entity.created_at
      BY <3>3 DEF Written
    <3>5. entity.version \in Nat \ {0} /\ entry.seq \in 1..entity.version
      BY <1>1 DEF IsEntity, CurrentEntries
    <3>6. QED
      BY <3>4, <3>5
  <2>4. /\ last(Tracked) = 0 \/ last(Tracked) \in 1..n
        /\ last(DOMAIN history) = 0 \/ last(DOMAIN history) \in 1..n
    <3>1. \A ids : last(ids) = LastIn(history, ids, r, n + 1)
      BY DEF LastRowBefore, LastIn
    <3>2. Tracked \subseteq 1..n
      BY <1>1 DEF Tracked
    <3>3. QED
      BY <1>1, <3>1, <3>2, LastInIs
  <2>5. /\ IndexOK(r)' <=> IF lastTracked = 0 THEN new.row = 0 /\ new.basis # "transition"
                           ELSE /\ new.row = lastTracked
                                /\ new.state = history'[lastTracked].to
                                /\ new.entered_at = history'[lastTracked].at
                                /\ new.basis = "transition"
        /\ IndexOK(r) <=> IF last(Tracked) = 0 THEN entry.row = 0 /\ entry.basis # "transition"
                          ELSE /\ entry.row = last(Tracked)
                               /\ entry.state = history[last(Tracked)].to
                               /\ entry.entered_at = history[last(Tracked)].at
                               /\ entry.basis = "transition"
        /\ LeadsOK(r)' <=> IF lastRow = 0 THEN entity'.created_at <= new.entered_at
                           ELSE /\ history'[lastRow].to = entity'.states[r]
                                /\ history'[lastRow].at \in 0..new.entered_at
        /\ LeadsOK(r) <=> IF last(DOMAIN history) = 0 THEN entity.created_at <= entry.entered_at
                          ELSE /\ history[last(DOMAIN history)].to = entity.states[r]
                               /\ history[last(DOMAIN history)].at \in 0..entry.entered_at
        /\ SeqOK(r)' <=> entity'.version - new.seq = Cardinality({i \in MainRows' : i > new.row})
        /\ SeqOK(r) <=> entity.version - entry.seq = Cardinality({i \in MainRows : i > entry.row})
    BY DEF IndexOK, LeadsOK, SeqOK
  <2> HIDE DEF rows, n, entry, new, last, lastTracked, lastRow
  <2>6. CASE LastFor(rows, r) = {}
    <3>1. IndexOK(r)'
      BY <1>2, <2>1, <2>2, <2>4, <2>5, <2>6
    <3>2. LeadsOK(r)'
      BY <1>2, <2>1, <2>2, <2>3, <2>4, <2>5, <2>6
    <3>3. SeqOK(r)'
      <4> DEFINE since == {i \in MainRows : i > entry.row}
                 sinceNow == {i \in MainRows' : i > new.row}
      <4>1. entry.row \in 0..n
        BY <1>1, <2>2, <2>4, <2>5
      <4>2. sinceNow = since \union {n + 1} /\ n + 1 \notin since
        BY <1>1, <1>4, <2>1, <2>6, <4>1
      <4>3. IsFiniteSet(since)
        <5>1. since \subseteq 1..n
          BY <1>4
        <5>2. IsFiniteSet(1..n)
          BY <1>1, FS_Interval
        <5>3. QED
          BY <5>1, <5>2, FS_Subset
      <4>4. entity.version - entry.seq = Cardinality(since)
        BY <2>2, <2>5
      <4> HIDE DEF since, sinceNow
      <4>5. Cardinality(sinceNow) = Cardinality(since) + 1
        BY <4>2, <4>3, FS_AddElement
      <4>6. entity'.version - new.seq = Cardinality(sinceNow)
        BY <1>2, <2>1, <2>3, <2>6, <4>4, <4>5
      <4>7. QED
        BY <2>5, <4>6 DEF sinceNow
    <3>4. QED
      BY <3>1, <3>2, <3>3
  <2>7. CASE LastFor(rows, r) # {}
    <3>1. PICK i \in LastFor(rows, r) : TRUE
      BY <2>7
    <3>2. /\ i \in 1..Len(rows) /\ entity'.states[r] = rows[i].to
          /\ lastTracked = n + i /\ lastRow = n + i
          /\ new = NewEntry(rows[i].to, entity.version + 1, clock, n + i)
      BY <2>1, <3>1
    <3>3. /\ new.state = rows[i].to /\ new.seq = entity.version + 1 /\ new.entered_at = clock
          /\ new.basis = "transition" /\ new.row = n + i
      BY <3>2 DEF NewEntry
    <3>4. history'[n + i] = rows[i] /\ n + i # 0
      <4>1. \A k \in 1..Len(rows) : (history \o rows)[Len(history) + k] = rows[k]
        BY <1>1, <1>2, ConcatIsSeq
      <4>2. n + i # 0
        BY <1>1, <3>2
      <4>3. QED
        BY <1>2, <3>2, <4>1, <4>2 DEF n
    <3>5. rows[i].at = clock /\ clock \in 0..clock
      BY <1>1, <1>3, <3>2
    <3>6. IndexOK(r)'
      BY <2>5, <3>2, <3>3, <3>4, <3>5
    <3>7. LeadsOK(r)'
      BY <2>5, <3>2, <3>3, <3>4, <3>5
    <3>8. SeqOK(r)'
      <4>1. {k \in MainRows' : k > n + i} = {}
        <5>1. \A k \in MainRows' : k \in 1..n \/ k = n + 1
          BY <1>4
        <5>2. n \in Nat /\ i \in Nat /\ i >= 1
          BY <1>1, <1>2, <3>2
        <5>3. \A k : k \in 1..n \/ k = n + 1 => ~ (k > n + i)
          <6> HIDE DEF n
          <6>1. QED
            BY <5>2
        <5>4. QED
          BY <5>1, <5>3
      <4>2. Cardinality({k \in MainRows' : k > n + i}) = 0
        BY <4>1, FS_EmptySet
      <4>3. entity'.version - new.seq = 0
        BY <1>2, <2>3, <3>3
      <4>4. QED
        BY <2>5, <3>3, <4>2, <4>3
    <3>9. QED
      BY <3>6, <3>7, <3>8
  <2>8. QED
    BY <2>6, <2>7
<1>7. QED
  BY <1>5, <1>6 DEF EntryInv

\* So does a step that touches neither table.
LEMMA QuietStepKeepsEntryInv ==
  ASSUME EntryInv, history' = history, entity' = entity
  PROVE  EntryInv'
<1>1. ASSUME NEW r \in Regions
      PROVE  (IndexOK(r)' <=> IndexOK(r)) /\ (SeqOK(r)' <=> SeqOK(r)) /\ (LeadsOK(r)' <=> LeadsOK(r))
  BY DEF IndexOK, SeqOK, LeadsOK, CurrentEntries, LastRowBefore, Tracked, MainRows
<1>2. QED
  BY <1>1 DEF EntryInv

\* A row is created with instances of its own, for a history that is empty.
LEMMA CreationKeepsEntryInv ==
  ASSUME EntryInv, clock \in Nat, entity = NoEntity, history' = history, entity' = NewEntity(clock)
  PROVE  EntryInv'
<1>1. history' = <<>> /\ DOMAIN history' = {}
  BY DEF EntryInv
<1>2. \A ids : ids \subseteq DOMAIN history' =>
        \A r, n : {i \in ids : history'[i].region = r /\ i < n} = {}
  BY <1>1
<1>3. Tracked' = {} /\ MainRows' = {}
  BY <1>1 DEF Tracked, MainRows
<1>4. ASSUME NEW r \in Regions PROVE IndexOK(r)' /\ SeqOK(r)' /\ LeadsOK(r)'
  <2> DEFINE entry == CurrentEntries'[r]
  <2>1. entry.row = 0 /\ entry.basis = "created" /\ entry.seq = 1 /\ entry.entered_at = clock
    BY DEF CurrentEntries, EffectiveEntries, NewEntity, InitialEntries, Regions
  <2>2. entity'.version = 1 /\ entity'.created_at = clock
    BY DEF NewEntity
  <2>3. /\ LastRowBefore(Tracked, r, Len(history) + 1)' = 0
        /\ LastRowBefore(DOMAIN history, r, Len(history) + 1)' = 0
    BY <1>1, <1>3 DEF LastRowBefore
  <2>4. Cardinality({i \in MainRows' : i > entry.row}) = 0
    <3>1. {i \in MainRows' : i > entry.row} = {}
      BY <1>3
    <3>2. QED
      BY <3>1, FS_EmptySet
  <2> HIDE DEF entry
  <2>5. IndexOK(r)'
    BY <2>1, <2>3 DEF IndexOK, entry
  <2>6. SeqOK(r)'
    BY <2>1, <2>2, <2>4 DEF SeqOK, entry
  <2>7. LeadsOK(r)'
    BY <2>1, <2>2, <2>3 DEF LeadsOK, entry
  <2>8. QED
    BY <2>5, <2>6, <2>7
<1>5. QED
  BY <1>4 DEF EntryInv, NewEntity, NoEntity

\* Every write accounts for what it moves.
LEMMA StepMovesOrNot ==
  ASSUME AtomicInv, [Next]_vars
  PROVE  \/ history' = history /\ entity' = entity
         \/ history' = history /\ entity = NoEntity /\ entity' = NewEntity(clock)
         \/ \E p \in Requests : ApplyEvent(p)
         \/ \E s \in Schedulers : FireTimeout(s)
<1>1. ASSUME NEW p \in Requests, RequestStep(p), ~ ApplyEvent(p)
      PROVE  history' = history /\ (entity' = entity \/ (entity = NoEntity /\ entity' = NewEntity(clock)))
  <2>1. CASE CreateEntity(p)
    BY <2>1 DEF CreateEntity
  <2>2. CASE ~ CreateEntity(p)
    BY <1>1, <2>2
       DEF RequestStep, LoadExisting, LoadMissing, AnswerNotFound, BeginTx, Begin,
           RefuseRequest, Refuse, AnswerDuplicate, AnswerIdentityConflict, AnswerNoTransition,
           EndTx, ReturnActions, DispatchEvent, Dispatch, store
  <2>3. QED
    BY <2>1, <2>2
<1>2. ASSUME NEW s \in Schedulers, SchedulerStep(s), ~ FireTimeout(s)
      PROVE  history' = history /\ entity' = entity
  BY <1>2 DEF SchedulerStep, StartTick, EndTick, Scan, BeginFire, Begin, RefuseFire, Refuse,
              SkipTimeout, EndTx, DispatchTimeout, Dispatch, store
<1>3. ASSUME NEW p \in Requests, NEW ev \in Events, Submit(p, ev)
      PROVE  history' = history /\ entity' = entity
  BY <1>3 DEF Submit, store
<1>4. ASSUME NEW w \in Workers, Crash(w) PROVE history' = history /\ entity' = entity
  BY <1>4 DEF Crash, store
<1>5. CASE Tick \/ UNCHANGED vars
  BY <1>5 DEF Tick, vars, store
<1>6. QED
  BY <1>1, <1>2, <1>3, <1>4, <1>5 DEF Next

\* The write of an event, and that of a timeout.
LEMMA EventStepMoves ==
  ASSUME AtomicInv, NEW p \in Requests, ApplyEvent(p)
  PROVE  \E spec : Writes(p, spec) /\ Moves(entity, spec) /\ spec.type = request[p].type
<1>1. PICK spec : /\ Writes(p, spec)
                  /\ spec.type = request[p].type
                  /\ \E t \in MatchOf(entity, request[p]) : spec \in EventWrites(entity, request[p], t)
  BY ApplyEventWrites DEF AtomicInv, ConflictInv
<1>2. PICK t : spec \in EventWrites(entity, request[p], t)
  BY <1>1
<1>3. Moves(entity, spec)
  BY <1>2, EventWritesMove
<1>4. QED
  BY <1>1, <1>3

LEMMA TimeoutStepMoves ==
  ASSUME AtomicInv, NEW s \in Schedulers, FireTimeout(s)
  PROVE  \E spec : /\ Writes(s, spec) /\ Moves(entity, spec)
                   /\ spec \in TimeoutWrites(entity, Machine.transitions[cursor[s]], tick[s])
<1>1. PICK spec : /\ Writes(s, spec)
                  /\ spec \in TimeoutWrites(entity, Machine.transitions[cursor[s]], tick[s])
  BY FireTimeoutWrites DEF AtomicInv, ConflictInv
<1>2. Moves(entity, spec)
  BY <1>1, TimeoutWritesMove
<1>3. QED
  BY <1>1, <1>2

\* Every step keeps the index.
LEMMA NextKeepsEntryInv ==
  ASSUME AtomicInv, EntryInv, [Next]_vars
  PROVE  EntryInv'
<1>1. clock \in Nat
  BY BoundsAssumption DEF AtomicInv, ConflictInv, TypeInv, TypeOK, StoreOK
<1>2. ASSUME NEW p \in Requests, ApplyEvent(p) PROVE EntryInv'
  BY <1>2, EventStepMoves, WriteKeepsEntryInv DEF Workers
<1>3. ASSUME NEW s \in Schedulers, FireTimeout(s) PROVE EntryInv'
  BY <1>3, TimeoutStepMoves, WriteKeepsEntryInv DEF Workers
<1>4. QED
  BY <1>1, <1>2, <1>3, StepMovesOrNot, QuietStepKeepsEntryInv, CreationKeepsEntryInv

\* What a database holds at first, no write of this engine entered.
LEMMA InitEntryInv == Init => EntryInv
<1> SUFFICES ASSUME Init PROVE EntryInv
  OBVIOUS
<1>1. PICK s \in Stores : entity = s.entity /\ history = s.history
  BY DEF Init
<1>2. CASE entity = NoEntity
  <2>1. history = <<>>
    <3>1. NoEntity.version = 0
      BY DEF NoEntity
    <3>2. QED
      BY <1>1, <1>2, <3>1, StoresAssumption DEF IsEntity
  <2>2. QED
    BY <1>2, <2>1 DEF EntryInv
<1>3. CASE entity # NoEntity
  <2>1. IsEntity(entity, 1) /\ Inherited(entity, history) /\ IsSeq(history)
    BY <1>1, <1>3, StoresAssumption
  <2>2. Tracked = {} /\ MainRows = {}
    BY <1>1, StoresAssumption DEF Tracked, MainRows
  <2>3. Len(history) \in Nat /\ DOMAIN history = 1..Len(history)
    BY <2>1, SeqDomain
  <2>4. ASSUME NEW r \in Regions PROVE IndexOK(r) /\ SeqOK(r) /\ LeadsOK(r)
    <3> DEFINE entry == CurrentEntries[r]
               last == LastRowBefore(DOMAIN history, r, Len(history) + 1)
    <3>1. /\ entry.row = 0 /\ entry.basis # "transition" /\ entry.seq = entity.version
          /\ entity.created_at <= entry.entered_at
          /\ \A i \in LastFor(history, r) :
               history[i].to = entity.states[r] /\ history[i].at \in 0..entry.entered_at
      BY <2>1 DEF Inherited, CurrentEntries
    <3>2. IndexOK(r)
      BY <2>2, <3>1 DEF IndexOK, LastRowBefore
    <3>3. SeqOK(r)
      <4>1. {i \in MainRows : i > entry.row} = {}
        BY <2>2
      <4>2. Cardinality({i \in MainRows : i > entry.row}) = 0
        BY <4>1, FS_EmptySet
      <4>3. entity.version - entry.seq = 0
        BY <2>1, <3>1 DEF IsEntity
      <4>4. QED
        BY <4>2, <4>3 DEF SeqOK
    <3>4. last # 0 => last \in LastFor(history, r)
      <4>1. last = LastIn(history, DOMAIN history, r, Len(history) + 1)
        BY DEF LastRowBefore, LastIn
      <4> HIDE DEF last
      <4>2. last # 0 => /\ last \in DOMAIN history /\ history[last].region = r
                        /\ \A i \in DOMAIN history : history[i].region = r /\ i < Len(history) + 1 => i <= last
        BY <2>3, <4>1, LastInIs
      <4>3. \A i \in DOMAIN history : i < Len(history) + 1
        BY <2>3
      <4>4. QED
        BY <4>2, <4>3 DEF LastFor
    <3>5. LeadsOK(r)
      <4> HIDE DEF entry
      <4>1. QED
        BY <3>1, <3>4 DEF LeadsOK, entry
    <3>6. QED
      BY <3>2, <3>3, <3>5
  <2>5. QED
    BY <1>3, <2>4 DEF EntryInv
<1>4. QED
  BY <1>2, <1>3

LEMMA EntryInvariance == Spec => [](AtomicInv /\ EntryInv)
<1>1. Init /\ AtomicInv => EntryInv
  BY InitEntryInv
<1>2. AtomicInv /\ EntryInv /\ [Next]_vars => EntryInv'
  BY NextKeepsEntryInv
<1>3. QED
  BY <1>1, <1>2, InitEntryInv, AtomicInvariance, PTL DEF Spec

\* region_entries is an index of the history: EntriesMatchHistory, for every
\* machine, however many regions its joins enter in one write.
THEOREM EntriesIndexTheHistory == Spec => []EntriesMatchHistory
<1>1. EntryInv => EntriesMatchHistory
  BY DEF EntryInv, IndexOK, EntriesMatchHistory
<1>2. QED
  BY <1>1, EntryInvariance, PTL

\* seq is the version of the write that entered the instance:
\* SeqIsEnteringVersion, for every machine and every number of writers.
THEOREM InstancesAreNumberedByVersion == Spec => []SeqIsEnteringVersion
<1>1. EntryInv => SeqIsEnteringVersion
  BY DEF EntryInv, SeqOK, SeqIsEnteringVersion
<1>2. QED
  BY <1>1, EntryInvariance, PTL

-----------------------------------------------------------------------------
(* Timers.                                                                 *)

\* Timer n was due when row i fired it: `prev` is the row before it of its
\* region.
FiredBy(i, n) ==
  LET row  == history[i]
      prev == LastRowBefore(DOMAIN history, row.region, i)
      entered_at == IF prev = 0 THEN entity.created_at ELSE history[prev].at
  IN /\ IsTimeout(n)
     /\ Machine.transitions[n].region = row.region
     /\ Machine.transitions[n].from = row.from
     /\ Machine.transitions[n].to = row.to
     /\ prev # 0 => row.from = history[prev].to
     /\ row.ts >= entered_at + Machine.transitions[n].guard.ms

\* What fired a committed row does not change with the rows that follow.
LEMMA FiredByIsForGood ==
  ASSUME AtomicInv, NEW w \in Workers, NEW spec, Writes(w, spec), NEW i \in DOMAIN history,
         NEW n, FiredBy(i, n)
  PROVE  FiredBy(i, n)'
<1> DEFINE rows == Rows(spec, entity.version + 1, clock)
           prev == LastRowBefore(DOMAIN history, history[i].region, i)
<1>1. /\ IsSeq(history) /\ Len(history) \in Nat /\ DOMAIN history = 1..Len(history)
      /\ snap[w] = entity
  BY SeqDomain DEF AtomicInv, ConflictInv, TypeInv, LockInv, TypeOK, StoreOK, Writes
<1>2. /\ history' = history \o rows
      /\ IsSeq(rows) /\ Len(rows) \in Nat \ {0}
      /\ Len(history') = Len(history) + Len(rows)
      /\ \A j \in 1..Len(history) : history'[j] = history[j]
  BY WriteAppends DEF AtomicInv
<1>3. entity'.created_at = entity.created_at
  <2>1. PICK refused : WriteEntity(w, spec, refused)
    BY DEF Writes
  <2>2. entity' = Written(entity, spec.states, spec.context, Entered(rows, Len(history) + 1), clock)
    BY <1>1, <2>1 DEF WriteEntity, Writes
  <2>3. QED
    BY <2>2 DEF Written
<1> HIDE DEF rows
<1>4. IsSeq(history') /\ DOMAIN history' = 1..Len(history')
  <2>1. IsSeq(history')
    BY <1>1, <1>2, ConcatIsSeq
  <2>2. QED
    BY <2>1, SeqDomain
<1>5. \A j \in DOMAIN history' : j < i => j \in DOMAIN history
  BY <1>1, <1>2, <1>4
<1>6. \A j \in DOMAIN history : j \in DOMAIN history' /\ history'[j] = history[j]
  BY <1>1, <1>2, <1>4
<1>7. LastRowBefore(DOMAIN history, history[i].region, i)' = prev
  <2> DEFINE before == {j \in DOMAIN history : history[j].region = history[i].region /\ j < i}
             now == {j \in DOMAIN history' : history'[j].region = history'[i].region /\ j < i}
  <2>1. now = before
    BY <1>5, <1>6
  <2>2. /\ prev = IF before = {} THEN 0 ELSE CHOOSE j \in before : \A k \in before : k <= j
        /\ LastRowBefore(DOMAIN history, history[i].region, i)'
             = IF now = {} THEN 0 ELSE CHOOSE j \in now : \A k \in now : k <= j
    BY DEF LastRowBefore
  <2> HIDE DEF now, before, prev
  <2>3. QED
    BY <2>1, <2>2
<1>8. prev = 0 \/ prev \in DOMAIN history
  <2>1. prev = LastIn(history, DOMAIN history, history[i].region, i)
    BY DEF LastRowBefore, LastIn
  <2> HIDE DEF prev
  <2>2. QED
    BY <1>1, <2>1, LastInIs
<1>9. history'[i] = history[i] /\ (prev # 0 => history'[prev] = history[prev])
  BY <1>6, <1>8
<1>10. QED
  BY <1>3, <1>7, <1>9 DEF FiredBy

\* The main row of a write, at its place in the history.
LEMMA MainRowOfWrite ==
  ASSUME AtomicInv, NEW w \in Workers, NEW spec, Writes(w, spec), NEW i, i = Len(history) + 1
  PROVE  /\ history'[i].region = spec.region /\ history'[i].from = spec.from
         /\ history'[i].to = spec.to /\ history'[i].type = spec.type /\ history'[i].ts = spec.ts
<1>1. PICK rows : rows = Rows(spec, entity.version + 1, clock)
  OBVIOUS
<1>2. history' = history \o rows /\ IsSeq(rows) /\ Len(rows) \in Nat \ {0}
  BY <1>1, WriteAppends DEF AtomicInv
<1>3. IsSeq(history)
  BY DEF AtomicInv, ConflictInv, TypeInv, TypeOK, StoreOK
<1>4. 1 \in 1..Len(rows)
  BY <1>2
<1>5. history'[i] = rows[1]
  BY <1>2, <1>3, <1>4, ConcatIsSeq
<1>6. IsSeq(spec.fired)
  BY DEF Writes
<1>7. /\ rows[1].region = spec.region /\ rows[1].from = spec.from /\ rows[1].to = spec.to
      /\ rows[1].type = spec.type /\ rows[1].ts = spec.ts
  BY <1>1, <1>6, RowsMove
<1>8. QED
  BY <1>5, <1>7

\* The instance a timeout is fired for is the one the history names, and it is
\* old enough.
LEMMA TimeoutIsDue ==
  ASSUME AtomicInv, EntryInv, NEW s \in Schedulers, FireTimeout(s),
         NEW spec, Writes(s, spec), spec \in TimeoutWrites(entity, Machine.transitions[cursor[s]], tick[s]),
         NEW i, i = Len(history) + 1, NEW c, c = cursor[s]
  PROVE  FiredBy(i, c)'
<1> DEFINE t == Machine.transitions[c]
           n == Len(history)
           prev == LastRowBefore(DOMAIN history, t.region, n + 1)
           entry == CurrentEntries[t.region]
<1>1. s \in Workers
  BY DEF Workers
<1>2. /\ IsSeq(history) /\ n \in Nat /\ DOMAIN history = 1..n
      /\ snap[s] = entity /\ entity # NoEntity /\ IsEntity(entity, clock)
  BY <1>1, SeqDomain DEF AtomicInv, ConflictInv, TypeInv, LockInv, TypeOK, StoreOK, Writes
<1>3. IsTimeout(c) /\ c \in DOMAIN Machine.transitions /\ tick[s] \in Int
  <2>1. phase[s] = "tx" /\ PassInv /\ TypeInv
    BY DEF FireTimeout, AtomicInv, ConflictInv
  <2>2. clock \in Nat
    BY <2>1, BoundsAssumption DEF TypeInv, TypeOK, StoreOK
  <2>3. tick[s] \in Int
    BY <2>1, <2>2 DEF PassInv
  <2>4. QED
    BY <2>1, <2>3 DEF PassInv
<1>4. t.guard.ms \in Int
  BY <1>3, TimersAssumption
<1>5. /\ t.region \in Regions /\ entity.states[t.region] = t.from
      /\ entry.entered_at + t.guard.ms <= tick[s]
  BY <1>2 DEF FireTimeout, StillDue, TimeoutDue, IsEntity, CurrentEntries
<1>6. spec.region = t.region /\ spec.from = t.from /\ spec.to = t.to /\ spec.ts = tick[s]
  BY DEF TimeoutWrites
<1>7. /\ history'[i].region = t.region /\ history'[i].from = t.from
      /\ history'[i].to = t.to /\ history'[i].ts = tick[s]
  BY <1>1, <1>6, MainRowOfWrite
<1>8. /\ Len(history') \in Nat /\ DOMAIN history' = 1..Len(history') /\ Len(history') > n
      /\ \A j \in 1..n : history'[j] = history[j]
      /\ entity'.created_at = entity.created_at
  <2>1. PICK rows : rows = Rows(spec, entity.version + 1, clock)
    OBVIOUS
  <2>2. /\ history' = history \o rows
        /\ IsSeq(rows) /\ Len(rows) \in Nat \ {0}
        /\ Len(history') = n + Len(rows)
        /\ \A j \in 1..n : history'[j] = history[j]
    BY <1>1, <2>1, WriteAppends DEF AtomicInv
  <2>3. IsSeq(history')
    BY <1>2, <2>2, ConcatIsSeq
  <2>4. Len(history') \in Nat /\ DOMAIN history' = 1..Len(history')
    BY <2>3, SeqDomain
  <2>5. PICK refused : WriteEntity(s, spec, refused)
    BY DEF Writes
  <2>6. entity' = Written(entity, spec.states, spec.context, Entered(rows, n + 1), clock)
    BY <1>2, <2>1, <2>5 DEF WriteEntity, Writes
  <2>7. entity'.created_at = entity.created_at
    BY <2>6 DEF Written
  <2>8. QED
    BY <1>2, <2>2, <2>4, <2>7
<1>9. LastRowBefore(DOMAIN history, history[i].region, i)' = prev
  <2> DEFINE before == {j \in DOMAIN history : history[j].region = t.region /\ j < i}
             now == {j \in DOMAIN history' : history'[j].region = history'[i].region /\ j < i}
  <2>1. now = before
    BY <1>2, <1>7, <1>8
  <2>2. prev = IF before = {} THEN 0 ELSE CHOOSE j \in before : \A k \in before : k <= j
    BY DEF LastRowBefore
  <2>3. LastRowBefore(DOMAIN history, history[i].region, i)'
          = IF now = {} THEN 0 ELSE CHOOSE j \in now : \A k \in now : k <= j
    BY DEF LastRowBefore
  <2> HIDE DEF now, before, prev
  <2>4. QED
    BY <2>1, <2>2, <2>3
<1>10. IF prev = 0 THEN entity.created_at <= entry.entered_at
       ELSE history[prev].to = entity.states[t.region] /\ history[prev].at \in 0..entry.entered_at
  BY <1>2, <1>5 DEF EntryInv, LeadsOK
<1>11. prev = 0 \/ prev \in 1..n
  <2>1. prev = LastIn(history, DOMAIN history, t.region, n + 1)
    BY DEF LastRowBefore, LastIn
  <2> HIDE DEF prev
  <2>2. QED
    BY <1>2, <2>1, LastInIs
<1>12. entry.entered_at \in Int /\ entity.created_at \in Int
  BY <1>2, <1>5, BoundsAssumption
     DEF AtomicInv, ConflictInv, TypeInv, TypeOK, StoreOK, IsEntity, CurrentEntries
<1> HIDE DEF prev, entry
<1>13. /\ prev # 0 => t.from = history'[prev].to
       /\ tick[s] >= (IF prev = 0 THEN entity'.created_at ELSE history'[prev].at) + t.guard.ms
  <2>1. CASE prev = 0
    BY <1>3, <1>4, <1>5, <1>8, <1>10, <1>12, <2>1
  <2>2. CASE prev # 0
    <3>1. history'[prev] = history[prev] /\ history[prev].to = t.from
          /\ history[prev].at \in Int /\ history[prev].at <= entry.entered_at
      BY <1>5, <1>8, <1>10, <1>11, <1>12, <2>2
    <3>2. QED
      BY <1>3, <1>4, <1>5, <1>12, <2>2, <3>1
  <2>3. QED
    BY <2>1, <2>2
<1>14. QED
  BY <1>3, <1>7, <1>9, <1>13 DEF FiredBy

\* No timer fires early, and none for an instance its region has left.
LEMMA NextKeepsTimeoutsDue ==
  ASSUME \A ev \in Events : ev.type # "$timeout",
         AtomicInv, EntryInv, TimeoutsAreDue, [Next]_vars
  PROVE  TimeoutsAreDue'
<1>1. TimeoutsAreDue <=> \A i \in MainRows : history[i].type = "$timeout" =>
                           \E n \in DOMAIN Machine.transitions : FiredBy(i, n)
  BY DEF TimeoutsAreDue, FiredBy
<1>2. TimeoutsAreDue' <=> \A i \in MainRows' : history'[i].type = "$timeout" =>
                            \E n \in DOMAIN Machine.transitions : FiredBy(i, n)'
  BY DEF TimeoutsAreDue, FiredBy
<1>3. ASSUME NEW w \in Workers, NEW spec, Writes(w, spec),
             NEW last, last = Len(history) + 1,
             spec.type = "$timeout" => \E n \in DOMAIN Machine.transitions : FiredBy(last, n)'
      PROVE  TimeoutsAreDue'
  <2>1. MainRows' = MainRows \union {last}
    BY <1>3, WriteAddsOneMainRow DEF AtomicInv
  <2>2. ASSUME NEW i \in MainRows, history'[i].type = "$timeout"
        PROVE  \E n \in DOMAIN Machine.transitions : FiredBy(i, n)'
    <3>1. i \in DOMAIN history /\ DOMAIN history = 1..Len(history)
      BY SeqDomain DEF MainRows, Tracked, AtomicInv, ConflictInv, TypeInv, TypeOK, StoreOK
    <3>2. history'[i] = history[i]
      BY <1>3, <3>1, WriteAppends DEF AtomicInv
    <3>3. PICK n \in DOMAIN Machine.transitions : FiredBy(i, n)
      BY <1>1, <2>2, <3>2
    <3>4. QED
      BY <1>3, <3>1, <3>3, FiredByIsForGood
  <2>3. history'[last].type = spec.type
    BY <1>3, MainRowOfWrite
  <2>4. QED
    BY <1>2, <1>3, <2>1, <2>2, <2>3
<1>4. ASSUME NEW p \in Requests, ApplyEvent(p) PROVE TimeoutsAreDue'
  <2>1. PICK spec : Writes(p, spec) /\ spec.type = request[p].type
    BY <1>4, EventStepMoves
  <2>2. request[p] \in Events
    BY DEF AtomicInv, ConflictInv, TypeInv, TypeOK, WorkersOK
  <2>3. spec.type # "$timeout" /\ p \in Workers
    BY <2>1, <2>2 DEF Workers
  <2>4. PICK last : last = Len(history) + 1
    OBVIOUS
  <2>5. QED
    BY <1>3, <2>1, <2>3, <2>4
<1>5. ASSUME NEW s \in Schedulers, FireTimeout(s) PROVE TimeoutsAreDue'
  <2>1. PICK spec : /\ Writes(s, spec)
                    /\ spec \in TimeoutWrites(entity, Machine.transitions[cursor[s]], tick[s])
    BY <1>5, TimeoutStepMoves
  <2>2. PICK last, c : last = Len(history) + 1 /\ c = cursor[s]
    OBVIOUS
  <2>3. FiredBy(last, c)'
    BY <1>5, <2>1, <2>2, TimeoutIsDue
  <2>4. c \in DOMAIN Machine.transitions /\ s \in Workers
    BY <1>5, <2>2 DEF FireTimeout, AtomicInv, PassInv, Workers
  <2>5. QED
    BY <1>3, <2>1, <2>2, <2>3, <2>4
<1>6. CASE history' = history /\ entity' = entity
  BY <1>6 DEF TimeoutsAreDue, MainRows, Tracked, LastRowBefore
<1>7. CASE history' = history /\ entity = NoEntity
  <2>1. history' = <<>>
    BY <1>7 DEF EntryInv
  <2>2. MainRows' = {}
    BY <2>1 DEF MainRows, Tracked
  <2>3. QED
    BY <2>2 DEF TimeoutsAreDue
<1>8. QED
  BY <1>4, <1>5, <1>6, <1>7, StepMovesOrNot

\* A timer only ever fires for the instance its region is in, and never before
\* that instance is timeout_ms old: TimeoutsAreDue, for every machine, every
\* number of replicas and every delay between a tick's clock reading and its
\* transaction, as long as no client submits an event of the type $timeout.
THEOREM TimersFireWhenDue ==
  ASSUME \A ev \in Events : ev.type # "$timeout"
  PROVE  Spec => []TimeoutsAreDue
<1>1. Init => TimeoutsAreDue
  <2> SUFFICES ASSUME Init PROVE TimeoutsAreDue
    OBVIOUS
  <2>1. MainRows = {}
    BY StoresAssumption DEF Init, MainRows, Tracked
  <2>2. QED
    BY <2>1 DEF TimeoutsAreDue
<1>2. AtomicInv /\ EntryInv /\ TimeoutsAreDue /\ [Next]_vars => TimeoutsAreDue'
  BY NextKeepsTimeoutsDue
<1>3. QED
  BY <1>1, <1>2, EntryInvariance, PTL DEF Spec
=============================================================================
