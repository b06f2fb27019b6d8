----------------------- MODULE EntityLifecycleProofs -----------------------
(***************************************************************************)
(* Theorems about EntityLifecycle, for every machine, every number of      *)
(* requests and replicas, and every bound: what an answered DELETE has     *)
(* ended stays ended, row and history are of one life unless a delete goes *)
(* wrong, and only what a delete left behind makes the unique index bite.  *)
(***************************************************************************)
EXTENDS EntityLifecycle, TransitionCoreProofs

-----------------------------------------------------------------------------
(* The invariant.  TypeInv of TransitionCoreProofs is about a row that is  *)
(* never deleted; this one is about lives.                                 *)

LifeTypes ==
  /\ entity = NoEntity \/ IsEntity(entity, clock)
  /\ clock \in Nat
  /\ IsSeq(history)
  /\ DOMAIN phase = Workers /\ DOMAIN snap = Workers /\ DOMAIN reply = Workers
  /\ born \in 0..Len(history) /\ gone \in 0..Len(history)
  /\ cut \in [Requests -> 0..Len(history)]

\* A worker inside its transaction holds the lock, and the row it has read is the
\* committed one: there is none if a delete came before.
LifeLock == \A w \in Workers : phase[w] = "tx" => lock = w /\ snap[w] = entity

\* Keys of the rows of the current life lie behind its row.
LifeKeys == entity # NoEntity => \A i \in LiveRows : i > born => KeyOK(history[i], entity)

\* While no delete has gone wrong, one that is between its statements finds the
\* row gone, and no other has begun.
LifeRows ==
  /\ AcknowledgedDeletesAreFinal
  /\ ~ torn /\ ~ overlapped =>
       IF Purging = {} THEN LiveRows = IF entity = NoEntity THEN {} ELSE born + 1..Len(history)
       ELSE entity = NoEntity

LifeInv == LifeTypes /\ LifeLock /\ LifeKeys /\ LifeRows

\* What ConflictsComeFromEarlierLives says of one step.
ConflictIsEarlier ==
  (\E w \in Workers : reply[w] # "conflict" /\ reply'[w] = "conflict") => \E i \in LiveRows : i <= born

-----------------------------------------------------------------------------
(* Gaps, and steps that only move a worker.                                *)

\* No row a writer of this engine or of an earlier one wrote is a gap.
LEMMA KeptRowsAreNoGaps ==
  ASSUME NEW row, NEW e, KeyOK(row, e)
  PROVE  ~ IsGap(row)
<1>1. NoRow.kind = "gone" /\ NoIdentity.kind = "null" /\ \A type, ts : EventIdentity(type, ts).kind = "evt"
  BY DEF NoRow, NoIdentity, EventIdentity
<1>2. QED
  BY <1>1 DEF KeyOK, IsGap

\* A request that is not between the statements of a delete, and does not come
\* there, changes nothing about those that are.
LEMMA NobodyPurges ==
  ASSUME NEW w \in Workers, DOMAIN phase = Workers, phase[w] # "purge",
         NEW next, next # "purge", phase' = [phase EXCEPT ![w] = next]
  PROVE  Purging' = Purging
<1>1. \A p \in Requests : p \in Workers
  BY DEF Workers
<1>2. \A p \in Requests : phase'[p] = "purge" <=> phase[p] = "purge"
  BY <1>1
<1>3. QED
  BY <1>2 DEF Purging

\* A step that writes no row and begins and ends no life.
LEMMA QuietKeepsLifeInv ==
  ASSUME LifeInv, UNCHANGED <<entity, history, born, gone, cut, torn, overlapped>>,
         UNCHANGED clock, Purging' = Purging,
         DOMAIN phase' = Workers, DOMAIN snap' = Workers, DOMAIN reply' = Workers, LifeLock'
  PROVE  LifeInv'
<1>1. LiveRows' = LiveRows
  BY DEF LiveRows
<1>2. LifeTypes'
  BY DEF LifeInv, LifeTypes
<1>3. LifeKeys'
  BY <1>1 DEF LifeInv, LifeKeys
<1>4. LifeRows'
  BY <1>1 DEF LifeInv, LifeRows, AcknowledgedDeletesAreFinal
<1>5. QED
  BY <1>2, <1>3, <1>4 DEF LifeInv

\* Nor does one that answers anything but "conflict" contradict the property.
LEMMA OtherAnswers ==
  ASSUME NEW w, NEW what, what # "conflict" \/ what = reply[w],
         DOMAIN reply = Workers, reply' = reply \/ reply' = [reply EXCEPT ![w] = what]
  PROVE  ConflictIsEarlier
BY DEF ConflictIsEarlier

\* A worker outside of a transaction goes on, and not into one.
LEMMA MoveKeepsLifeInv ==
  ASSUME LifeInv, NEW w \in Workers, phase[w] # "purge",
         NEW next, next \notin {"purge", "tx"}, phase' = [phase EXCEPT ![w] = next],
         UNCHANGED <<entity, history, born, gone, cut, torn, overlapped, clock, lock, snap>>,
         DOMAIN reply' = Workers
  PROVE  LifeInv'
<1>1. DOMAIN phase = Workers /\ DOMAIN snap = Workers
  BY DEF LifeInv, LifeTypes
<1>2. Purging' = Purging
  BY <1>1, NobodyPurges
<1>3. LifeLock'
  BY <1>1 DEF LifeInv, LifeLock
<1>4. QED
  BY <1>1, <1>2, <1>3, QuietKeepsLifeInv

\* One inside leaves its transaction, without a write.
LEMMA LeaveKeepsLifeInv ==
  ASSUME LifeInv, NEW w \in Workers, phase[w] = "tx",
         NEW next, next \notin {"purge", "tx"}, phase' = [phase EXCEPT ![w] = next],
         lock' = NoOne, snap' = [snap EXCEPT ![w] = NoEntity],
         UNCHANGED <<entity, history, born, gone, cut, torn, overlapped, clock>>,
         DOMAIN reply' = Workers
  PROVE  LifeInv'
<1>1. DOMAIN phase = Workers /\ DOMAIN snap = Workers
  BY DEF LifeInv, LifeTypes
<1>2. Purging' = Purging
  BY <1>1, NobodyPurges
<1>3. \A v \in Workers : phase'[v] # "tx"
  BY <1>1 DEF LifeInv, LifeLock
<1>4. LifeLock'
  BY <1>3 DEF LifeLock
<1>5. QED
  BY <1>1, <1>2, <1>4, QuietKeepsLifeInv

\* And one enters: BEGIN IMMEDIATE.
LEMMA BeginKeepsLifeInv ==
  ASSUME LifeInv, NEW w \in Workers, phase[w] # "purge", Begin(w), UNCHANGED lifecycle
  PROVE  LifeInv' /\ ConflictIsEarlier
<1>1. DOMAIN phase = Workers /\ DOMAIN snap = Workers /\ DOMAIN reply = Workers
  BY DEF LifeInv, LifeTypes
<1>2. /\ lock = NoOne /\ lock' = w
      /\ snap' = [snap EXCEPT ![w] = entity] /\ phase' = [phase EXCEPT ![w] = "tx"]
      /\ UNCHANGED <<entity, history, clock, reply>>
  BY DEF Begin, store
<1>3. Purging' = Purging
  BY <1>1, <1>2, NobodyPurges
<1>4. LifeLock'
  BY <1>1, <1>2, WorkersAssumption DEF LifeInv, LifeLock
<1>5. UNCHANGED <<born, gone, cut, torn, overlapped>>
  BY DEF lifecycle, ghosts
<1>6. LifeInv'
  BY <1>1, <1>2, <1>3, <1>4, <1>5, QuietKeepsLifeInv
<1>7. QED
  BY <1>1, <1>2, <1>6, OtherAnswers

-----------------------------------------------------------------------------
(* Writes.                                                                 *)

\* The rows of one write follow those there are.
LEMMA RowsFollow ==
  ASSUME IsSeq(history), NEW rows, IsSeq(rows), history' = history \o rows
  PROVE  /\ IsSeq(history') /\ Len(history) \in Nat /\ Len(history') \in Nat
         /\ Len(history) <= Len(history')
         /\ DOMAIN history = 1..Len(history) /\ DOMAIN history' = 1..Len(history')
         /\ \A i \in 1..Len(history) : history'[i] = history[i]
         /\ \A i \in Len(history) + 1..Len(history') :
              i - Len(history) \in DOMAIN rows /\ history'[i] = rows[i - Len(history)]
<1>1. Len(history) \in Nat /\ DOMAIN history = 1..Len(history) /\ Len(rows) \in Nat /\ DOMAIN rows = 1..Len(rows)
  BY SeqDomain
<1>2. /\ IsSeq(history') /\ Len(history') = Len(history) + Len(rows)
      /\ \A i \in 1..Len(history) : history'[i] = history[i]
      /\ \A i \in 1..Len(rows) : history'[Len(history) + i] = rows[i]
  BY ConcatIsSeq
<1>3. DOMAIN history' = 1..Len(history')
  BY <1>2, SeqDomain
<1>4. ASSUME NEW i \in Len(history) + 1..Len(history')
      PROVE  i - Len(history) \in DOMAIN rows /\ history'[i] = rows[i - Len(history)]
  <2>1. i - Len(history) \in 1..Len(rows) /\ Len(history) + (i - Len(history)) = i
    BY <1>1, <1>2
  <2>2. QED
    BY <1>1, <1>2, <2>1
<1>5. QED
  BY <1>1, <1>2, <1>3, <1>4

\* The write of a worker whose main key no row of the current life has.
LEMMA WriteKeepsLifeInv ==
  ASSUME LifeInv, NEW w \in Workers, phase[w] = "tx", entity # NoEntity,
         NEW spec, DOMAIN spec.states = Regions, IsSeq(spec.fired), MainKeyOK(spec, entity),
         \A i \in LiveRows : i > born => history[i].key # spec.key,
         NEW refused \in {"idle", "scan"}, WriteEntity(w, spec, refused), UNCHANGED lifecycle
  PROVE  LifeInv' /\ ConflictIsEarlier
<1> DEFINE version == entity.version + 1
           rows    == Rows(spec, version, clock)
           first   == Len(history) + 1
<1>1. snap[w] = entity /\ IsEntity(entity, clock) /\ clock \in Nat /\ IsSeq(history)
  BY DEF LifeInv, LifeTypes, LifeLock
<1>2. /\ lock' = NoOne /\ snap' = [snap EXCEPT ![w] = NoEntity] /\ UNCHANGED clock
      /\ DOMAIN phase = Workers /\ DOMAIN snap = Workers /\ DOMAIN reply = Workers
  BY DEF WriteEntity, LifeInv, LifeTypes
<1>3. UNCHANGED <<born, gone, cut, torn, overlapped>>
  BY DEF lifecycle, ghosts
<1>4. CASE Conflicts(entity, rows)
  <2>1. /\ phase' = [phase EXCEPT ![w] = refused] /\ reply' = [reply EXCEPT ![w] = "conflict"]
        /\ UNCHANGED <<entity, history>>
    BY <1>1, <1>4 DEF WriteEntity, Answer, store
  <2>2. LifeInv'
    BY <1>2, <1>3, <2>1, LeaveKeepsLifeInv
  <2>3. \E i \in LiveRows : i <= born
    <3>1. PICK i \in DOMAIN rows, j \in DOMAIN history : rows[i].key = history[j].key
      BY <1>4 DEF Conflicts
    <3> HIDE DEF rows
    <3>2. entity.version \in Nat
      BY <1>1 DEF IsEntity
    <3>3. ASSUME NEW row, KeyOK(row, entity), row.key # spec.key PROVE rows[i].key # row.key
      BY <3>2, <3>3, WrittenKeysAreNew DEF rows
    <3>4. j \in LiveRows
      <4>1. KeyOK(rows[i], Written(entity, spec.states, spec.context, Entered(rows, first), clock))
        BY <1>1, KeysOfWrite DEF rows
      <4>2. ~ IsGap(rows[i])
        BY <4>1, KeptRowsAreNoGaps
      <4>3. QED
        BY <3>1, <4>2 DEF LiveRows, IsGap
    <3>5. ~ (j > born)
      BY <3>1, <3>3, <3>4 DEF LifeInv, LifeKeys
    <3>6. j \in Int /\ born \in Int
      BY <1>1, SeqDomain DEF LifeInv, LifeTypes
    <3>7. QED
      BY <3>4, <3>5, <3>6
  <2>4. QED
    BY <2>2, <2>3 DEF ConflictIsEarlier
<1>5. CASE ~ Conflicts(entity, rows)
  <2>1. /\ entity' = Written(entity, spec.states, spec.context, Entered(rows, first), clock)
        /\ history' = history \o rows
        /\ phase' = [phase EXCEPT ![w] = "dispatch"]
        /\ UNCHANGED reply
    BY <1>1, <1>5 DEF WriteEntity
  <2>2. /\ entity' # NoEntity /\ IsEntity(entity', clock)
        /\ \A row : KeyOK(row, entity) => KeyOK(row, entity')
        /\ IsSeq(rows) /\ \A i \in DOMAIN rows : KeyOK(rows[i], entity')
    BY <1>1, <2>1, KeysOfWrite
  <2> HIDE DEF rows
  <2>3. /\ IsSeq(history') /\ Len(history) \in Nat /\ Len(history') \in Nat
        /\ Len(history) <= Len(history')
        /\ DOMAIN history = 1..Len(history) /\ DOMAIN history' = 1..Len(history')
        /\ \A i \in 1..Len(history) : history'[i] = history[i]
        /\ \A i \in Len(history) + 1..Len(history') :
             i - Len(history) \in DOMAIN rows /\ history'[i] = rows[i - Len(history)]
    BY <1>1, <2>1, <2>2, RowsFollow
  <2>4. \A i \in Len(history) + 1..Len(history') : KeyOK(history'[i], entity')
    BY <2>2, <2>3
  <2>5. LiveRows' = LiveRows \union (Len(history) + 1..Len(history'))
    <3>1. \A i \in Len(history) + 1..Len(history') : ~ IsGap(history'[i])
      BY <2>4, KeptRowsAreNoGaps
    <3>2. QED
      BY <2>3, <3>1 DEF LiveRows
  <2>6. LifeTypes'
    BY <1>2, <1>3, <2>1, <2>2, <2>3 DEF LifeInv, LifeTypes
  <2>7. LifeLock'
    BY <1>2, <2>1 DEF LifeInv, LifeLock
  <2>8. LifeKeys'
    <3>1. ASSUME NEW i \in LiveRows', i > born PROVE KeyOK(history'[i], entity')
      <4>1. CASE i \in LiveRows
        <5>1. KeyOK(history[i], entity) /\ history'[i] = history[i]
          BY <2>3, <3>1, <4>1 DEF LifeInv, LifeKeys, LiveRows
        <5>2. QED
          BY <2>2, <5>1
      <4>2. CASE i \in Len(history) + 1..Len(history')
        BY <2>4, <4>2
      <4>3. QED
        BY <2>5, <4>1, <4>2
    <3>2. QED
      BY <1>3, <3>1 DEF LifeKeys
  <2>9. LifeRows'
    <3>1. gone \in 0..Len(history) /\ born \in 0..Len(history)
      BY DEF LifeInv, LifeTypes
    <3>2. AcknowledgedDeletesAreFinal'
      BY <1>3, <2>3, <2>5, <3>1 DEF LifeInv, LifeRows, AcknowledgedDeletesAreFinal
    <3>3. Purging' = Purging
      BY <1>2, <2>1, NobodyPurges
    <3>4. ASSUME ~ torn, ~ overlapped
          PROVE  Purging = {} /\ LiveRows' = born + 1..Len(history')
      <4>1. Purging = {} /\ LiveRows = born + 1..Len(history)
        BY <3>4 DEF LifeInv, LifeRows
      <4>2. QED
        BY <2>3, <2>5, <3>1, <4>1
    <3>5. QED
      BY <1>3, <2>2, <3>2, <3>3, <3>4 DEF LifeRows
  <2>10. ConflictIsEarlier
    BY <2>1 DEF ConflictIsEarlier
  <2>11. QED
    BY <2>6, <2>7, <2>8, <2>9, <2>10 DEF LifeInv
<1>6. QED
  BY <1>4, <1>5

\* An event that is new by the dedup query.
LEMMA ApplyEventKeepsLifeInv ==
  ASSUME LifeInv, NEW p \in Requests, ApplyEvent(p), snap[p] # NoEntity, UNCHANGED lifecycle
  PROVE  LifeInv' /\ ConflictIsEarlier
<1> DEFINE ev == request[p]
<1> p \in Workers
  BY DEF Workers
<1>1. phase[p] = "tx" /\ snap[p] = entity /\ entity # NoEntity /\ Dedup(history, ev) = "new"
  BY DEF ApplyEvent, LifeInv, LifeLock
<1>2. PICK t \in MatchOf(entity, ev) : \E spec \in EventWrites(entity, ev, t) : WriteEntity(p, spec, "idle")
  BY <1>1 DEF ApplyEvent
<1>9. PICK spec \in EventWrites(entity, ev, t) : WriteEntity(p, spec, "idle")
  BY <1>2
<1>3. DOMAIN entity.states = Regions
  BY <1>1 DEF LifeInv, LifeTypes, IsEntity
<1>4. DOMAIN spec.states = Regions /\ IsSeq(spec.fired)
  BY <1>3, EventWritesAreCascades
<1>5. spec.type = ev.type /\ spec.ts = ev.ts /\ spec.key = EventIdentity(ev.type, ev.ts)
  BY DEF EventWrites
<1> HIDE DEF ev
<1>6. MainKeyOK(spec, entity)
  BY <1>5 DEF MainKeyOK
<1>7. ASSUME NEW i \in LiveRows, i > born PROVE history[i].key # spec.key
  <2>1. KeyOK(history[i], entity)
    BY <1>1, <1>7 DEF LifeInv, LifeKeys
  <2>2. history[i].type # ev.type \/ history[i].ts # ev.ts
    BY <1>1 DEF Dedup, SameIdentity, LiveRows
  <2>3. QED
    BY <1>5, <2>1, <2>2, EventKeyIsNew
<1>8. QED
  BY <1>1, <1>9, <1>4, <1>6, <1>7, WriteKeepsLifeInv

\* A timeout that is still due.
LEMMA FireTimeoutKeepsLifeInv ==
  ASSUME LifeInv, NEW s \in Schedulers, FireTimeout(s), UNCHANGED lifecycle
  PROVE  LifeInv' /\ ConflictIsEarlier
<1> DEFINE t   == Machine.transitions[cursor[s]]
           seq == EffectiveEntries(Machine, entity)[t.region].seq
<1> s \in Workers
  BY DEF Workers
<1>1. phase[s] = "tx" /\ snap[s] = entity /\ entity # NoEntity /\ t.region \in DOMAIN entity.states
  BY DEF FireTimeout, StillDue, LifeInv, LifeLock
<1>2. PICK spec \in TimeoutWrites(entity, t, tick[s]) : WriteEntity(s, spec, "scan")
  BY <1>1 DEF FireTimeout
<1>3. DOMAIN entity.states = Regions /\ seq \in Nat
  BY <1>1 DEF LifeInv, LifeTypes, IsEntity
<1>4. DOMAIN spec.states = Regions /\ IsSeq(spec.fired)
  BY <1>3, TimeoutWritesAreCascades
<1>5. spec.region = t.region /\ spec.key = TimeoutIdentity(t.region, seq)
  BY DEF TimeoutWrites
<1>6. MainKeyOK(spec, entity)
  BY <1>1, <1>3, <1>5 DEF MainKeyOK
<1> HIDE DEF t
<1>7. ASSUME NEW i \in LiveRows, i > born PROVE history[i].key # spec.key
  <2>1. KeyOK(history[i], entity)
    BY <1>1, <1>7 DEF LifeInv, LifeKeys
  <2>2. QED
    BY <1>3, <1>5, <2>1, TimeoutKeyIsNew
<1>8. QED
  BY <1>1, <1>2, <1>4, <1>6, <1>7, WriteKeepsLifeInv

-----------------------------------------------------------------------------
(* Lives.                                                                  *)

\* A row inserted where there is none, outside of any transaction.
LEMMA BirthKeepsLifeInv ==
  ASSUME LifeInv, NEW p \in Requests, phase[p] # "purge", lock = NoOne, entity = NoEntity, BeginLife(p),
         NEW next, next \notin {"purge", "tx"}, phase' = [phase EXCEPT ![p] = next],
         UNCHANGED <<clock, lock, snap>>, DOMAIN reply' = Workers
  PROVE  LifeInv'
<1> p \in Workers
  BY DEF Workers
<1>1. /\ entity' = NewEntity(clock) /\ born' = Len(history)
      /\ overlapped' = (overlapped \/ Purging # {})
      /\ UNCHANGED <<history, gone, cut, torn>>
  BY DEF BeginLife
<1>2. IsEntity(NewEntity(clock), clock) /\ NewEntity(clock) # NoEntity
  BY NewEntityIsEntity DEF LifeInv, LifeTypes, IsEntity, NoEntity
<1>3. IsSeq(history) /\ Len(history) \in Nat /\ DOMAIN history = 1..Len(history)
  BY SeqDomain DEF LifeInv, LifeTypes
<1>4. LiveRows' = LiveRows /\ LiveRows \subseteq 1..Len(history)
  BY <1>1, <1>3 DEF LiveRows
<1>5. LifeTypes'
  BY <1>1, <1>2, <1>3 DEF LifeInv, LifeTypes
<1>6. LifeLock'
  BY WorkersAssumption DEF LifeInv, LifeTypes, LifeLock
<1>7. LifeKeys'
  BY <1>1, <1>3, <1>4 DEF LifeKeys
<1>8. LifeRows'
  <2>1. AcknowledgedDeletesAreFinal'
    BY <1>1, <1>4 DEF LifeInv, LifeRows, AcknowledgedDeletesAreFinal
  <2>2. Purging' = Purging
    BY NobodyPurges DEF LifeInv, LifeTypes
  <2>3. ASSUME ~ torn', ~ overlapped' PROVE Purging = {} /\ LiveRows = {}
    BY <1>1, <2>3 DEF LifeInv, LifeRows
  <2>4. Len(history) + 1..Len(history) = {}
    BY <1>3
  <2>5. QED
    BY <1>1, <1>2, <1>4, <2>1, <2>2, <2>3, <2>4 DEF LifeRows
<1>9. QED
  BY <1>5, <1>6, <1>7, <1>8 DEF LifeInv

\* The first statement of a delete: the row goes.
LEMMA DeleteEntityKeepsLifeInv ==
  ASSUME LifeInv, NEW p \in Requests, DeleteEntity(p)
  PROVE  LifeInv' /\ ConflictIsEarlier
<1> p \in Workers
  BY DEF Workers
<1>1. /\ lock = NoOne /\ entity # NoEntity /\ entity' = NoEntity
      /\ cut' = [cut EXCEPT ![p] = Len(history)]
      /\ phase' = [phase EXCEPT ![p] = "purge"]
      /\ UNCHANGED <<history, clock, lock, snap, reply, born, gone, torn, overlapped>>
  BY DEF DeleteEntity, DeleteFrom, DeleteOrder
<1>2. IsSeq(history) /\ Len(history) \in Nat
  BY SeqDomain DEF LifeInv, LifeTypes
<1>3. LiveRows' = LiveRows
  BY <1>1 DEF LiveRows
<1>4. LifeTypes'
  BY <1>1, <1>2 DEF LifeInv, LifeTypes
<1>5. LifeLock'
  BY <1>1, WorkersAssumption DEF LifeInv, LifeTypes, LifeLock
<1>6. LifeKeys'
  BY <1>1 DEF LifeKeys
<1>7. LifeRows'
  <2>1. phase'[p] = "purge"
    BY <1>1 DEF LifeInv, LifeTypes
  <2>2. Purging' # {}
    BY <2>1 DEF Purging
  <2>3. QED
    BY <1>1, <1>3, <2>2 DEF LifeInv, LifeRows, AcknowledgedDeletesAreFinal
<1>8. QED
  BY <1>1, <1>4, <1>5, <1>6, <1>7 DEF LifeInv, ConflictIsEarlier

\* The second: all rows go, those of a life that has begun meanwhile too.
LEMMA DeleteHistoryKeepsLifeInv ==
  ASSUME LifeInv, NEW p \in Requests, DeleteHistory(p)
  PROVE  LifeInv' /\ ConflictIsEarlier
<1> p \in Workers
  BY DEF Workers
<1>1. /\ lock = NoOne /\ phase[p] = "purge"
      /\ history' = [i \in DOMAIN history |-> Gap]
      /\ gone' = (IF cut[p] > gone THEN cut[p] ELSE gone)
      /\ phase' = [phase EXCEPT ![p] = "idle"] /\ reply' = [reply EXCEPT ![p] = "deleted"]
      /\ UNCHANGED <<entity, clock, lock, snap, born, cut, torn, overlapped>>
  BY DEF DeleteHistory, DeleteFrom, DeleteOrder, Answer
<1>2. IsSeq(history) /\ Len(history) \in Nat /\ DOMAIN history = 1..Len(history)
  BY SeqDomain DEF LifeInv, LifeTypes
<1>3. IsSeq(history') /\ Len(history') = Len(history)
  <2>1. history' \in [1..Len(history) -> {Gap}]
    BY <1>1, <1>2
  <2>2. QED
    BY <1>2, <2>1, FunctionIsSeq
<1>4. LiveRows' = {}
  <2>1. IsGap(Gap)
    BY DEF IsGap, Gap
  <2>2. \A i \in DOMAIN history' : history'[i] = Gap
    BY <1>1
  <2>3. QED
    BY <2>1, <2>2 DEF LiveRows
<1>5. LifeTypes'
  <2>1. cut[p] \in 0..Len(history) /\ gone \in 0..Len(history)
    BY DEF LifeInv, LifeTypes
  <2>2. gone' \in 0..Len(history')
    BY <1>1, <1>3, <2>1
  <2>3. QED
    BY <1>1, <1>3, <2>2 DEF LifeInv, LifeTypes
<1>6. LifeLock'
  BY <1>1, WorkersAssumption DEF LifeInv, LifeTypes, LifeLock
<1>7. LifeKeys'
  BY <1>4 DEF LifeKeys
<1>8. LifeRows'
  <2>1. AcknowledgedDeletesAreFinal'
    BY <1>4 DEF AcknowledgedDeletesAreFinal
  <2>2. ~ torn /\ ~ overlapped => entity = NoEntity
    BY <1>1 DEF LifeInv, LifeRows, Purging
  <2>3. QED
    BY <1>1, <1>4, <2>1, <2>2 DEF LifeRows
<1>9. ConflictIsEarlier
  BY <1>1, OtherAnswers DEF LifeInv, LifeTypes
<1>10. QED
  BY <1>5, <1>6, <1>7, <1>8, <1>9 DEF LifeInv

\* A request that ends, refused or with its process; if it was between the
\* statements of a delete, the delete is torn.
LEMMA EndKeepsLifeInv ==
  ASSUME LifeInv, NEW w \in Workers, NEW what, what # "conflict",
         phase' = [phase EXCEPT ![w] = "idle"], reply' = [reply EXCEPT ![w] = what],
         torn' = (torn \/ w \in Purging),
         UNCHANGED <<entity, history, clock, born, gone, cut, overlapped>>,
         DOMAIN snap' = Workers, LifeLock'
  PROVE  LifeInv' /\ ConflictIsEarlier
<1>1. DOMAIN phase = Workers /\ DOMAIN reply = Workers
  BY DEF LifeInv, LifeTypes
<1>2. ConflictIsEarlier
  BY <1>1, OtherAnswers
<1>3. LiveRows' = LiveRows
  BY DEF LiveRows
<1>4. LifeTypes' /\ LifeKeys'
  BY <1>1, <1>3 DEF LifeInv, LifeTypes, LifeKeys
<1>5. LifeRows'
  <2>1. CASE w \in Purging
    BY <1>3, <2>1 DEF LifeInv, LifeRows, AcknowledgedDeletesAreFinal
  <2>2. CASE w \notin Purging
    <3>1. Purging' = Purging
      BY <1>1, <2>2 DEF Purging
    <3>2. QED
      BY <1>3, <2>2, <3>1 DEF LifeInv, LifeRows, AcknowledgedDeletesAreFinal
  <2>3. QED
    BY <2>1, <2>2
<1>6. QED
  BY <1>2, <1>4, <1>5 DEF LifeInv

\* A worker that leaves its transaction without a write.
LEMMA EndTxKeepsLifeInv ==
  ASSUME LifeInv, NEW w \in Workers, phase[w] = "tx", NEW what, what # "conflict",
         NEW next, next \notin {"purge", "tx"}, EndTx(w, what, next), UNCHANGED lifecycle
  PROVE  LifeInv' /\ ConflictIsEarlier
<1>1. /\ phase' = [phase EXCEPT ![w] = next] /\ reply' = [reply EXCEPT ![w] = what]
      /\ lock' = NoOne /\ snap' = [snap EXCEPT ![w] = NoEntity]
      /\ UNCHANGED <<entity, history, clock>>
  BY DEF EndTx, Answer, store
<1>2. UNCHANGED <<born, gone, cut, torn, overlapped>>
  BY DEF lifecycle, ghosts
<1>3. DOMAIN reply = Workers
  BY DEF LifeInv, LifeTypes
<1>4. LifeInv'
  BY <1>1, <1>2, <1>3, LeaveKeepsLifeInv
<1>5. QED
  BY <1>1, <1>3, <1>4, OtherAnswers

-----------------------------------------------------------------------------
(* Every step.                                                             *)

\* The steps of requests.
LEMMA RequestKeepsLifeInv ==
  ASSUME LifeInv, NEW p \in Requests, LifeRequestStep(p)
  PROVE  LifeInv' /\ ConflictIsEarlier
<1> p \in Workers
  BY DEF Workers
<1>1. DOMAIN phase = Workers /\ DOMAIN reply = Workers /\ DOMAIN snap = Workers
  BY DEF LifeInv, LifeTypes
<1>2. UNCHANGED lifecycle => UNCHANGED <<born, gone, cut, torn, overlapped>>
  BY DEF lifecycle, ghosts
<1>3. UNCHANGED store => UNCHANGED <<entity, history>>
  BY DEF store
<1>4. CASE (LoadExisting(p) \/ AnswerNotFound(p) \/ LoadMissing(p)) /\ UNCHANGED lifecycle
  <2>1. PICK next \in {"begin", "idle", "create"}, what \in {"not_found"} :
          /\ phase' = [phase EXCEPT ![p] = next]
          /\ reply' = reply \/ reply' = [reply EXCEPT ![p] = what]
    BY <1>4 DEF LoadExisting, AnswerNotFound, LoadMissing, Answer
  <2>2. UNCHANGED <<entity, history, clock, lock, snap>> /\ phase[p] = "load" /\ DOMAIN reply' = Workers
    BY <1>1, <1>3, <1>4 DEF LoadExisting, AnswerNotFound, LoadMissing, Answer
  <2>3. LifeInv'
    BY <1>2, <1>4, <2>1, <2>2, MoveKeepsLifeInv
  <2>4. QED
    BY <1>1, <2>1, <2>3, OtherAnswers
<1>5. CASE BeginTx(p) /\ UNCHANGED lifecycle
  BY <1>5, BeginKeepsLifeInv DEF BeginTx
<1>6. CASE AnswerGone(p) /\ UNCHANGED lifecycle
  BY <1>6, EndTxKeepsLifeInv DEF AnswerGone
<1>7. CASE AnswerEvent(p) /\ UNCHANGED lifecycle
  <2>1. CASE AnswerDuplicate(p) \/ AnswerIdentityConflict(p) \/ AnswerNoTransition(p)
    BY <1>7, <2>1, EndTxKeepsLifeInv DEF AnswerDuplicate, AnswerIdentityConflict, AnswerNoTransition
  <2>2. CASE ApplyEvent(p)
    BY <1>7, <2>2, ApplyEventKeepsLifeInv DEF AnswerEvent, ApplyEvent
  <2>3. QED
    BY <1>7, <2>1, <2>2 DEF AnswerEvent
<1>8. CASE (ReturnActions(p) \/ DispatchEvent(p)) /\ UNCHANGED lifecycle
  <2>1. /\ phase' = [phase EXCEPT ![p] = "idle"] /\ reply' = [reply EXCEPT ![p] = "applied"]
        /\ UNCHANGED <<entity, history, clock, lock, snap>> /\ phase[p] = "dispatch"
    BY <1>3, <1>8 DEF ReturnActions, DispatchEvent, Dispatch, Answer
  <2>2. LifeInv'
    BY <1>1, <1>2, <1>8, <2>1, MoveKeepsLifeInv
  <2>3. QED
    BY <1>1, <2>1, <2>2, OtherAnswers
<1>9. CASE InsertMissing(p)
  <2>1. /\ phase[p] = "create" /\ phase' = [phase EXCEPT ![p] = "reload"] /\ lock = NoOne
        /\ UNCHANGED <<clock, lock, snap, reply>>
    BY <1>9 DEF InsertMissing
  <2>2. CASE entity = NoEntity
    <3>1. LifeInv'
      BY <1>1, <1>9, <2>1, <2>2, BirthKeepsLifeInv DEF InsertMissing
    <3>2. QED
      BY <2>1, <3>1 DEF ConflictIsEarlier
  <2>3. CASE entity # NoEntity
    <3>1. LifeInv'
      BY <1>1, <1>2, <1>3, <1>9, <2>1, <2>3, MoveKeepsLifeInv DEF InsertMissing
    <3>2. QED
      BY <2>1, <3>1 DEF ConflictIsEarlier
  <2>4. QED
    BY <2>2, <2>3
<1>10. CASE Reload(p)
  <2>1. /\ phase[p] = "reload" /\ UNCHANGED <<entity, history, clock, lock, snap>> /\ UNCHANGED lifecycle
        /\ DOMAIN reply' = Workers
    BY <1>1, <1>3, <1>10 DEF Reload, Answer
  <2>2. PICK next \in {"idle", "begin"} : phase' = [phase EXCEPT ![p] = next]
    BY <1>10 DEF Reload, Answer
  <2>3. LifeInv'
    BY <1>2, <2>1, <2>2, MoveKeepsLifeInv
  <2>4. PICK what : reply' = [reply EXCEPT ![p] = what] /\ (what # "conflict" \/ what = reply[p])
    BY <1>10 DEF Reload, Answer
  <2>5. QED
    BY <1>1, <2>3, <2>4, OtherAnswers
<1>11. CASE InsertEntity(p)
  <2>1. /\ phase[p] = "insert" /\ lock = NoOne /\ UNCHANGED <<clock, lock, snap>>
        /\ phase' = [phase EXCEPT ![p] = "idle"]
    BY <1>11 DEF InsertEntity, Answer
  <2>2. PICK what \in {"created", "exists"} : reply' = [reply EXCEPT ![p] = what]
    BY <1>11 DEF InsertEntity, Answer
  <2>3. CASE entity = NoEntity
    <3>1. LifeInv'
      BY <1>1, <1>11, <2>1, <2>2, <2>3, BirthKeepsLifeInv DEF InsertEntity
    <3>2. QED
      BY <1>1, <2>2, <3>1, OtherAnswers
  <2>4. CASE entity # NoEntity
    <3>1. LifeInv'
      BY <1>1, <1>2, <1>3, <1>11, <2>1, <2>2, <2>4, MoveKeepsLifeInv DEF InsertEntity
    <3>2. QED
      BY <1>1, <2>2, <3>1, OtherAnswers
  <2>5. QED
    BY <2>3, <2>4
<1>12. CASE DeleteMissing(p)
  <2>1. /\ phase[p] = "delete" /\ phase' = [phase EXCEPT ![p] = "idle"]
        /\ reply' = [reply EXCEPT ![p] = "not_found"]
        /\ UNCHANGED <<entity, history, clock, lock, snap>> /\ UNCHANGED lifecycle
    BY <1>3, <1>12 DEF DeleteMissing, Answer
  <2>2. LifeInv'
    BY <1>1, <1>2, <2>1, MoveKeepsLifeInv
  <2>3. QED
    BY <1>1, <2>1, <2>2, OtherAnswers
<1>13. CASE DeleteEntity(p)
  BY <1>13, DeleteEntityKeepsLifeInv
<1>14. CASE DeleteHistory(p)
  BY <1>14, DeleteHistoryKeepsLifeInv
<1>15. CASE RefuseStatement(p)
  <2>1. /\ phase' = [phase EXCEPT ![p] = "idle"] /\ reply' = [reply EXCEPT ![p] = "locked"]
        /\ torn' = (torn \/ p \in Purging)
        /\ UNCHANGED <<entity, history, clock, lock, snap, born, gone, cut, overlapped>>
    BY <1>3, <1>15 DEF RefuseStatement, Refuse, Answer
  <2>2. LifeLock'
    BY <1>1, <2>1 DEF LifeInv, LifeLock
  <2>3. QED
    BY <1>1, <2>1, <2>2, EndKeepsLifeInv
<1>16. QED
  BY <1>4, <1>5, <1>6, <1>7, <1>8, <1>9, <1>10, <1>11, <1>12, <1>13, <1>14, <1>15 DEF LifeRequestStep

\* Those of the schedulers.
LEMMA SchedulerKeepsLifeInv ==
  ASSUME LifeInv, NEW s \in Schedulers, LifeSchedulerStep(s)
  PROVE  LifeInv' /\ ConflictIsEarlier
<1> s \in Workers
  BY DEF Workers
<1>1. DOMAIN phase = Workers /\ DOMAIN reply = Workers /\ DOMAIN snap = Workers
  BY DEF LifeInv, LifeTypes
<1>2. UNCHANGED <<born, gone, cut, torn, overlapped>> /\ UNCHANGED lifecycle
  BY DEF LifeSchedulerStep, lifecycle, ghosts
<1>3. UNCHANGED store => UNCHANGED <<entity, history>>
  BY DEF store
<1>4. CASE StartTick(s) \/ EndTick(s) \/ Scan(s) \/ RefuseFire(s) \/ DispatchTimeout(s)
  <2>1. PICK next \in {"scan", "idle", "fire"}, what \in {"none", "locked"} :
          /\ phase' = [phase EXCEPT ![s] = next]
          /\ reply' = reply \/ reply' = [reply EXCEPT ![s] = what]
    BY <1>4 DEF StartTick, EndTick, Scan, RefuseFire, Refuse, DispatchTimeout, Dispatch, Answer
  <2>2. /\ UNCHANGED <<entity, history, clock, lock, snap>> /\ DOMAIN reply' = Workers
        /\ phase[s] \in {"idle", "scan", "fire", "dispatch"}
    BY <1>1, <1>3, <1>4 DEF StartTick, EndTick, Scan, RefuseFire, Refuse, DispatchTimeout, Dispatch, Answer
  <2>3. LifeInv'
    BY <1>2, <2>1, <2>2, MoveKeepsLifeInv
  <2>4. QED
    BY <1>1, <2>1, <2>3, OtherAnswers
<1>5. CASE BeginFire(s)
  BY <1>2, <1>5, BeginKeepsLifeInv DEF BeginFire
<1>6. CASE SkipTimeout(s)
  BY <1>2, <1>6, EndTxKeepsLifeInv DEF SkipTimeout
<1>7. CASE FireTimeout(s)
  BY <1>2, <1>7, FireTimeoutKeepsLifeInv
<1>8. QED
  BY <1>4, <1>5, <1>6, <1>7 DEF LifeSchedulerStep, SchedulerStep

\* All steps.
LEMMA NextKeepsLifeInv ==
  ASSUME LifeInv, [LifeNext]_lifeVars
  PROVE  LifeInv' /\ ConflictIsEarlier
<1>1. DOMAIN phase = Workers /\ DOMAIN reply = Workers /\ DOMAIN snap = Workers
  BY DEF LifeInv, LifeTypes
<1>2. UNCHANGED lifecycle => UNCHANGED <<born, gone, cut, torn, overlapped>>
  BY DEF lifecycle, ghosts
<1>3. UNCHANGED store => UNCHANGED <<entity, history>>
  BY DEF store
<1>4. UNCHANGED worker => UNCHANGED <<phase, snap, reply>>
  BY DEF worker
<1>5. CASE Tick /\ UNCHANGED lifecycle
  <2>1. /\ clock' = clock + 1 /\ UNCHANGED <<entity, history, lock, phase, snap, reply>>
        /\ UNCHANGED <<born, gone, cut, torn, overlapped>>
    BY <1>2, <1>3, <1>4, <1>5 DEF Tick
  <2>2. LifeTypes'
    <3>1. entity = NoEntity \/ IsEntity(entity, clock')
      BY <2>1, EntityAges DEF LifeInv, LifeTypes
    <3>2. QED
      BY <2>1, <3>1 DEF LifeInv, LifeTypes
  <2>3. LiveRows' = LiveRows /\ Purging' = Purging
    BY <2>1 DEF LiveRows, Purging
  <2>4. LifeLock' /\ LifeKeys' /\ LifeRows'
    BY <2>1, <2>3 DEF LifeInv, LifeLock, LifeKeys, LifeRows, AcknowledgedDeletesAreFinal
  <2>5. QED
    BY <2>1, <2>2, <2>4 DEF LifeInv, ConflictIsEarlier
<1>6. ASSUME NEW p \in Requests, LifeRequestStep(p) PROVE LifeInv' /\ ConflictIsEarlier
  BY <1>6, RequestKeepsLifeInv
<1>7. ASSUME NEW p \in Requests, NEW ev \in Events, Submit(p, ev), UNCHANGED lifecycle
      PROVE  LifeInv' /\ ConflictIsEarlier
  <2>1. p \in Workers
    BY DEF Workers
  <2>2. /\ phase[p] = "idle" /\ phase' = [phase EXCEPT ![p] = "load"] /\ reply' = [reply EXCEPT ![p] = "none"]
        /\ UNCHANGED <<entity, history, clock, lock, snap>>
    BY <1>3, <1>7 DEF Submit, Answer
  <2>3. LifeInv'
    BY <1>1, <1>2, <1>7, <2>1, <2>2, MoveKeepsLifeInv
  <2>4. QED
    BY <1>1, <2>2, <2>3, OtherAnswers
<1>8. ASSUME NEW p \in Requests, NEW first \in {"insert", "delete"}, SubmitLife(p, first)
      PROVE  LifeInv' /\ ConflictIsEarlier
  <2>1. p \in Workers
    BY DEF Workers
  <2>2. /\ phase[p] = "idle" /\ phase' = [phase EXCEPT ![p] = first] /\ reply' = [reply EXCEPT ![p] = "none"]
        /\ UNCHANGED <<entity, history, clock, lock, snap, born, gone, cut, torn, overlapped>>
    BY <1>3, <1>8 DEF SubmitLife, Answer
  <2>3. LifeInv'
    BY <1>1, <2>1, <2>2, MoveKeepsLifeInv
  <2>4. QED
    BY <1>1, <2>2, <2>3, OtherAnswers
<1>9. ASSUME NEW s \in Schedulers, LifeSchedulerStep(s) PROVE LifeInv' /\ ConflictIsEarlier
  BY <1>9, SchedulerKeepsLifeInv
<1>10. ASSUME NEW w \in Workers, Stop(w) PROVE LifeInv' /\ ConflictIsEarlier
  <2>1. /\ phase' = [phase EXCEPT ![w] = "idle"] /\ reply' = [reply EXCEPT ![w] = "none"]
        /\ torn' = (torn \/ w \in Purging)
        /\ lock' = (IF lock = w THEN NoOne ELSE lock) /\ snap' = [snap EXCEPT ![w] = NoEntity]
        /\ UNCHANGED <<entity, history, clock, born, gone, cut, overlapped>>
    BY <1>3, <1>10 DEF Stop, Crash, Answer
  <2>2. LifeLock'
    BY <1>1, <2>1 DEF LifeInv, LifeLock
  <2>3. QED
    BY <1>1, <2>1, <2>2, EndKeepsLifeInv
<1>11. CASE UNCHANGED lifeVars
  <2>1. /\ UNCHANGED <<entity, history, clock, lock, phase, snap, reply>>
        /\ UNCHANGED <<born, gone, cut, torn, overlapped>>
    BY <1>2, <1>3, <1>4, <1>11 DEF lifeVars, vars
  <2>2. Purging' = Purging /\ LifeLock'
    BY <2>1 DEF Purging, LifeInv, LifeLock
  <2>3. LifeInv'
    BY <1>1, <2>1, <2>2, QuietKeepsLifeInv
  <2>4. QED
    BY <2>1, <2>3 DEF ConflictIsEarlier
<1>12. QED
  BY <1>5, <1>6, <1>7, <1>8, <1>9, <1>10, <1>11 DEF LifeNext

\* It holds at first: rows of earlier engines have no identity, but they are rows.
LEMMA InitHasLifeInv ==
  ASSUME LifeInit
  PROVE  LifeInv
<1>1. PICK s \in Stores : entity = s.entity /\ history = s.history
  BY DEF LifeInit, Init
<1>2. /\ clock = 1 /\ phase = [w \in Workers |-> "idle"] /\ snap = [w \in Workers |-> NoEntity]
      /\ reply = [w \in Workers |-> "none"]
      /\ born = 0 /\ gone = 0 /\ cut = [p \in Requests |-> 0] /\ ~ torn /\ ~ overlapped
  BY DEF LifeInit, Init
<1>3. /\ IsSeq(history) /\ Len(history) \in Nat /\ DOMAIN history = 1..Len(history)
      /\ \A i \in DOMAIN history : history[i].key = NoIdentity
      /\ (entity = NoEntity /\ history = <<>>) \/ (IsEntity(entity, 1) /\ entity # NoEntity)
  <2>1. IsEntity(s.entity, 1) => s.entity # NoEntity
    BY DEF IsEntity, NoEntity
  <2>2. /\ IsSeq(s.history) /\ \A i \in DOMAIN s.history : s.history[i].key = NoIdentity
        /\ (s.entity = NoEntity /\ s.history = <<>>) \/ IsEntity(s.entity, 1)
    BY StoresAssumption
  <2>3. Len(s.history) \in Nat /\ DOMAIN s.history = 1..Len(s.history)
    BY <2>2, SeqDomain
  <2>4. QED
    BY <1>1, <2>1, <2>2, <2>3
<1>4. LiveRows = 1..Len(history)
  <2>1. \A i \in DOMAIN history : KeyOK(history[i], entity)
    BY <1>3 DEF KeyOK
  <2>2. QED
    BY <1>3, <2>1, KeptRowsAreNoGaps DEF LiveRows
<1>5. LifeTypes
  BY <1>2, <1>3 DEF LifeTypes
<1>6. LifeLock
  BY <1>2 DEF LifeLock
<1>7. LifeKeys
  BY <1>3 DEF LifeKeys, KeyOK, LiveRows
<1>8. LifeRows
  <2>1. Purging = {}
    <3>1. \A p \in Requests : phase[p] = "idle"
      BY <1>2 DEF Workers
    <3>2. QED
      BY <3>1 DEF Purging
  <2>2. AcknowledgedDeletesAreFinal
    BY <1>2, <1>4 DEF AcknowledgedDeletesAreFinal
  <2>3. history = <<>> => 1..Len(history) = {}
    OBVIOUS
  <2>4. QED
    BY <1>2, <1>3, <1>4, <2>1, <2>2, <2>3 DEF LifeRows
<1>9. QED
  BY <1>5, <1>6, <1>7, <1>8 DEF LifeInv

-----------------------------------------------------------------------------
(* The theorems.                                                           *)

\* Lives do not mix, whatever the interleaving.
THEOREM LifeInvariance == LifeSpec => []LifeInv
<1>1. LifeInit => LifeInv
  BY InitHasLifeInv
<1>2. LifeInv /\ [LifeNext]_lifeVars => LifeInv'
  BY NextKeepsLifeInv
<1>3. QED
  BY <1>1, <1>2, PTL DEF LifeSpec

\* Once delete_entity has answered 204, no row of the life it ended, nor of one
\* before, is in `transitions`: its second statement deletes whatever rows there
\* are, and a writer that comes late appends behind them.
THEOREM DeletesAreFinal == LifeSpec => []AcknowledgedDeletesAreFinal
<1>1. LifeInv => AcknowledgedDeletesAreFinal
  BY DEF LifeInv, LifeRows
<1>2. QED
  BY <1>1, LifeInvariance, PTL

\* If no delete stopped halfway and no life began between its statements, the
\* rows of the history are those the living entity wrote.
THEOREM UndisturbedLives == LifeSpec => []UndisturbedLivesAreWhole
<1>1. LifeInv => UndisturbedLivesAreWhole
  BY DEF LifeInv, LifeRows, UndisturbedLivesAreWhole
<1>2. QED
  BY <1>1, LifeInvariance, PTL

\* A writer is answered CONFLICT only for a row a delete left behind: within one
\* life update_entity's version check and the unique index never bite.
THEOREM ConflictsAreInherited == LifeSpec => ConflictsComeFromEarlierLives
<1>1. LifeInv /\ [LifeNext]_lifeVars => [ConflictIsEarlier]_lifeVars
  BY NextKeepsLifeInv
<1>2. LifeSpec => [][ConflictIsEarlier]_lifeVars
  BY <1>1, LifeInvariance, PTL DEF LifeSpec
<1>3. QED
  BY <1>2 DEF ConflictsComeFromEarlierLives, ConflictIsEarlier

=============================================================================
