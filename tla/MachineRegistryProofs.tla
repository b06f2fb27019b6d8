------------------------ MODULE MachineRegistryProofs ------------------------
(***************************************************************************)
(* Theorems about MachineRegistry.  Nothing in the registry runs in a      *)
(* transaction, so what holds of it holds while no request begins before   *)
(* the last one has ended, in a service of one process; then the cache of  *)
(* that process is never out of date between requests, no entity loses the *)
(* definition of its machine, and no registration closes a cycle.          *)
(***************************************************************************)
EXTENDS MachineRegistry, FiniteSetTheorems, TLAPS

\* Requests come one at a time.
OneAtATime == \A q, r \in Requests : ~ At(q, "idle") /\ ~ At(r, "idle") => q = r

\* What the table may hold, and what a walk carries.
KnownBodies == Bodies \union {NoBody} \union UNION {{tab[m] : m \in DOMAIN tab} : tab \in Tables}
Chains == Seq(Machines) \ {<<>>}
Frames == [chain : Chains, body : KnownBodies]

-----------------------------------------------------------------------------
(* The invariant.                                                          *)

\* The bodies and chains a request carries.
CallTyped(c) ==
  /\ DOMAIN c = {"op", "pc", "at", "body", "read", "loads", "stack"}
  /\ c.pc \in {"idle", "load", "walk", "fill", "write", "publish", "entity", "count", "remove", "evict"}
  /\ c.pc # "idle" => c.at \in Machines
  /\ c.body \in KnownBodies
  /\ c.stack \in Seq(Frames)
  /\ \A load \in c.loads : load.chain \in Chains /\ Len(load.chain) # 1

\* A registration under way: the definition is valid and, if it is to replace
\* one, there is one.
Registering(c) ==
  /\ c.op \in {"create", "update"}
  /\ c.body.valid
  /\ c.op = "update" => c.at \in DOMAIN table

\* The machine of the request is being loaded.
Addressing(c) == c.op \in {"get", "enter", "update"}

\* A row that was read and is not yet in the cache.
ReadOK(c) ==
  /\ c.read.load.chain \in Chains
  /\ Last(c.read.load.chain) \in DOMAIN table
  /\ c.read.body = table[Last(c.read.load.chain)]
  /\ IF Len(c.read.load.chain) = 1
     THEN Addressing(c) /\ Last(c.read.load.chain) = c.at
     ELSE Registering(c)

\* What a request that is alone may rely on, step by step.
CallOK(c) ==
  /\ CallTyped(c)
  /\ c.pc = "load" => Addressing(c)
  /\ c.pc \in {"walk", "write"} => Registering(c)
  /\ c.pc = "fill" => ReadOK(c)
  /\ c.pc = "publish" => c.at \in DOMAIN table /\ table[c.at] = c.body
  /\ c.pc = "entity" => c.at \in DOMAIN table
  /\ c.pc = "remove" => c.at \notin populated
  /\ c.pc = "evict" => c.at \notin DOMAIN table

\* The cache and the table differ in the machine of a request that has changed
\* the row and not yet the cache, and nowhere else.
CacheOK ==
  \A p \in Processes : \A m \in DOMAIN cache[p] :
    \/ m \in DOMAIN table /\ cache[p][m] = table[m]
    \/ \E r \in Requests : call[r].pc \in {"publish", "evict"} /\ call[r].at = m

RegistryInv ==
  /\ DOMAIN call = Requests /\ DOMAIN cache = Processes
  /\ \A m \in DOMAIN table : m \in Machines /\ table[m] \in KnownBodies /\ table[m].valid
  /\ populated \subseteq DOMAIN table
  /\ CacheOK
  /\ \A r \in Requests : CallOK(call[r])

-----------------------------------------------------------------------------
(* Bodies, chains and stacks.                                              *)

\* What any known definition refers to is a machine.
LEMMA ReferencesAreMachines ==
  ASSUME NEW b \in KnownBodies, NEW ref \in b.refs
  PROVE  ref.machine \in Machines
<1>1. CASE b \in Bodies
  BY <1>1, BodiesAssumption
<1>2. CASE b = NoBody
  BY <1>2 DEF NoBody
<1>3. CASE b \in UNION {{tab[m] : m \in DOMAIN tab} : tab \in Tables}
  BY <1>3, TablesAssumption
<1>4. QED
  BY <1>1, <1>2, <1>3 DEF KnownBodies

\* A chain that is lengthened is one, and not of one machine.
LEMMA BelowIsChain ==
  ASSUME NEW chain \in Chains, NEW m \in Machines
  PROVE  Below(chain, m) \in Chains /\ Len(Below(chain, m)) # 1
<1>1. chain \in Seq(Machines) /\ Len(chain) # 0 /\ Len(chain) \in Nat
  BY DEF Chains
<1>2. Append(chain, m) \in Seq(Machines) /\ Len(Append(chain, m)) = Len(chain) + 1
  BY <1>1
<1>3. Append(chain, m) # <<>>
  BY <1>1, <1>2
<1>4. QED
  BY <1>1, <1>2, <1>3 DEF Below, Chains

\* The chain of the machine a request addresses.
LEMMA SingleChain ==
  ASSUME NEW m \in Machines
  PROVE  <<m>> \in Chains /\ Len(<<m>>) = 1 /\ Last(<<m>>) = m
<1>1. <<m>> \in Seq(Machines) /\ <<m>> # <<>> /\ Len(<<m>>) = 1 /\ <<m>>[1] = m
  OBVIOUS
<1>2. QED
  BY <1>1 DEF Chains, Last

\* Taking the top of a stack, and putting a frame on it.
LEMMA StackOps ==
  ASSUME NEW stack \in Seq(Frames)
  PROVE  /\ stack # <<>> => Last(stack) \in Frames /\ Front(stack) \in Seq(Frames)
         /\ \A f \in Frames : Append(stack, f) \in Seq(Frames)
<1>1. ASSUME stack # <<>> PROVE Last(stack) \in Frames /\ Front(stack) \in Seq(Frames)
  <2>1. Len(stack) \in Nat /\ Len(stack) # 0
    BY <1>1
  <2>2. Len(stack) \in 1..Len(stack) /\ Len(stack) - 1 \in Nat
    BY <2>1
  <2>3. Last(stack) \in Frames
    BY <2>2 DEF Last
  <2>4. \A i \in 1..Len(stack) - 1 : i \in 1..Len(stack)
    BY <2>1
  <2>5. Front(stack) \in Seq(Frames)
    BY <2>1, <2>2, <2>4 DEF Front
  <2>6. QED
    BY <2>3, <2>5
<1>2. QED
  BY <1>1

\* An idle request carries nothing.
LEMMA IdleIsOK == CallOK(Idle)
<1>1. /\ Idle.pc = "idle" /\ Idle.body = NoBody /\ Idle.stack = <<>> /\ Idle.loads = {}
      /\ DOMAIN Idle = {"op", "pc", "at", "body", "read", "loads", "stack"}
  BY DEF Idle
<1>2. NoBody \in KnownBodies
  BY DEF KnownBodies
<1>3. <<>> \in Seq(Frames)
  OBVIOUS
<1>4. QED
  BY <1>1, <1>2, <1>3 DEF CallOK, CallTyped

-----------------------------------------------------------------------------
(* A request that is alone.                                                *)

\* The cache agrees with the table.
Coherent == \A p \in Processes : \A m \in DOMAIN cache[p] : m \in DOMAIN table /\ cache[p][m] = table[m]

\* It does while the one request has not changed a row.
LEMMA CoherentWhileReading ==
  ASSUME RegistryInv, OneAtATime, NEW r \in Requests,
         call[r].pc \notin {"idle", "publish", "evict"}
  PROVE  Coherent
<1>1. \A q \in Requests : call[q].pc \in {"publish", "evict"} => q = r
  BY DEF OneAtATime, At
<1>2. \A q \in Requests : call[q].pc \notin {"publish", "evict"}
  BY <1>1
<1>3. QED
  BY <1>2 DEF RegistryInv, CacheOK, Coherent

\* A step of the one request keeps the invariant if what it leaves is in order.
LEMMA AloneKeepsInv ==
  ASSUME RegistryInv, OneAtATime, NEW r \in Requests, ~ At(r, "idle"),
         NEW c, call' = [call EXCEPT ![r] = c], CallOK(c)', CacheOK', DOMAIN cache' = Processes,
         \A m \in DOMAIN table' : m \in Machines /\ table'[m] \in KnownBodies /\ table'[m].valid,
         populated' \subseteq DOMAIN table'
  PROVE  RegistryInv'
<1>1. DOMAIN call' = Requests /\ call'[r] = c
  BY DEF RegistryInv
<1>2. ASSUME NEW q \in Requests PROVE CallOK(call[q])'
  <2>1. PICK d : d = call'[q]
    OBVIOUS
  <2>2. CallOK(d)'
    <3>1. CASE q = r
      BY <1>1, <2>1, <3>1
    <3>2. CASE q # r
      <4>1. d = call[q] /\ d.pc = "idle" /\ CallOK(d)
        BY <2>1, <3>2 DEF OneAtATime, At, RegistryInv
      <4>2. QED
        BY <4>1 DEF CallOK, CallTyped
    <3>3. QED
      BY <3>1, <3>2
  <2>3. CallOK(call[q])' <=> CallOK(d)'
    BY <2>1 DEF CallOK, CallTyped, Registering, Addressing, ReadOK
  <2>4. QED
    BY <2>2, <2>3
<1>3. QED
  BY <1>1, <1>2 DEF RegistryInv

\* So does one that only goes on.
LEMMA AloneMoves ==
  ASSUME RegistryInv, OneAtATime, NEW r \in Requests, call[r].pc \notin {"idle", "publish", "evict"},
         UNCHANGED <<table, cache, populated>>,
         NEW c, CallOK(c), call' = [call EXCEPT ![r] = c]
  PROVE  RegistryInv'
<1>1. CallOK(c)'
  BY DEF CallOK, CallTyped, Registering, Addressing, ReadOK
<1>2. CacheOK'
  <2>1. Coherent
    BY CoherentWhileReading
  <2>2. QED
    BY <2>1 DEF Coherent, CacheOK
<1>3. QED
  BY <1>1, <1>2, AloneKeepsInv DEF RegistryInv, At

\* A registration that starts its walk.
LEMMA StartOfWalkIsOK ==
  ASSUME NEW c, CallTyped(c), c.at \in Machines, Registering(c)
  PROVE  CallOK(StartOfWalk(c))
<1> DEFINE frame == [chain |-> <<c.at>>, body |-> c.body]
           w == StartOfWalk(c)
<1>1. frame \in Frames
  <2>1. <<c.at>> \in Chains
    BY SingleChain
  <2>2. QED
    BY <2>1 DEF Frames, CallTyped
<1>2. <<frame>> \in Seq(Frames)
  <2> HIDE DEF frame
  <2>1. QED
    BY <1>1
<1>3. /\ DOMAIN w = DOMAIN c /\ w.pc = "walk" /\ w.at = c.at /\ w.body = c.body /\ w.op = c.op
      /\ w.stack = <<frame>> /\ w.loads = {}
  BY DEF StartOfWalk, CallTyped
<1> HIDE DEF w, frame
<1>4. CallTyped(w)
  BY <1>2, <1>3 DEF CallTyped
<1>5. Registering(w)
  BY <1>3 DEF Registering
<1>6. QED
  BY <1>3, <1>4, <1>5 DEF CallOK, w

\* What a request does with a definition it was waiting for, out of the cache or
\* the table.
LEMMA LoadedMoves ==
  ASSUME RegistryInv, NEW r \in Requests, call[r].pc \in {"load", "walk", "fill"},
         NEW load, NEW body, load.chain \in Chains, body \in KnownBodies,
         Last(load.chain) \in DOMAIN table,
         IF Len(load.chain) = 1 THEN Addressing(call[r]) /\ Last(load.chain) = call[r].at
         ELSE Registering(call[r]),
         Loaded(r, load, body)
  PROVE  \E c : CallOK(c) /\ call' = [call EXCEPT ![r] = c]
<1> DEFINE o == call[r]
<1>1. CallTyped(o) /\ o.at \in Machines
  BY DEF RegistryInv, CallOK, CallTyped
<1>2. ASSUME NEW what, Finish(r, what) PROVE \E c : CallOK(c) /\ call' = [call EXCEPT ![r] = c]
  BY <1>2, IdleIsOK DEF Finish
<1>3. CASE Len(load.chain) = 1
  <2>1. Addressing(o) /\ o.at \in DOMAIN table /\ Proceed(r)
    BY <1>3 DEF Loaded
  <2>2. CASE o.op = "get"
    BY <1>2, <2>1, <2>2 DEF Proceed
  <2>3. CASE o.op = "enter"
    <3> DEFINE c == [o EXCEPT !.pc = "entity"]
    <3>1. call' = [call EXCEPT ![r] = c]
      BY <2>1, <2>3 DEF Proceed, GoOn, Continue
    <3>2. /\ DOMAIN c = DOMAIN o /\ c.pc = "entity" /\ c.at = o.at /\ c.body = o.body
          /\ c.stack = o.stack /\ c.loads = o.loads
      BY <1>1 DEF CallTyped
    <3> HIDE DEF c
    <3>3. CallOK(c)
      BY <1>1, <2>1, <3>2 DEF CallOK, CallTyped
    <3>4. QED
      BY <3>1, <3>3
  <2>4. CASE o.op = "update"
    <3>1. CASE o.body.valid
      <4>1. call' = [call EXCEPT ![r] = StartOfWalk(o)]
        BY <2>1, <2>4, <3>1 DEF Proceed, Continue
      <4>2. Registering(o)
        BY <2>1, <2>4, <3>1 DEF Registering
      <4> HIDE DEF o
      <4>3. CallOK(StartOfWalk(o))
        BY <1>1, <4>2, StartOfWalkIsOK
      <4>4. QED
        BY <4>1, <4>3
    <3>2. CASE ~ o.body.valid
      BY <1>2, <2>1, <2>4, <3>2 DEF Proceed
    <3>3. QED
      BY <3>1, <3>2
  <2>5. QED
    BY <2>1, <2>2, <2>3, <2>4 DEF Addressing
<1>4. CASE Len(load.chain) # 1
  <2>1. Registering(o) /\ WalkOn(r, load, body)
    BY <1>4 DEF Loaded
  <2>2. CASE Fits(load.shape, body)
    <3> DEFINE frame == [chain |-> load.chain, body |-> body]
               c == [o EXCEPT !.pc = "walk", !.loads = @ \ {load}, !.stack = Append(@, frame)]
    <3>1. call' = [call EXCEPT ![r] = c]
      BY <2>1, <2>2 DEF WalkOn, Continue
    <3>2. /\ DOMAIN c = DOMAIN o /\ c.pc = "walk" /\ c.at = o.at /\ c.body = o.body /\ c.op = o.op
          /\ c.stack = Append(o.stack, frame) /\ c.loads = o.loads \ {load}
      BY <1>1 DEF CallTyped
    <3>3. c.stack \in Seq(Frames)
      <4>1. frame \in Frames
        BY DEF Frames
      <4> HIDE DEF frame, c
      <4>2. QED
        BY <1>1, <3>2, <4>1, StackOps DEF CallTyped
    <3> HIDE DEF c, frame
    <3>4. CallTyped(c)
      BY <1>1, <3>2, <3>3 DEF CallTyped
    <3>5. Registering(c)
      BY <2>1, <3>2 DEF Registering
    <3>6. CallOK(c)
      BY <3>2, <3>4, <3>5 DEF CallOK
    <3>7. QED
      BY <3>1, <3>6
  <2>3. CASE ~ Fits(load.shape, body)
    BY <1>2, <2>1, <2>3 DEF WalkOn
  <2>4. QED
    BY <2>2, <2>3
<1>5. QED
  BY <1>3, <1>4

-----------------------------------------------------------------------------
(* The steps of the one request.                                           *)

\* A request that answers.
LEMMA FinishKeepsInv ==
  ASSUME RegistryInv, OneAtATime, NEW r \in Requests, call[r].pc \notin {"idle", "publish", "evict"},
         NEW what, Finish(r, what), UNCHANGED <<table, cache, populated>>
  PROVE  RegistryInv'
<1>1. call' = [call EXCEPT ![r] = Idle]
  BY DEF Finish
<1>2. QED
  BY <1>1, IdleIsOK, AloneMoves

\* What a request waits for.
LEMMA LoadingOK ==
  ASSUME RegistryInv, NEW r \in Requests, NEW load \in Loading(r)
  PROVE  /\ call[r].pc \in {"load", "walk"}
         /\ load.chain \in Chains
         /\ IF Len(load.chain) = 1 THEN Addressing(call[r]) /\ Last(load.chain) = call[r].at
            ELSE Registering(call[r])
         /\ call[r].pc = "walk" => load \in call[r].loads
<1>1. CallOK(call[r])
  BY DEF RegistryInv
<1>2. CASE call[r].pc = "load"
  <2>1. load.chain = <<call[r].at>> /\ call[r].at \in Machines
    BY <1>1, <1>2 DEF Loading, At, CallOK, CallTyped
  <2>2. QED
    BY <1>1, <1>2, <2>1, SingleChain DEF CallOK
<1>3. CASE call[r].pc = "walk"
  <2>1. load \in call[r].loads
    BY <1>3 DEF Loading, At
  <2>2. QED
    BY <1>1, <1>3, <2>1 DEF CallOK, CallTyped
<1>4. QED
  BY <1>2, <1>3 DEF Loading, At

LEMMA HitKeepsInv ==
  ASSUME RegistryInv, OneAtATime, NEW r \in Requests, Hit(r)
  PROVE  RegistryInv'
<1>1. PICK load \in Loading(r) :
        /\ Last(load.chain) \in DOMAIN cache[Home[r]]
        /\ Loaded(r, load, cache[Home[r]][Last(load.chain)])
        /\ UNCHANGED <<table, cache, populated>>
  BY DEF Hit
<1>2. /\ call[r].pc \in {"load", "walk"} /\ load.chain \in Chains
      /\ IF Len(load.chain) = 1 THEN Addressing(call[r]) /\ Last(load.chain) = call[r].at
         ELSE Registering(call[r])
  BY LoadingOK
<1>3. PICK body : body = cache[Home[r]][Last(load.chain)]
  OBVIOUS
<1>4. Last(load.chain) \in DOMAIN table /\ body = table[Last(load.chain)]
  BY <1>1, <1>2, <1>3, CoherentWhileReading, HomeAssumption DEF Coherent
<1>5. body \in KnownBodies
  BY <1>4 DEF RegistryInv
<1>6. \E c : CallOK(c) /\ call' = [call EXCEPT ![r] = c]
  BY <1>1, <1>2, <1>3, <1>4, <1>5, LoadedMoves
<1>7. QED
  BY <1>1, <1>2, <1>6, AloneMoves

LEMMA ReadKeepsInv ==
  ASSUME RegistryInv, OneAtATime, NEW r \in Requests, Read(r)
  PROVE  RegistryInv'
<1> DEFINE o == call[r]
<1>1. PICK load \in Loading(r) :
        /\ Last(load.chain) \in DOMAIN table
        /\ Continue(r, [o EXCEPT !.pc = "fill",
                          !.read = [load |-> load, body |-> table[Last(load.chain)]]])
        /\ UNCHANGED <<table, cache, populated>>
  BY DEF Read
<1>2. /\ o.pc \in {"load", "walk"} /\ load.chain \in Chains
      /\ IF Len(load.chain) = 1 THEN Addressing(o) /\ Last(load.chain) = o.at ELSE Registering(o)
  BY LoadingOK
<1>3. CallTyped(o)
  BY DEF RegistryInv, CallOK
<1> DEFINE read == [load |-> load, body |-> table[Last(load.chain)]]
           c == [o EXCEPT !.pc = "fill", !.read = read]
<1>4. /\ DOMAIN c = DOMAIN o /\ c.pc = "fill" /\ c.at = o.at /\ c.body = o.body /\ c.op = o.op
      /\ c.stack = o.stack /\ c.loads = o.loads /\ c.read = read
  BY <1>3 DEF CallTyped
<1>5. read.load = load /\ read.body = table[Last(load.chain)]
  OBVIOUS
<1>6. call' = [call EXCEPT ![r] = c]
  BY <1>1 DEF Continue
<1> HIDE DEF c, read
<1>7. CallTyped(c)
  BY <1>2, <1>3, <1>4 DEF CallTyped
<1>8. ReadOK(c)
  BY <1>1, <1>2, <1>4, <1>5 DEF ReadOK, Addressing, Registering
<1>9. CallOK(c)
  BY <1>4, <1>7, <1>8 DEF CallOK
<1>10. QED
  BY <1>1, <1>2, <1>6, <1>9, AloneMoves

LEMMA FillKeepsInv ==
  ASSUME RegistryInv, OneAtATime, NEW r \in Requests, Fill(r)
  PROVE  RegistryInv'
<1> DEFINE load == call[r].read.load
           body == call[r].read.body
           m == Last(load.chain)
<1>1. call[r].pc = "fill" /\ Loaded(r, load, body) /\ UNCHANGED <<table, populated>>
  BY DEF Fill, At
<1>2. ReadOK(call[r])
  BY <1>1 DEF RegistryInv, CallOK
<1>3. /\ load.chain \in Chains /\ m \in DOMAIN table /\ body = table[m]
      /\ IF Len(load.chain) = 1 THEN Addressing(call[r]) /\ m = call[r].at ELSE Registering(call[r])
  BY <1>2 DEF ReadOK
<1>4. body \in KnownBodies
  BY <1>3 DEF RegistryInv
<1>5. cache' = [cache EXCEPT ![Home[r]] = Put(cache[Home[r]], m, body)]
  BY DEF Fill
<1> HIDE DEF load, body, m
<1>6. PICK c : CallOK(c) /\ call' = [call EXCEPT ![r] = c]
  BY <1>1, <1>3, <1>4, LoadedMoves DEF m
<1>7. DOMAIN cache = Processes
  BY DEF RegistryInv
<1>8. CacheOK'
  <2>1. Coherent
    BY <1>1, CoherentWhileReading
  <2>2. ASSUME NEW p \in Processes, NEW x \in DOMAIN cache'[p]
        PROVE  x \in DOMAIN table /\ cache'[p][x] = table[x]
    <3>1. CASE p = Home[r]
      <4>1. cache'[p] = Put(cache[p], m, body)
        BY <1>5, <1>7, <3>1
      <4>2. QED
        BY <1>3, <2>1, <2>2, <4>1 DEF Put, Coherent
    <3>2. CASE p # Home[r]
      BY <1>5, <1>7, <2>1, <2>2, <3>2 DEF Coherent
    <3>3. QED
      BY <3>1, <3>2
  <2>3. QED
    BY <1>1, <2>2 DEF CacheOK
<1>9. CallOK(c)'
  BY <1>1, <1>6 DEF CallOK, CallTyped, Registering, Addressing, ReadOK
<1>10. DOMAIN cache' = Processes
  BY <1>5, <1>7
<1>11. QED
  BY <1>1, <1>6, <1>8, <1>9, <1>10, AloneKeepsInv DEF RegistryInv, At

LEMMA MissKeepsInv ==
  ASSUME RegistryInv, OneAtATime, NEW r \in Requests, Miss(r)
  PROVE  RegistryInv'
<1> DEFINE o == call[r]
<1>1. PICK load \in Loading(r) :
        /\ IF At(r, "load") THEN Finish(r, "not_found")
           ELSE Continue(r, [o EXCEPT !.loads = @ \ {load}])
        /\ UNCHANGED <<table, cache, populated>>
  BY DEF Miss
<1>2. o.pc \in {"load", "walk"}
  BY LoadingOK
<1>3. CASE o.pc = "load"
  BY <1>1, <1>2, <1>3, FinishKeepsInv DEF At
<1>4. CASE o.pc = "walk"
  <2> DEFINE c == [o EXCEPT !.loads = @ \ {load}]
  <2>1. call' = [call EXCEPT ![r] = c]
    BY <1>1, <1>4 DEF At, Continue
  <2>2. CallOK(o)
    BY DEF RegistryInv
  <2>3. /\ DOMAIN c = DOMAIN o /\ c.pc = "walk" /\ c.at = o.at /\ c.body = o.body /\ c.op = o.op
        /\ c.stack = o.stack /\ c.loads = o.loads \ {load}
    BY <1>4, <2>2 DEF CallOK, CallTyped
  <2> HIDE DEF c
  <2>4. CallOK(c)
    BY <1>4, <2>2, <2>3 DEF CallOK, CallTyped, Registering
  <2>5. QED
    BY <1>1, <1>2, <2>1, <2>4, AloneMoves
<1>5. QED
  BY <1>2, <1>3, <1>4

LEMMA WalkKeepsInv ==
  ASSUME RegistryInv, OneAtATime, NEW r \in Requests, Descend(r) \/ RefuseNesting(r) \/ EndWalk(r)
  PROVE  RegistryInv'
<1> DEFINE o == call[r]
<1>1. o.pc = "walk" /\ UNCHANGED <<table, cache, populated>>
  BY DEF Descend, RefuseNesting, EndWalk, At
<1>2. CallOK(o) /\ CallTyped(o) /\ Registering(o)
  BY <1>1 DEF RegistryInv, CallOK
<1>3. CASE Descend(r)
  <2> DEFINE frame == Last(o.stack)
             loads == {[chain |-> Below(frame.chain, ref.machine), shape |-> ref.shape] :
                         ref \in frame.body.refs}
             c == [o EXCEPT !.stack = Front(@), !.loads = loads]
  <2>1. o.stack # <<>> /\ call' = [call EXCEPT ![r] = c]
    BY <1>3 DEF Descend, Continue
  <2>2. frame \in Frames /\ Front(o.stack) \in Seq(Frames)
    BY <1>2, <2>1, StackOps DEF CallTyped
  <2>3. /\ DOMAIN c = DOMAIN o /\ c.pc = "walk" /\ c.at = o.at /\ c.body = o.body /\ c.op = o.op
        /\ c.stack = Front(o.stack) /\ c.loads = loads
    BY <1>1, <1>2 DEF CallTyped
  <2>4. \A load \in loads : load.chain \in Chains /\ Len(load.chain) # 1
    <3>1. frame.chain \in Chains /\ frame.body \in KnownBodies
      BY <2>2 DEF Frames
    <3> HIDE DEF frame
    <3>2. ASSUME NEW load \in loads PROVE load.chain \in Chains /\ Len(load.chain) # 1
      <4>1. PICK ref \in frame.body.refs : load.chain = Below(frame.chain, ref.machine)
        BY <3>2
      <4>2. ref.machine \in Machines
        BY <3>1, ReferencesAreMachines
      <4>3. QED
        BY <3>1, <4>1, <4>2, BelowIsChain
    <3>3. QED
      BY <3>2
  <2> HIDE DEF c, loads, frame
  <2>5. CallOK(c)
    BY <1>1, <1>2, <2>2, <2>3, <2>4 DEF CallOK, CallTyped, Registering
  <2>6. QED
    BY <1>1, <2>1, <2>5, AloneMoves
<1>4. CASE RefuseNesting(r)
  BY <1>1, <1>4, FinishKeepsInv DEF RefuseNesting
<1>5. CASE EndWalk(r)
  <2> DEFINE c == [o EXCEPT !.pc = "write"]
  <2>1. call' = [call EXCEPT ![r] = c]
    BY <1>5 DEF EndWalk, GoOn, Continue
  <2>2. /\ DOMAIN c = DOMAIN o /\ c.pc = "write" /\ c.at = o.at /\ c.body = o.body /\ c.op = o.op
        /\ c.stack = o.stack /\ c.loads = o.loads
    BY <1>2 DEF CallTyped
  <2> HIDE DEF c
  <2>3. CallOK(c)
    BY <1>1, <1>2, <2>2 DEF CallOK, CallTyped, Registering
  <2>4. QED
    BY <1>1, <2>1, <2>3, AloneMoves
<1>6. QED
  BY <1>3, <1>4, <1>5

\* The row is written; until it is published the cache may differ in it.
LEMMA WriteKeepsInv ==
  ASSUME RegistryInv, OneAtATime, NEW r \in Requests, Write(r)
  PROVE  RegistryInv'
<1> DEFINE o == call[r]
<1>1. o.pc = "write" /\ UNCHANGED <<cache, populated>>
  BY DEF Write, At
<1>2. CallTyped(o) /\ Registering(o) /\ o.at \in Machines
  BY <1>1 DEF RegistryInv, CallOK, CallTyped
<1>3. CASE o.op = "create" /\ o.at \in DOMAIN table
  BY <1>1, <1>3, FinishKeepsInv DEF Write
<1>4. CASE ~ (o.op = "create" /\ o.at \in DOMAIN table)
  <2>0. PICK c : c = [o EXCEPT !.pc = "publish"]
    OBVIOUS
  <2>1. table' = Put(table, o.at, o.body) /\ call' = [call EXCEPT ![r] = c]
    BY <1>2, <1>4, <2>0 DEF Write, GoOn, Continue, Registering
  <2>2. /\ DOMAIN c = DOMAIN o /\ c.pc = "publish" /\ c.at = o.at /\ c.body = o.body
        /\ c.stack = o.stack /\ c.loads = o.loads
    BY <1>2, <2>0 DEF CallTyped
  <2>3. /\ DOMAIN table' = DOMAIN table \union {o.at} /\ table'[o.at] = o.body
        /\ \A m \in DOMAIN table : m # o.at => table'[m] = table[m]
    BY <2>1 DEF Put
  <2>4. CallOK(c)'
    BY <1>2, <2>2, <2>3 DEF CallOK, CallTyped
  <2>5. CacheOK'
    <3>1. Coherent
      BY <1>1, CoherentWhileReading
    <3>2. call'[r].pc = "publish" /\ call'[r].at = o.at
      BY <2>1, <2>2 DEF RegistryInv
    <3>3. QED
      BY <1>1, <2>3, <3>1, <3>2 DEF CacheOK, Coherent
  <2>6. \A m \in DOMAIN table' : m \in Machines /\ table'[m] \in KnownBodies /\ table'[m].valid
    BY <1>2, <2>3 DEF RegistryInv, CallTyped, Registering
  <2>7. populated' \subseteq DOMAIN table' /\ DOMAIN cache' = Processes
    BY <1>1, <2>3 DEF RegistryInv
  <2>8. QED
    BY <1>1, <2>1, <2>4, <2>5, <2>6, <2>7, AloneKeepsInv DEF At
<1>5. QED
  BY <1>3, <1>4

\* The cache follows: of the one process there is.
LEMMA PublishKeepsInv ==
  ASSUME RegistryInv, OneAtATime, \A p, q \in Processes : p = q,
         NEW r \in Requests, Publish(r) \/ Evict(r)
  PROVE  RegistryInv'
<1> DEFINE o == call[r]
<1>1. o.pc \in {"publish", "evict"} /\ UNCHANGED <<table, populated>> /\ call' = [call EXCEPT ![r] = Idle]
  BY DEF Publish, Evict, At, Finish
<1>2. CallOK(o) /\ DOMAIN cache = Processes
  BY DEF RegistryInv
<1>3. ASSUME NEW p \in Processes, NEW m \in DOMAIN cache[p], m # o.at
      PROVE  m \in DOMAIN table /\ cache[p][m] = table[m]
  <2>1. \A q \in Requests : call[q].pc \in {"publish", "evict"} => q = r
    BY <1>1 DEF OneAtATime, At
  <2>2. QED
    BY <1>3, <2>1 DEF RegistryInv, CacheOK
<1>4. ASSUME NEW p \in Processes
      PROVE  cache'[p] = IF o.pc = "publish" THEN Put(cache[p], o.at, o.body) ELSE Drop(cache[p], o.at)
  <2>1. p = Home[r]
    BY HomeAssumption
  <2>2. QED
    BY <1>2, <2>1 DEF Publish, Evict, At
<1>5. CacheOK'
  <2>1. ASSUME NEW p \in Processes, NEW m \in DOMAIN cache'[p]
        PROVE  m \in DOMAIN table /\ cache'[p][m] = table[m]
    <3>1. CASE o.pc = "publish"
      <4>1. o.at \in DOMAIN table /\ table[o.at] = o.body
        BY <1>2, <3>1 DEF CallOK
      <4>2. cache'[p] = Put(cache[p], o.at, o.body)
        BY <1>4, <3>1
      <4>3. QED
        BY <1>3, <2>1, <4>1, <4>2 DEF Put
    <3>2. CASE o.pc = "evict"
      <4>1. cache'[p] = Drop(cache[p], o.at)
        BY <1>4, <3>2
      <4>2. QED
        BY <1>3, <2>1, <4>1 DEF Drop
    <3>3. QED
      BY <1>1, <3>1, <3>2
  <2>2. QED
    BY <1>1, <2>1 DEF CacheOK
<1>6. CallOK(Idle)'
  BY IdleIsOK DEF CallOK, CallTyped, Idle
<1>7. DOMAIN cache' = Processes
  BY <1>2 DEF Publish, Evict
<1>8. PICK c : c = Idle
  OBVIOUS
<1>9. CallOK(c)'
  BY <1>6, <1>8
<1>10. QED
  BY <1>1, <1>5, <1>7, <1>8, <1>9, AloneKeepsInv DEF RegistryInv, At

\* An entity is created for a machine that is there, and a machine is removed
\* that has none.
LEMMA RowsKeepInv ==
  ASSUME RegistryInv, OneAtATime, NEW r \in Requests,
         InsertEntity(r) \/ Count(r) \/ DeleteRow(r) \/ RefuseStatement(r)
  PROVE  RegistryInv'
<1> DEFINE o == call[r]
<1>1. o.pc \in {"entity", "count", "remove", "write"}
  BY DEF InsertEntity, Count, DeleteRow, RefuseStatement, At
<1>2. CallOK(o) /\ CallTyped(o) /\ DOMAIN cache = Processes /\ DOMAIN call = Requests
  BY DEF RegistryInv, CallOK
<1>3. Coherent
  BY <1>1, CoherentWhileReading
<1>4. CASE InsertEntity(r)
  <2>1. /\ populated' = populated \union {o.at} /\ UNCHANGED <<table, cache>>
        /\ call' = [call EXCEPT ![r] = Idle] /\ o.at \in DOMAIN table
    BY <1>2, <1>4 DEF InsertEntity, Finish, At, CallOK
  <2>2. CallOK(Idle)'
    BY IdleIsOK DEF CallOK, CallTyped, Idle
  <2>3. PICK c : c = Idle
    OBVIOUS
  <2>4. CallOK(c)'
    BY <2>2, <2>3
  <2>5. CacheOK'
    BY <1>3, <2>1 DEF Coherent, CacheOK
  <2>6. QED
    BY <1>1, <1>2, <2>1, <2>3, <2>4, <2>5, AloneKeepsInv DEF RegistryInv, At
<1>5. CASE Count(r)
  <2>1. CASE o.at \in populated
    BY <1>1, <1>5, <2>1, FinishKeepsInv DEF Count
  <2>2. CASE o.at \notin populated
    <3> DEFINE c == [o EXCEPT !.pc = "remove"]
    <3>1. call' = [call EXCEPT ![r] = c] /\ UNCHANGED <<table, cache, populated>>
      BY <1>5, <2>2 DEF Count, GoOn, Continue
    <3>2. /\ DOMAIN c = DOMAIN o /\ c.pc = "remove" /\ c.at = o.at /\ c.body = o.body
          /\ c.stack = o.stack /\ c.loads = o.loads
      BY <1>2 DEF CallTyped
    <3> HIDE DEF c
    <3>3. CallOK(c)
      BY <1>1, <1>2, <2>2, <3>2 DEF CallOK, CallTyped
    <3>4. QED
      BY <1>1, <3>1, <3>3, AloneMoves
  <2>3. QED
    BY <2>1, <2>2
<1>6. CASE DeleteRow(r)
  <2>1. CASE o.at \notin DOMAIN table
    BY <1>1, <1>6, <2>1, FinishKeepsInv DEF DeleteRow
  <2>2. CASE o.at \in DOMAIN table
    <3>0. PICK c : c = [o EXCEPT !.pc = "evict"]
      OBVIOUS
    <3>1. /\ call' = [call EXCEPT ![r] = c] /\ UNCHANGED <<cache, populated>>
          /\ table' = Drop(table, o.at) /\ o.at \notin populated /\ o.at \in Machines
      BY <1>2, <1>6, <2>2, <3>0 DEF DeleteRow, GoOn, Continue, At, CallOK, CallTyped
    <3>2. /\ DOMAIN c = DOMAIN o /\ c.pc = "evict" /\ c.at = o.at /\ c.body = o.body
          /\ c.stack = o.stack /\ c.loads = o.loads
      BY <1>2, <3>0 DEF CallTyped
    <3>3. /\ DOMAIN table' = DOMAIN table \ {o.at}
          /\ \A m \in DOMAIN table' : table'[m] = table[m]
      BY <3>1 DEF Drop
    <3>4. CallOK(c)'
      BY <1>2, <3>1, <3>2, <3>3 DEF CallOK, CallTyped
    <3>5. CacheOK'
      <4>1. call'[r].pc = "evict" /\ call'[r].at = o.at
        BY <1>2, <3>1, <3>2
      <4>2. QED
        BY <1>3, <3>1, <3>3, <4>1 DEF CacheOK, Coherent
    <3>6. /\ \A m \in DOMAIN table' : m \in Machines /\ table'[m] \in KnownBodies /\ table'[m].valid
          /\ populated' \subseteq DOMAIN table'
      BY <3>1, <3>3 DEF RegistryInv
    <3>7. QED
      BY <1>1, <1>2, <3>1, <3>4, <3>5, <3>6, AloneKeepsInv DEF At
  <2>3. QED
    BY <2>1, <2>2
<1>7. CASE RefuseStatement(r)
  BY <1>1, <1>7, FinishKeepsInv DEF RefuseStatement
<1>8. QED
  BY <1>4, <1>5, <1>6, <1>7

\* A step that changes none of it.
LEMMA NothingChanged ==
  ASSUME RegistryInv, UNCHANGED <<table, cache, populated, call>>
  PROVE  RegistryInv'
<1>1. \A r \in Requests : CallOK(call[r])'
  BY DEF RegistryInv, CallOK, CallTyped, Registering, Addressing, ReadOK
<1>2. QED
  BY <1>1 DEF RegistryInv, CacheOK

\* A request that begins.
LEMMA ArriveKeepsInv ==
  ASSUME RegistryInv, NEW r \in Requests, Arrive(r)
  PROVE  RegistryInv'
<1>1. PICK op \in {"create", "update", "get", "enter", "delete"}, m \in Machines, body \in KnownBodies :
        Submit(r, op, m, body) /\ (op \in {"create", "update"} \/ op \in {"get", "enter", "delete"})
  BY DEF Arrive, KnownBodies
<1>2. At(r, "idle") /\ UNCHANGED <<table, cache, populated>>
  BY <1>1 DEF Submit
<1>3. ASSUME NEW c, CallOK(c), call' = [call EXCEPT ![r] = c] PROVE RegistryInv'
  <2>1. ASSUME NEW q \in Requests PROVE CallOK(call'[q])
    BY <1>3 DEF RegistryInv
  <2>2. \A q \in Requests : CallOK(call[q])'
    BY <1>2, <2>1 DEF CallOK, CallTyped, Registering, Addressing, ReadOK
  <2>3. CacheOK'
    BY <1>2, <1>3 DEF RegistryInv, CacheOK, At
  <2>4. QED
    BY <1>2, <1>3, <2>2, <2>3 DEF RegistryInv
<1> DEFINE c == [Idle EXCEPT !.op = op, !.at = m, !.body = body]
<1>4. /\ DOMAIN c = {"op", "pc", "at", "body", "read", "loads", "stack"}
      /\ c.op = op /\ c.at = m /\ c.body = body /\ c.pc = "idle" /\ c.loads = {} /\ c.stack = <<>>
  BY DEF Idle
<1>5. <<>> \in Seq(Frames)
  OBVIOUS
<1>6. CASE op = "create" /\ ~ body.valid
  <2>1. UNCHANGED call
    BY <1>1, <1>6 DEF Submit
  <2>2. QED
    BY <1>2, <2>1, NothingChanged
<1>7. CASE op = "create" /\ body.valid
  <2>1. call' = [call EXCEPT ![r] = StartOfWalk(c)]
    BY <1>1, <1>7 DEF Submit
  <2> HIDE DEF c
  <2>2. CallTyped(c) /\ Registering(c) /\ c.at \in Machines
    BY <1>4, <1>5, <1>7 DEF CallTyped, Registering
  <2>3. CallOK(StartOfWalk(c))
    BY <2>2, StartOfWalkIsOK
  <2>4. QED
    BY <1>3, <2>1, <2>3
<1>8. CASE op # "create"
  <2> DEFINE d == [c EXCEPT !.pc = IF op = "delete" THEN "count" ELSE "load"]
  <2>1. call' = [call EXCEPT ![r] = d]
    BY <1>1, <1>8 DEF Submit
  <2> HIDE DEF c
  <2>2. /\ DOMAIN d = DOMAIN c /\ d.pc = (IF op = "delete" THEN "count" ELSE "load")
        /\ d.op = op /\ d.at = m /\ d.body = body /\ d.loads = {} /\ d.stack = <<>>
    BY <1>4
  <2> HIDE DEF d
  <2>3. CallOK(d)
    BY <1>1, <1>4, <1>5, <1>8, <2>2 DEF CallOK, CallTyped, Addressing
  <2>4. QED
    BY <1>3, <2>1, <2>3
<1>9. QED
  BY <1>6, <1>7, <1>8

\* Entities go only; a machine that has none still has none.
LEMMA DeleteEntitiesKeepsInv ==
  ASSUME RegistryInv, NEW m \in Machines, DeleteEntities(m)
  PROVE  RegistryInv'
<1>1. populated' \subseteq populated /\ UNCHANGED <<table, cache, call>>
  BY DEF DeleteEntities
<1>2. \A r \in Requests : CallOK(call[r])'
  BY <1>1 DEF RegistryInv, CallOK, CallTyped, Registering, Addressing, ReadOK
<1>3. CacheOK'
  BY <1>1 DEF RegistryInv, CacheOK
<1>4. QED
  BY <1>1, <1>2, <1>3 DEF RegistryInv

\* A process that restarts forgets its cache and its requests, and there is no
\* other.
LEMMA RestartKeepsInv ==
  ASSUME RegistryInv, \A p, q \in Processes : p = q, NEW p \in Processes, Restart(p)
  PROVE  RegistryInv'
<1>1. UNCHANGED <<table, populated>> /\ DOMAIN call' = Requests /\ DOMAIN cache' = Processes
  BY DEF Restart, RegistryInv
<1>2. ASSUME NEW r \in Requests PROVE CallOK(call[r])'
  <2>1. call'[r] = Idle
    BY HomeAssumption DEF Restart
  <2>2. QED
    BY <2>1, IdleIsOK DEF CallOK, CallTyped, Idle
<1>3. CacheOK'
  <2>1. ASSUME NEW q \in Processes PROVE cache'[q] = <<>>
    BY DEF Restart, RegistryInv
  <2>2. DOMAIN <<>> = {}
    OBVIOUS
  <2>3. QED
    BY <2>1, <2>2 DEF CacheOK
<1>4. QED
  BY <1>1, <1>2, <1>3 DEF RegistryInv

\* Every step keeps the invariant.
LEMMA NextKeepsInv ==
  ASSUME RegistryInv, OneAtATime, \A p, q \in Processes : p = q, [Next]_vars
  PROVE  RegistryInv'
<1>1. CASE UNCHANGED vars
  BY <1>1, NothingChanged DEF vars
<1>2. ASSUME NEW r \in Requests, Step(r) PROVE RegistryInv'
  <2>1. CASE Hit(r)
    BY <2>1, HitKeepsInv
  <2>2. CASE Read(r)
    BY <2>2, ReadKeepsInv
  <2>3. CASE Fill(r)
    BY <2>3, FillKeepsInv
  <2>4. CASE Miss(r)
    BY <2>4, MissKeepsInv
  <2>5. CASE Descend(r) \/ RefuseNesting(r) \/ EndWalk(r)
    BY <2>5, WalkKeepsInv
  <2>6. CASE Write(r)
    BY <2>6, WriteKeepsInv
  <2>7. CASE Publish(r) \/ Evict(r)
    BY <2>7, PublishKeepsInv
  <2>8. CASE InsertEntity(r) \/ Count(r) \/ DeleteRow(r) \/ RefuseStatement(r)
    BY <2>8, RowsKeepInv
  <2>9. QED
    BY <1>2, <2>1, <2>2, <2>3, <2>4, <2>5, <2>6, <2>7, <2>8 DEF Step
<1>3. ASSUME NEW r \in Requests, Arrive(r) PROVE RegistryInv'
  BY <1>3, ArriveKeepsInv
<1>4. ASSUME NEW m \in Machines, DeleteEntities(m) PROVE RegistryInv'
  BY <1>4, DeleteEntitiesKeepsInv
<1>5. ASSUME NEW p \in Processes, Restart(p) PROVE RegistryInv'
  BY <1>5, RestartKeepsInv
<1>6. QED
  BY <1>1, <1>2, <1>3, <1>4, <1>5 DEF Next

\* It holds at first, if validate() has accepted what the table starts with.
LEMMA InitHasInv ==
  ASSUME \A tab \in Tables : \A m \in DOMAIN tab : tab[m].valid, Init
  PROVE  RegistryInv
<1>1. /\ table \in Tables /\ populated = {} /\ call = [r \in Requests |-> Idle]
      /\ cache = [p \in Processes |-> <<>>]
  BY DEF Init
<1>2. \A r \in Requests : CallOK(call[r])
  BY <1>1, IdleIsOK
<1>3. CacheOK
  <2>1. DOMAIN <<>> = {}
    OBVIOUS
  <2>2. QED
    BY <1>1, <2>1 DEF CacheOK
<1>4. \A m \in DOMAIN table : m \in Machines /\ table[m] \in KnownBodies /\ table[m].valid
  BY <1>1, TablesAssumption DEF KnownBodies
<1>5. QED
  BY <1>1, <1>2, <1>3, <1>4 DEF RegistryInv

-----------------------------------------------------------------------------
(* The theorems.                                                           *)

\* Between requests that come one at a time to one process, what the process
\* would serve from its cache is what the table holds, and validate() accepts it:
\* insert_machine, update_machine and delete_machine each change the row first
\* and the cache after, a restart empties the cache, and load_machine puts there
\* what it reads.
THEOREM TheCacheIsCoherent ==
  ASSUME \A p, q \in Processes : p = q,
         \A tab \in Tables : \A m \in DOMAIN tab : tab[m].valid
  PROVE  Spec /\ []OneAtATime => []CacheIsCoherent
<1>1. Init => RegistryInv
  BY InitHasInv
<1>2. RegistryInv /\ OneAtATime /\ [Next]_vars => RegistryInv'
  BY NextKeepsInv
<1>3. RegistryInv => CacheIsCoherent
  <2> SUFFICES ASSUME RegistryInv, Quiet PROVE CacheIsCoherent
    BY DEF CacheIsCoherent
  <2>1. \A r \in Requests : call[r].pc \notin {"publish", "evict"}
    BY DEF Quiet, At
  <2>2. QED
    BY <2>1 DEF RegistryInv, CacheOK, CacheIsCoherent
<1>4. QED
  BY <1>1, <1>2, <1>3, PTL DEF Spec

\* Nor has any entity lost the definition of its machine: create_entity inserts
\* one for a machine it has loaded, and delete_machine deletes a row after it has
\* counted no entities.
THEOREM EntitiesKeepTheirMachine ==
  ASSUME \A p, q \in Processes : p = q,
         \A tab \in Tables : \A m \in DOMAIN tab : tab[m].valid
  PROVE  Spec /\ []OneAtATime => []EntitiesHaveTheirMachine
<1>1. Init => RegistryInv
  BY InitHasInv
<1>2. RegistryInv /\ OneAtATime /\ [Next]_vars => RegistryInv'
  BY NextKeepsInv
<1>3. RegistryInv => EntitiesHaveTheirMachine
  BY DEF RegistryInv, EntitiesHaveTheirMachine
<1>4. QED
  BY <1>1, <1>2, <1>3, PTL DEF Spec

-----------------------------------------------------------------------------
(* The walk over managed references.                                       *)
(*                                                                         *)
(* check_managed_nesting follows every chain of references from the new    *)
(* definition down, in the table as it will be.  Its invariant: whatever   *)
(* chain it would have to refuse, it has a beginning of that chain before  *)
(* it, among the references it still loads or the definitions it still     *)
(* descends into.  So a walk that ends has no such chain to refuse.        *)

\* The table as it will be: the new definition takes its machine's place.
Known(c) == DOMAIN table \union {c.at}
DefinitionOf(c, m) == IF m = c.at THEN c.body ELSE table[m]

\* A chain of references that starts at the new definition.
Follows(c, d) ==
  /\ d[1] = c.at
  /\ \A i \in 1..Len(d) - 1 : /\ d[i + 1] \in Known(c)
                              /\ \E ref \in DefinitionOf(c, d[i]).refs : ref.machine = d[i + 1]

\* The chain with which the walk comes to d[k].
Upto(d, k) == SubSeq(d, 1, k)

\* The walk has a beginning of d before it.
Awaits(c, d) ==
  \E k \in 1..Len(d) : \/ \E i \in DOMAIN c.stack : c.stack[i].chain = Upto(d, k)
                       \/ \E load \in c.loads : load.chain = Upto(d, k)

FrameOK(c, f) == f.chain[1] = c.at /\ ~ Refused(f) /\ f.body = DefinitionOf(c, Last(f.chain))

WalkOK(c) ==
  /\ \A i \in DOMAIN c.stack : FrameOK(c, c.stack[i])
  /\ \A load \in c.loads : load.chain[1] = c.at
  /\ \A d \in Chains : Follows(c, d) /\ Refused([chain |-> d]) => Awaits(c, d)

\* A registration on its way, from its walk to its write.
OnItsWay(c) ==
  /\ c.pc \in {"walk", "write"} => WalkOK(c)
  /\ c.pc = "fill" /\ Len(c.read.load.chain) # 1 =>
       WalkOK(c) /\ c.read.load \in c.loads /\ ~ Refused(c.read.load)
  /\ c.pc = "write" => c.loads = {} /\ c.stack = <<>>

WalkInv == RegistryInv /\ \A r \in Requests : OnItsWay(call[r])

\* The end of a chain, what comes before it, and its beginnings.
LEMMA ChainIs ==
  ASSUME NEW d \in Chains
  PROVE  /\ Len(d) \in Nat \ {0} /\ d \in Seq(Machines)
         /\ Last(d) = d[Len(d)]
         /\ \A i \in 1..Len(d) - 1 : d[i] \in ToSet(Front(d))
         /\ Len(d) = 1 => ToSet(Front(d)) = {}
         /\ Upto(d, 1) = <<d[1]>>
         /\ \A k \in 1..Len(d) : Len(Upto(d, k)) = k /\ Upto(d, k)[k] = d[k]
         /\ \A k \in 1..Len(d) - 1 : Append(Upto(d, k), d[k + 1]) = Upto(d, k + 1)
<1>1. Len(d) \in Nat \ {0} /\ d \in Seq(Machines)
  BY DEF Chains
<1>2. Last(d) = d[Len(d)]
  BY DEF Last
<1>3. \A k \in 1..Len(d) :
        /\ Upto(d, k) \in Seq(Machines) /\ Len(Upto(d, k)) = k
        /\ \A i \in 1..k : Upto(d, k)[i] = d[i]
  BY <1>1 DEF Upto
<1>4. DOMAIN Front(d) = 1..Len(d) - 1 /\ \A i \in 1..Len(d) - 1 : Front(d)[i] = d[i]
  <2>1. Len(d) - 1 \in Nat /\ \A i \in 1..Len(d) - 1 : i \in 1..Len(d)
    BY <1>1
  <2>2. DOMAIN SubSeq(d, 1, Len(d) - 1) = 1..Len(d) - 1
    BY <1>1, <2>1
  <2>3. \A i \in 1..Len(d) - 1 : SubSeq(d, 1, Len(d) - 1)[i] = d[i]
    BY <1>1, <2>1
  <2>4. QED
    BY <2>2, <2>3 DEF Front
<1>5. /\ \A i \in 1..Len(d) - 1 : d[i] \in ToSet(Front(d))
      /\ Len(d) = 1 => ToSet(Front(d)) = {}
  <2>1. ToSet(Front(d)) = {Front(d)[i] : i \in 1..Len(d) - 1}
    BY <1>4 DEF ToSet
  <2>2. \A i \in 1..Len(d) - 1 : Front(d)[i] = d[i]
    BY <1>4
  <2>3. \A i \in 1..Len(d) - 1 : d[i] \in ToSet(Front(d))
    BY <2>1, <2>2, Zenon
  <2>4. Len(d) = 1 => 1..Len(d) - 1 = {}
    BY <1>1
  <2>5. QED
    BY <2>1, <2>3, <2>4
<1>6. Upto(d, 1) = <<d[1]>>
  <2> DEFINE a == Upto(d, 1)
  <2>1. 1 \in 1..Len(d) /\ d[1] \in Machines
    BY <1>1
  <2>2. a \in Seq(Machines) /\ Len(a) = 1 /\ \A i \in 1..1 : a[i] = d[i]
    BY <1>3, <2>1
  <2> HIDE DEF a
  <2>3. a = <<d[1]>>
    BY <2>1, <2>2
  <2>4. QED
    BY <2>3 DEF a
<1>7. ASSUME NEW k \in 1..Len(d) - 1 PROVE Append(Upto(d, k), d[k + 1]) = Upto(d, k + 1)
  <2>1. k \in 1..Len(d) /\ k + 1 \in 1..Len(d) /\ k \in Nat
    BY <1>1
  <2>2. PICK a : a = Upto(d, k)
    OBVIOUS
  <2>3. PICK b : b = Upto(d, k + 1)
    OBVIOUS
  <2>4. a \in Seq(Machines) /\ Len(a) = k /\ \A i \in 1..k : a[i] = d[i]
    BY <1>3, <2>1, <2>2
  <2>5. b \in Seq(Machines) /\ Len(b) = k + 1 /\ \A i \in 1..k + 1 : b[i] = d[i]
    BY <1>3, <2>1, <2>3
  <2>6. d[k + 1] \in Machines /\ k + 1 \in 1..k + 1 /\ \A i \in 1..k : i \in 1..k + 1
    BY <1>1, <2>1
  <2>7. \A i \in 1..k : a[i] = b[i]
    BY <2>4, <2>5, <2>6
  <2>8. b[k + 1] = d[k + 1]
    BY <2>5, <2>6
  <2>9. Append(a, d[k + 1]) = b
    <3>1. PICK x \in Machines : x = d[k + 1]
      BY <2>6
    <3>2. Append(a, x) = b
      BY <2>1, <2>4, <2>5, <2>7, <2>8, <3>1
    <3>3. QED
      BY <3>1, <3>2
  <2>10. QED
    BY <2>2, <2>3, <2>9
<1>8. QED
  BY <1>1, <1>2, <1>3, <1>5, <1>6, <1>7

\* A chain that is not refused does not come back to where it started.
LEMMA NotBack ==
  ASSUME NEW d \in Chains, ~ Refused([chain |-> d]), Len(d) # 1
  PROVE  Last(d) # d[1]
<1>1. 1 \in 1..Len(d) - 1
  BY ChainIs
<1>2. d[1] \in ToSet(Front(d))
  BY <1>1, ChainIs
<1>3. QED
  BY <1>2 DEF Refused

\* What the walk must refuse does not depend on what it knows of a chain.
LEMMA RefusedIs ==
  ASSUME NEW x, NEW y, x.chain = y.chain
  PROVE  Refused(x) <=> Refused(y)
BY DEF Refused

\* A walk that starts has the whole of it before it.
LEMMA StartWalks ==
  ASSUME NEW c, CallTyped(c), c.at \in Machines
  PROVE  WalkOK(StartOfWalk(c))
<1> DEFINE frame == [chain |-> <<c.at>>, body |-> c.body]
           w == StartOfWalk(c)
<1>1. /\ w.at = c.at /\ w.body = c.body /\ w.stack = <<frame>> /\ w.loads = {}
  BY DEF StartOfWalk, CallTyped
<1>2. frame.chain = <<c.at>> /\ frame.body = c.body /\ <<c.at>>[1] = c.at
  OBVIOUS
<1>3. <<c.at>> \in Chains /\ Len(<<c.at>>) = 1 /\ Last(<<c.at>>) = c.at
  BY SingleChain
<1> HIDE DEF frame, w
<1>4. DOMAIN w.stack = {1} /\ w.stack[1] = frame
  BY <1>1
<1>5. ~ Refused(frame)
  <2>1. ToSet(Front(<<c.at>>)) = {}
    BY <1>3, ChainIs
  <2>2. ~ (1 - 1 > MaxNesting)
    BY BoundsAssumption
  <2>3. QED
    BY <1>2, <1>3, <2>1, <2>2 DEF Refused
<1>6. FrameOK(w, frame)
  BY <1>1, <1>2, <1>3, <1>5 DEF FrameOK, DefinitionOf
<1>7. ASSUME NEW d \in Chains, Follows(w, d) PROVE Awaits(w, d)
  <2>1. Upto(d, 1) = <<c.at>> /\ 1 \in 1..Len(d)
    BY <1>1, <1>7, ChainIs DEF Follows
  <2>2. QED
    BY <1>2, <1>4, <2>1 DEF Awaits
<1>8. QED
  BY <1>1, <1>4, <1>6, <1>7 DEF WalkOK, w

\* A definition that was loaded is descended into.
LEMMA OnwardWalks ==
  ASSUME NEW o, WalkOK(o), o.stack \in Seq(Frames),
         NEW load \in o.loads, load.chain \in Chains, Len(load.chain) # 1, ~ Refused(load),
         NEW frame \in Frames, frame.chain = load.chain, frame.body = table[Last(load.chain)],
         NEW c, c.at = o.at, c.body = o.body, c.loads = o.loads \ {load}, c.stack = Append(o.stack, frame)
  PROVE  WalkOK(c)
<1>1. Last(load.chain) # o.at /\ load.chain[1] = o.at
  <2>1. ~ Refused([chain |-> load.chain])
    BY RefusedIs
  <2>2. QED
    BY <2>1, NotBack DEF WalkOK
<1>2. FrameOK(o, frame)
  <2>1. ~ Refused(frame)
    BY RefusedIs
  <2>2. QED
    BY <1>1, <2>1 DEF FrameOK, DefinitionOf
<1>3. /\ \A f : FrameOK(c, f) <=> FrameOK(o, f)
      /\ \A d : Follows(c, d) <=> Follows(o, d)
  BY DEF FrameOK, Follows, Known, DefinitionOf
<1>4. /\ \A i \in DOMAIN c.stack : c.stack[i] = frame \/ \E j \in DOMAIN o.stack : c.stack[i] = o.stack[j]
      /\ \A j \in DOMAIN o.stack : j \in DOMAIN c.stack /\ c.stack[j] = o.stack[j]
      /\ \E i \in DOMAIN c.stack : c.stack[i] = frame
  <2> DEFINE s == o.stack
             t == Append(s, frame)
  <2>1. /\ Len(s) \in Nat /\ DOMAIN s = 1..Len(s) /\ DOMAIN t = 1..Len(s) + 1
        /\ \A j \in 1..Len(s) : t[j] = s[j] /\ t[Len(s) + 1] = frame
    OBVIOUS
  <2>2. t[Len(s) + 1] = frame
    OBVIOUS
  <2>3. c.stack = t
    OBVIOUS
  <2> HIDE DEF s, t
  <2>4. QED
    BY <2>1, <2>2, <2>3 DEF s
<1>5. ASSUME NEW d, Awaits(o, d) PROVE Awaits(c, d)
  <2>1. PICK k \in 1..Len(d) : \/ \E i \in DOMAIN o.stack : o.stack[i].chain = Upto(d, k)
                               \/ \E x \in o.loads : x.chain = Upto(d, k)
    BY <1>5 DEF Awaits
  <2>2. \/ \E i \in DOMAIN c.stack : c.stack[i].chain = Upto(d, k)
        \/ \E x \in c.loads : x.chain = Upto(d, k)
    <3>1. CASE \E i \in DOMAIN o.stack : o.stack[i].chain = Upto(d, k)
      BY <1>4, <3>1
    <3>2. ASSUME NEW x \in o.loads, x.chain = Upto(d, k), x = load
          PROVE  \E i \in DOMAIN c.stack : c.stack[i].chain = Upto(d, k)
      BY <1>4, <3>2
    <3>3. ASSUME NEW x \in o.loads, x.chain = Upto(d, k), x # load
          PROVE  \E y \in c.loads : y.chain = Upto(d, k)
      BY <3>3
    <3>4. QED
      BY <2>1, <3>1, <3>2, <3>3
  <2>3. QED
    BY <2>2 DEF Awaits
<1>6. /\ \A i \in DOMAIN o.stack : FrameOK(o, o.stack[i])
      /\ \A x \in o.loads : x.chain[1] = o.at
      /\ \A d \in Chains : Follows(o, d) /\ Refused([chain |-> d]) => Awaits(o, d)
  BY DEF WalkOK
<1>7. \A i \in DOMAIN c.stack : FrameOK(c, c.stack[i])
  BY <1>2, <1>3, <1>4, <1>6
<1>8. \A x \in c.loads : x.chain[1] = c.at
  BY <1>6
<1>9. \A d \in Chains : Follows(c, d) /\ Refused([chain |-> d]) => Awaits(c, d)
  BY <1>3, <1>5, <1>6
<1>10. QED
  BY <1>7, <1>8, <1>9 DEF WalkOK

\* A machine that is not there leads nowhere.
LEMMA PassedOverWalks ==
  ASSUME NEW o, WalkOK(o), NEW load \in o.loads, load.chain \in Chains, Len(load.chain) # 1,
         ~ Refused(load), Last(load.chain) \notin DOMAIN table,
         NEW c, c.at = o.at, c.body = o.body, c.loads = o.loads \ {load}, c.stack = o.stack
  PROVE  WalkOK(c)
<1>1. Last(load.chain) \notin Known(o)
  <2>1. ~ Refused([chain |-> load.chain])
    BY RefusedIs
  <2>2. Last(load.chain) # o.at
    BY <2>1, NotBack DEF WalkOK
  <2>3. QED
    BY <2>2 DEF Known
<1>2. /\ \A f : FrameOK(c, f) <=> FrameOK(o, f)
      /\ \A d : Follows(c, d) <=> Follows(o, d)
  BY DEF FrameOK, Follows, Known, DefinitionOf
<1>3. ASSUME NEW d \in Chains, Follows(o, d), NEW k \in 1..Len(d) PROVE load.chain # Upto(d, k)
  <2> SUFFICES ASSUME load.chain = Upto(d, k) PROVE FALSE
    OBVIOUS
  <2>1. Len(d) \in Nat \ {0} /\ Len(load.chain) = k /\ Last(load.chain) = d[k]
    BY ChainIs
  <2>2. k - 1 \in 1..Len(d) - 1 /\ (k - 1) + 1 = k
    BY <2>1
  <2>3. d[k] \in Known(o)
    BY <1>3, <2>2 DEF Follows
  <2>4. QED
    BY <1>1, <2>1, <2>3
<1>4. ASSUME NEW d \in Chains, Follows(o, d), Awaits(o, d) PROVE Awaits(c, d)
  BY <1>3, <1>4 DEF Awaits
<1>5. QED
  BY <1>2, <1>4 DEF WalkOK

\* In the place of a definition come its references.
LEMMA DescentWalks ==
  ASSUME NEW o, WalkOK(o), o.stack \in Seq(Frames), o.stack # <<>>, o.loads = {},
         NEW frame, frame = Last(o.stack),
         NEW c, c.at = o.at, c.body = o.body, c.stack = Front(o.stack),
         c.loads = {[chain |-> Below(frame.chain, ref.machine), shape |-> ref.shape] : ref \in frame.body.refs}
  PROVE  WalkOK(c)
<1>1. /\ \A i \in DOMAIN c.stack : i \in DOMAIN o.stack /\ c.stack[i] = o.stack[i]
      /\ \A i \in DOMAIN o.stack : i \in DOMAIN c.stack \/ o.stack[i] = frame
      /\ \E i \in DOMAIN o.stack : o.stack[i] = frame
  <2> DEFINE s == o.stack
             t == Front(s)
  <2>1. Len(s) \in Nat \ {0} /\ DOMAIN s = 1..Len(s) /\ frame = s[Len(s)]
    BY DEF Last
  <2>2. DOMAIN t = 1..Len(s) - 1 /\ \A i \in 1..Len(s) - 1 : t[i] = s[i]
    BY <2>1 DEF Front
  <2>3. c.stack = t
    OBVIOUS
  <2> HIDE DEF s, t
  <2>4. QED
    BY <2>1, <2>2, <2>3 DEF s
<1>2. /\ \A f : FrameOK(c, f) <=> FrameOK(o, f)
      /\ \A d : Follows(c, d) <=> Follows(o, d)
  BY DEF FrameOK, Follows, Known, DefinitionOf
<1>3. FrameOK(o, frame) /\ frame.chain \in Chains
  <2>1. FrameOK(o, frame)
    BY <1>1 DEF WalkOK
  <2>2. frame \in Frames
    BY StackOps
  <2>3. QED
    BY <2>1, <2>2 DEF Frames
<1>4. \A load \in c.loads : load.chain[1] = c.at
  <2> SUFFICES ASSUME NEW ref \in frame.body.refs PROVE Below(frame.chain, ref.machine)[1] = o.at
    OBVIOUS
  <2>1. frame.chain \in Seq(Machines) /\ 1 \in 1..Len(frame.chain) /\ frame.chain[1] = o.at
    BY <1>3, ChainIs DEF FrameOK
  <2>2. QED
    BY <2>1 DEF Below
<1>5. ASSUME NEW d \in Chains, Follows(o, d), Refused([chain |-> d]), Awaits(o, d) PROVE Awaits(c, d)
  <2>1. PICK k \in 1..Len(d) : \E i \in DOMAIN o.stack : o.stack[i].chain = Upto(d, k)
    BY <1>5 DEF Awaits
  <2>2. PICK i \in DOMAIN o.stack : o.stack[i].chain = Upto(d, k)
    BY <2>1
  <2>3. CASE i \in DOMAIN c.stack
    BY <1>1, <2>2, <2>3 DEF Awaits
  <2>4. CASE o.stack[i] = frame
    <3>1. frame.chain = Upto(d, k)
      BY <2>2, <2>4
    <3>2. Len(d) \in Nat \ {0} /\ Len(frame.chain) = k /\ Last(frame.chain) = d[k]
      BY <1>3, <3>1, ChainIs
    <3>3. k # Len(d)
      <4> SUFFICES ASSUME k = Len(d) PROVE FALSE
        OBVIOUS
      <4>1. Upto(d, k) = d
        BY <3>2, ChainIs DEF Upto
      <4>2. Refused(frame)
        BY <1>5, <3>1, <4>1, RefusedIs
      <4>3. QED
        BY <1>3, <4>2 DEF FrameOK
    <3>4. k \in 1..Len(d) - 1 /\ k + 1 \in 1..Len(d)
      BY <3>2, <3>3
    <3>5. PICK ref \in DefinitionOf(o, d[k]).refs : ref.machine = d[k + 1]
      BY <1>5, <3>4 DEF Follows
    <3>6. ref \in frame.body.refs
      BY <1>3, <3>2, <3>5 DEF FrameOK
    <3>7. Below(frame.chain, ref.machine) = Upto(d, k + 1)
      BY <3>1, <3>4, <3>5, ChainIs DEF Below
    <3>8. \E load \in c.loads : load.chain = Upto(d, k + 1)
      <4> DEFINE load == [chain |-> Below(frame.chain, ref.machine), shape |-> ref.shape]
      <4>1. load.chain = Upto(d, k + 1)
        BY <3>7
      <4>2. load \in c.loads
        BY <3>6
      <4> HIDE DEF load
      <4>3. QED
        BY <4>1, <4>2
    <3>9. QED
      BY <3>4, <3>8 DEF Awaits
  <2>5. QED
    BY <1>1, <2>3, <2>4
<1>6. QED
  BY <1>1, <1>2, <1>4, <1>5 DEF WalkOK


\* A request that carries nothing of a walk, and one whose walk is as it was.
LEMMA NoWalk ==
  ASSUME NEW c, c.pc \notin {"walk", "write", "fill"}
  PROVE  OnItsWay(c)
BY DEF OnItsWay

LEMMA SameWalk ==
  ASSUME NEW o, WalkOK(o), NEW c, c.at = o.at, c.body = o.body, c.stack = o.stack, c.loads = o.loads
  PROVE  WalkOK(c)
<1>1. /\ \A f : FrameOK(c, f) <=> FrameOK(o, f)
      /\ \A d : Follows(c, d) <=> Follows(o, d)
      /\ \A d : Awaits(c, d) <=> Awaits(o, d)
  BY DEF FrameOK, Follows, Awaits, Known, DefinitionOf
<1>2. QED
  BY <1>1 DEF WalkOK

LEMMA SameTable ==
  ASSUME NEW c, OnItsWay(c), UNCHANGED table
  PROVE  OnItsWay(c)'
BY DEF OnItsWay, WalkOK, FrameOK, Follows, Known, DefinitionOf

\* A step that leaves the table alone moves one request.
LEMMA OneMoves ==
  ASSUME WalkInv, UNCHANGED table, NEW r \in Requests, NEW c, OnItsWay(c), call' = [call EXCEPT ![r] = c]
  PROVE  \A q \in Requests : OnItsWay(call[q])'
<1> SUFFICES ASSUME NEW q \in Requests PROVE OnItsWay(call[q])'
  OBVIOUS
<1>1. PICK d : d = call'[q]
  OBVIOUS
<1>2. OnItsWay(d)
  BY <1>1 DEF WalkInv, RegistryInv
<1>3. OnItsWay(d)'
  BY <1>2, SameTable
<1>4. OnItsWay(call[q])' <=> OnItsWay(d)'
  BY <1>1 DEF OnItsWay, WalkOK, FrameOK, Follows, Awaits, Known, DefinitionOf
<1>5. QED
  BY <1>3, <1>4

LEMMA NoneMoves ==
  ASSUME WalkInv, UNCHANGED <<table, call>>
  PROVE  \A q \in Requests : OnItsWay(call[q])'
<1> SUFFICES ASSUME NEW q \in Requests PROVE OnItsWay(call[q])'
  OBVIOUS
<1>1. PICK d : d = call[q]
  OBVIOUS
<1>2. OnItsWay(d)'
  BY <1>1, SameTable DEF WalkInv
<1>3. QED
  BY <1>1, <1>2 DEF OnItsWay, WalkOK, FrameOK, Follows, Awaits, Known, DefinitionOf

\* A step that changes the table is that of the one request there is.
LEMMA OneIsThere ==
  ASSUME WalkInv, OneAtATime, NEW r \in Requests, ~ At(r, "idle"),
         NEW c, c.pc \notin {"walk", "write", "fill"}, call' = [call EXCEPT ![r] = c]
  PROVE  \A q \in Requests : OnItsWay(call[q])'
<1> SUFFICES ASSUME NEW q \in Requests PROVE OnItsWay(call[q])'
  OBVIOUS
<1>1. call'[q].pc \notin {"walk", "write", "fill"}
  BY DEF WalkInv, RegistryInv, OneAtATime, At
<1>2. QED
  BY <1>1 DEF OnItsWay

\* What a request does with a definition that is as the table has it.
LEMMA LoadedWalks ==
  ASSUME WalkInv, NEW r \in Requests, call[r].pc \in {"load", "walk", "fill"},
         NEW load, NEW body, load.chain \in Chains, body \in KnownBodies,
         body = table[Last(load.chain)],
         Len(load.chain) = 1 => Addressing(call[r]),
         Len(load.chain) # 1 => WalkOK(call[r]) /\ load \in call[r].loads /\ ~ Refused(load),
         Loaded(r, load, body)
  PROVE  \E c : OnItsWay(c) /\ call' = [call EXCEPT ![r] = c]
<1> DEFINE o == call[r]
<1>1. CallTyped(o) /\ o.at \in Machines
  BY DEF WalkInv, RegistryInv, CallOK, CallTyped
<1>2. ASSUME NEW what, Finish(r, what) PROVE \E c : OnItsWay(c) /\ call' = [call EXCEPT ![r] = c]
  <2>1. OnItsWay(Idle)
    BY NoWalk DEF Idle
  <2>2. QED
    BY <1>2, <2>1 DEF Finish
<1>3. CASE Len(load.chain) = 1
  <2>1. Proceed(r) /\ o.op \in {"get", "enter", "update"}
    BY <1>3 DEF Loaded, Addressing
  <2>2. CASE o.op = "get"
    BY <1>2, <2>1, <2>2 DEF Proceed
  <2>3. CASE o.op = "enter"
    <3> DEFINE c == [o EXCEPT !.pc = "entity"]
    <3>1. call' = [call EXCEPT ![r] = c]
      BY <2>1, <2>3 DEF Proceed, GoOn, Continue
    <3>2. c.pc = "entity"
      BY <1>1 DEF CallTyped
    <3>3. OnItsWay(c)
      BY <3>2, NoWalk
    <3>4. QED
      BY <3>1, <3>3
  <2>4. CASE o.op = "update" /\ o.body.valid
    <3> DEFINE c == StartOfWalk(o)
    <3>1. call' = [call EXCEPT ![r] = c]
      BY <2>1, <2>4 DEF Proceed, Continue
    <3>2. c.pc = "walk"
      BY <1>1 DEF StartOfWalk, CallTyped
    <3>3. WalkOK(c)
      BY <1>1, StartWalks
    <3>4. OnItsWay(c)
      BY <3>2, <3>3 DEF OnItsWay
    <3>5. QED
      BY <3>1, <3>4
  <2>5. CASE o.op = "update" /\ ~ o.body.valid
    BY <1>2, <2>1, <2>5 DEF Proceed
  <2>6. QED
    BY <2>1, <2>2, <2>3, <2>4, <2>5
<1>4. CASE Len(load.chain) # 1
  <2>1. WalkOn(r, load, body)
    BY <1>4 DEF Loaded
  <2>2. CASE ~ Fits(load.shape, body)
    BY <1>2, <2>1, <2>2 DEF WalkOn
  <2>3. CASE Fits(load.shape, body)
    <3> DEFINE frame == [chain |-> load.chain, body |-> body]
               c == [o EXCEPT !.pc = "walk", !.loads = @ \ {load}, !.stack = Append(@, frame)]
    <3>1. call' = [call EXCEPT ![r] = c]
      BY <2>1, <2>3 DEF WalkOn, Continue
    <3>2. frame.chain = load.chain /\ frame.body = body /\ frame \in Frames
      BY DEF Frames
    <3>3. /\ c.pc = "walk" /\ c.at = o.at /\ c.body = o.body
          /\ c.loads = o.loads \ {load} /\ c.stack = Append(o.stack, frame)
      BY <1>1 DEF CallTyped
    <3>4. o.stack \in Seq(Frames)
      BY <1>1 DEF CallTyped
    <3> HIDE DEF c, frame, o
    <3>5. WalkOK(o) /\ load \in o.loads /\ ~ Refused(load)
      BY <1>4 DEF o
    <3>6. WalkOK(c)
      BY <1>4, <3>2, <3>3, <3>4, <3>5, OnwardWalks
    <3>7. OnItsWay(c)
      BY <3>3, <3>6 DEF OnItsWay
    <3>8. QED
      BY <3>1, <3>7
  <2>4. QED
    BY <2>2, <2>3
<1>5. QED
  BY <1>3, <1>4

LEMMA HitWalks ==
  ASSUME WalkInv, OneAtATime, NEW r \in Requests, Hit(r)
  PROVE  \A q \in Requests : OnItsWay(call[q])'
<1>0. RegistryInv
  BY DEF WalkInv
<1>1. PICK load \in Loading(r) :
        /\ ~ Refused(load)
        /\ Last(load.chain) \in DOMAIN cache[Home[r]]
        /\ Loaded(r, load, cache[Home[r]][Last(load.chain)])
        /\ UNCHANGED <<table, cache, populated>>
  BY DEF Hit
<1>2. /\ call[r].pc \in {"load", "walk"} /\ load.chain \in Chains
      /\ Len(load.chain) = 1 => Addressing(call[r])
      /\ call[r].pc = "walk" => load \in call[r].loads
  BY <1>0, LoadingOK
<1>3. PICK body : body = cache[Home[r]][Last(load.chain)]
  OBVIOUS
<1>4. Last(load.chain) \in DOMAIN table /\ body = table[Last(load.chain)]
  BY <1>0, <1>1, <1>2, <1>3, CoherentWhileReading, HomeAssumption DEF Coherent
<1>5. body \in KnownBodies
  BY <1>0, <1>4 DEF RegistryInv
<1>6. Len(load.chain) # 1 => WalkOK(call[r]) /\ load \in call[r].loads /\ ~ Refused(load)
  <2>1. call[r].pc = "load" => Len(load.chain) = 1
    BY <1>0, SingleChain DEF Loading, At, RegistryInv, CallOK, CallTyped
  <2>2. QED
    BY <1>1, <1>2, <2>1 DEF WalkInv, OnItsWay
<1>7. \E c : OnItsWay(c) /\ call' = [call EXCEPT ![r] = c]
  BY <1>1, <1>2, <1>3, <1>4, <1>5, <1>6, LoadedWalks
<1>8. QED
  BY <1>1, <1>7, OneMoves

LEMMA ReadWalks ==
  ASSUME WalkInv, NEW r \in Requests, Read(r)
  PROVE  \A q \in Requests : OnItsWay(call[q])'
<1> DEFINE o == call[r]
<1>0. RegistryInv
  BY DEF WalkInv
<1>1. PICK load \in Loading(r) :
        /\ ~ Refused(load)
        /\ Continue(r, [o EXCEPT !.pc = "fill",
                          !.read = [load |-> load, body |-> table[Last(load.chain)]]])
        /\ UNCHANGED <<table, cache, populated>>
  BY DEF Read
<1>2. o.pc \in {"load", "walk"} /\ (o.pc = "walk" => load \in o.loads)
  BY <1>0, LoadingOK
<1>3. CallTyped(o)
  BY <1>0 DEF RegistryInv, CallOK
<1> DEFINE read == [load |-> load, body |-> table[Last(load.chain)]]
           c == [o EXCEPT !.pc = "fill", !.read = read]
<1>4. /\ c.pc = "fill" /\ c.at = o.at /\ c.body = o.body
      /\ c.stack = o.stack /\ c.loads = o.loads /\ c.read = read
  BY <1>3 DEF CallTyped
<1>5. read.load = load
  OBVIOUS
<1>6. call' = [call EXCEPT ![r] = c]
  BY <1>1 DEF Continue
<1> HIDE DEF c, read
<1>7. o.pc = "load" => Len(load.chain) = 1
  BY <1>0, SingleChain DEF Loading, At, RegistryInv, CallOK, CallTyped
<1>8. o.pc = "walk" => WalkOK(c)
  <2>1. o.pc = "walk" => WalkOK(o)
    BY DEF WalkInv, OnItsWay
  <2>2. QED
    BY <1>4, <2>1, SameWalk
<1>9. OnItsWay(c)
  BY <1>1, <1>2, <1>4, <1>5, <1>7, <1>8 DEF OnItsWay
<1>10. QED
  BY <1>1, <1>6, <1>9, OneMoves

LEMMA FillWalks ==
  ASSUME WalkInv, NEW r \in Requests, Fill(r)
  PROVE  \A q \in Requests : OnItsWay(call[q])'
<1> DEFINE load == call[r].read.load
           body == call[r].read.body
<1>1. call[r].pc = "fill" /\ Loaded(r, load, body) /\ UNCHANGED <<table, populated>>
  BY DEF Fill, At
<1>2. ReadOK(call[r])
  BY <1>1 DEF WalkInv, RegistryInv, CallOK
<1>3. /\ load.chain \in Chains /\ Last(load.chain) \in DOMAIN table /\ body = table[Last(load.chain)]
      /\ Len(load.chain) = 1 => Addressing(call[r])
  BY <1>2 DEF ReadOK
<1>4. body \in KnownBodies
  BY <1>3 DEF WalkInv, RegistryInv
<1>5. Len(load.chain) # 1 => WalkOK(call[r]) /\ load \in call[r].loads /\ ~ Refused(load)
  BY <1>1 DEF WalkInv, OnItsWay
<1> HIDE DEF load, body
<1>6. \E c : OnItsWay(c) /\ call' = [call EXCEPT ![r] = c]
  BY <1>1, <1>3, <1>4, <1>5, LoadedWalks
<1>7. QED
  BY <1>1, <1>6, OneMoves

LEMMA MissWalks ==
  ASSUME WalkInv, NEW r \in Requests, Miss(r)
  PROVE  \A q \in Requests : OnItsWay(call[q])'
<1> DEFINE o == call[r]
<1>0. RegistryInv
  BY DEF WalkInv
<1>1. PICK load \in Loading(r) :
        /\ ~ Refused(load)
        /\ Last(load.chain) \notin DOMAIN table
        /\ IF At(r, "load") THEN Finish(r, "not_found")
           ELSE Continue(r, [o EXCEPT !.loads = @ \ {load}])
        /\ UNCHANGED <<table, cache, populated>>
  BY DEF Miss
<1>2. o.pc \in {"load", "walk"} /\ load.chain \in Chains /\ (o.pc = "walk" => load \in o.loads)
  BY <1>0, LoadingOK
<1>3. CASE o.pc = "load"
  <2>1. call' = [call EXCEPT ![r] = Idle]
    BY <1>1, <1>3 DEF At, Finish
  <2>2. OnItsWay(Idle)
    BY NoWalk DEF Idle
  <2>3. QED
    BY <1>1, <2>1, <2>2, OneMoves
<1>4. CASE o.pc = "walk"
  <2> DEFINE c == [o EXCEPT !.loads = @ \ {load}]
  <2>1. call' = [call EXCEPT ![r] = c]
    BY <1>1, <1>4 DEF At, Continue
  <2>2. CallTyped(o)
    BY <1>0 DEF RegistryInv, CallOK
  <2>3. /\ c.pc = "walk" /\ c.at = o.at /\ c.body = o.body
        /\ c.stack = o.stack /\ c.loads = o.loads \ {load}
    BY <1>4, <2>2 DEF CallTyped
  <2>4. Len(load.chain) # 1 /\ WalkOK(o)
    BY <1>2, <1>4, <2>2 DEF CallTyped, WalkInv, OnItsWay
  <2> HIDE DEF c, o
  <2>5. load \in o.loads
    BY <1>2, <1>4
  <2>6. WalkOK(c)
    BY <1>1, <1>2, <2>3, <2>4, <2>5, PassedOverWalks
  <2>7. OnItsWay(c)
    BY <2>3, <2>6 DEF OnItsWay
  <2>8. QED
    BY <1>1, <2>1, <2>7, OneMoves
<1>5. QED
  BY <1>2, <1>3, <1>4

LEMMA WalksOn ==
  ASSUME WalkInv, NEW r \in Requests, Descend(r) \/ RefuseNesting(r) \/ EndWalk(r)
  PROVE  \A q \in Requests : OnItsWay(call[q])'
<1> DEFINE o == call[r]
<1>1. o.pc = "walk" /\ UNCHANGED <<table, cache, populated>>
  BY DEF Descend, RefuseNesting, EndWalk, At
<1>2. CallTyped(o) /\ WalkOK(o)
  BY <1>1 DEF WalkInv, OnItsWay, RegistryInv, CallOK
<1>3. CASE Descend(r)
  <2> DEFINE frame == Last(o.stack)
             loads == {[chain |-> Below(frame.chain, ref.machine), shape |-> ref.shape] :
                         ref \in frame.body.refs}
             c == [o EXCEPT !.stack = Front(@), !.loads = loads]
  <2>1. o.stack # <<>> /\ o.loads = {} /\ call' = [call EXCEPT ![r] = c]
    BY <1>3 DEF Descend, Continue
  <2>2. o.stack \in Seq(Frames)
    BY <1>2 DEF CallTyped
  <2>3. /\ c.pc = "walk" /\ c.at = o.at /\ c.body = o.body
        /\ c.stack = Front(o.stack) /\ c.loads = loads
    BY <1>1, <1>2 DEF CallTyped
  <2> HIDE DEF c, o
  <2>4. WalkOK(c)
    BY <1>2, <2>1, <2>2, <2>3, DescentWalks
  <2>5. OnItsWay(c)
    BY <2>3, <2>4 DEF OnItsWay
  <2>6. QED
    BY <1>1, <2>1, <2>5, OneMoves DEF o
<1>4. CASE RefuseNesting(r)
  <2>1. call' = [call EXCEPT ![r] = Idle]
    BY <1>4 DEF RefuseNesting, Finish
  <2>2. OnItsWay(Idle)
    BY NoWalk DEF Idle
  <2>3. QED
    BY <1>1, <2>1, <2>2, OneMoves
<1>5. CASE EndWalk(r)
  <2> DEFINE c == [o EXCEPT !.pc = "write"]
  <2>1. call' = [call EXCEPT ![r] = c] /\ o.loads = {} /\ o.stack = <<>>
    BY <1>5 DEF EndWalk, GoOn, Continue
  <2>2. c.pc = "write" /\ c.at = o.at /\ c.body = o.body /\ c.stack = o.stack /\ c.loads = o.loads
    BY <1>2 DEF CallTyped
  <2> HIDE DEF c, o
  <2>3. WalkOK(c)
    BY <1>2, <2>2, SameWalk
  <2>4. OnItsWay(c)
    BY <2>1, <2>2, <2>3 DEF OnItsWay
  <2>5. QED
    BY <1>1, <2>1, <2>4, OneMoves DEF o
<1>6. QED
  BY <1>3, <1>4, <1>5

\* Past its walk a request carries nothing of it.
LEMMA StatementsWalk ==
  ASSUME WalkInv, OneAtATime, NEW r \in Requests,
         \/ Write(r) \/ Publish(r) \/ InsertEntity(r)
         \/ Count(r) \/ DeleteRow(r) \/ Evict(r) \/ RefuseStatement(r)
  PROVE  \A q \in Requests : OnItsWay(call[q])'
<1> DEFINE o == call[r]
<1>1. ~ At(r, "idle")
  BY DEF Write, Publish, InsertEntity, Count, DeleteRow, Evict, RefuseStatement, At
<1>2. CallTyped(o)
  BY DEF WalkInv, RegistryInv, CallOK
<1>3. ASSUME NEW what, Finish(r, what) PROVE \A q \in Requests : OnItsWay(call[q])'
  <2>1. call' = [call EXCEPT ![r] = Idle] /\ Idle.pc = "idle"
    BY <1>3 DEF Finish, Idle
  <2>2. PICK c : c = Idle
    OBVIOUS
  <2>3. QED
    BY <1>1, <2>1, <2>2, OneIsThere
<1>4. ASSUME NEW pc, pc \notin {"walk", "write", "fill"}, GoOn(r, pc)
      PROVE  \A q \in Requests : OnItsWay(call[q])'
  <2>1. PICK c : c = [o EXCEPT !.pc = pc]
    OBVIOUS
  <2>2. call' = [call EXCEPT ![r] = c] /\ c.pc = pc
    BY <1>2, <1>4, <2>1 DEF GoOn, Continue, CallTyped
  <2>3. QED
    BY <1>1, <1>4, <2>2, OneIsThere
<1>5. \/ \E what : Finish(r, what)
      \/ \E pc \in {"publish", "remove", "evict"} : GoOn(r, pc)
  BY DEF Write, Publish, InsertEntity, Count, DeleteRow, Evict, RefuseStatement
<1>6. QED
  BY <1>3, <1>4, <1>5

LEMMA ArriveWalks ==
  ASSUME WalkInv, NEW r \in Requests, Arrive(r)
  PROVE  \A q \in Requests : OnItsWay(call[q])'
<1>1. PICK op \in {"create", "update", "get", "enter", "delete"}, m \in Machines, body \in KnownBodies :
        Submit(r, op, m, body)
  BY DEF Arrive, KnownBodies
<1>2. UNCHANGED table
  BY <1>1 DEF Submit
<1> DEFINE c == [Idle EXCEPT !.op = op, !.at = m, !.body = body]
<1>3. /\ DOMAIN c = {"op", "pc", "at", "body", "read", "loads", "stack"}
      /\ c.at = m /\ c.body = body /\ c.pc = "idle" /\ c.loads = {} /\ c.stack = <<>>
  BY DEF Idle
<1>4. CASE op = "create" /\ ~ body.valid
  BY <1>1, <1>2, <1>4, NoneMoves DEF Submit
<1>5. CASE op = "create" /\ body.valid
  <2>1. call' = [call EXCEPT ![r] = StartOfWalk(c)]
    BY <1>1, <1>5 DEF Submit
  <2> HIDE DEF c
  <2>2. <<>> \in Seq(Frames)
    OBVIOUS
  <2>3. CallTyped(c) /\ c.at \in Machines
    BY <1>3, <2>2 DEF CallTyped
  <2>4. WalkOK(StartOfWalk(c)) /\ StartOfWalk(c).pc = "walk"
    BY <2>3, StartWalks DEF StartOfWalk, CallTyped
  <2>5. OnItsWay(StartOfWalk(c))
    BY <2>4 DEF OnItsWay
  <2>6. QED
    BY <1>2, <2>1, <2>5, OneMoves
<1>6. CASE op # "create"
  <2> DEFINE d == [c EXCEPT !.pc = IF op = "delete" THEN "count" ELSE "load"]
  <2>1. call' = [call EXCEPT ![r] = d]
    BY <1>1, <1>6 DEF Submit
  <2> HIDE DEF c
  <2>2. d.pc \in {"count", "load"}
    BY <1>3
  <2> HIDE DEF d
  <2>3. OnItsWay(d)
    BY <2>2, NoWalk
  <2>4. QED
    BY <1>2, <2>1, <2>3, OneMoves
<1>7. QED
  BY <1>4, <1>5, <1>6

LEMMA RestartWalks ==
  ASSUME WalkInv, NEW p \in Processes, Restart(p)
  PROVE  \A q \in Requests : OnItsWay(call[q])'
<1> SUFFICES ASSUME NEW q \in Requests PROVE OnItsWay(call[q])'
  OBVIOUS
<1>1. UNCHANGED table /\ (call'[q] = Idle \/ call'[q] = call[q])
  BY DEF Restart
<1>2. PICK d : d = call'[q]
  OBVIOUS
<1>3. OnItsWay(d)
  BY <1>1, <1>2, NoWalk DEF WalkInv, Idle
<1>4. OnItsWay(d)'
  BY <1>1, <1>3, SameTable
<1>5. QED
  BY <1>2, <1>4 DEF OnItsWay, WalkOK, FrameOK, Follows, Awaits, Known, DefinitionOf

\* Every step keeps the walk's invariant.
LEMMA NextKeepsWalk ==
  ASSUME WalkInv, OneAtATime, \A p, q \in Processes : p = q, [Next]_vars
  PROVE  WalkInv'
<1>1. RegistryInv'
  BY NextKeepsInv DEF WalkInv
<1>2. \A q \in Requests : OnItsWay(call[q])'
  <2>1. CASE UNCHANGED vars
    BY <2>1, NoneMoves DEF vars
  <2>2. ASSUME NEW r \in Requests, Step(r) PROVE \A q \in Requests : OnItsWay(call[q])'
    <3>1. CASE Hit(r)
      BY <3>1, HitWalks
    <3>2. CASE Read(r)
      BY <3>2, ReadWalks
    <3>3. CASE Fill(r)
      BY <3>3, FillWalks
    <3>4. CASE Miss(r)
      BY <3>4, MissWalks
    <3>5. CASE Descend(r) \/ RefuseNesting(r) \/ EndWalk(r)
      BY <3>5, WalksOn
    <3>6. CASE \/ Write(r) \/ Publish(r) \/ InsertEntity(r)
               \/ Count(r) \/ DeleteRow(r) \/ Evict(r) \/ RefuseStatement(r)
      BY <3>6, StatementsWalk
    <3>7. QED
      BY <2>2, <3>1, <3>2, <3>3, <3>4, <3>5, <3>6 DEF Step
  <2>3. ASSUME NEW r \in Requests, Arrive(r) PROVE \A q \in Requests : OnItsWay(call[q])'
    BY <2>3, ArriveWalks
  <2>4. ASSUME NEW m \in Machines, DeleteEntities(m) PROVE \A q \in Requests : OnItsWay(call[q])'
    BY <2>4, NoneMoves DEF DeleteEntities
  <2>5. ASSUME NEW p \in Processes, Restart(p) PROVE \A q \in Requests : OnItsWay(call[q])'
    BY <2>5, RestartWalks
  <2>6. QED
    BY <2>1, <2>2, <2>3, <2>4, <2>5 DEF Next
<1>3. QED
  BY <1>1, <1>2 DEF WalkInv

\* The references of `tab` lead along `way`, of n machines.
Leads(tab, way, n) == \A i \in 1..n - 1 : \E ref \in tab[way[i]].refs : ref.machine = way[i + 1]

\* The way round from `way[i]`, if the way ends where it begins.
From(way, n, i) == [j \in 1..n |-> IF i + j - 1 <= n THEN way[i + j - 1] ELSE way[i + j - n]]

\* It leads round as the way does.
LEMMA RoundTheWay ==
  ASSUME NEW n \in Nat, n >= 2, NEW S, NEW way \in [1..n -> S], NEW tab, Leads(tab, way, n), way[1] = way[n],
         NEW i \in 1..n - 1
  PROVE  /\ From(way, n, i) \in [1..n -> S]
         /\ From(way, n, i)[1] = way[i] /\ From(way, n, i)[n] = way[i]
         /\ Leads(tab, From(way, n, i), n)
<1> DEFINE d == From(way, n, i)
<1>1. \A j \in 1..n : /\ i + j - 1 <= n => i + j - 1 \in 1..n
                      /\ ~ (i + j - 1 <= n) => i + j - n \in 1..n
  OBVIOUS
<1>2. d \in [1..n -> S]
  BY <1>1 DEF From
<1>3. \A j \in 1..n : d[j] = IF i + j - 1 <= n THEN way[i + j - 1] ELSE way[i + j - n]
  BY DEF From
<1>4. d[1] = way[i]
  <2>1. 1 \in 1..n /\ i + 1 - 1 <= n /\ i + 1 - 1 = i
    OBVIOUS
  <2>2. QED
    BY <1>3, <2>1
<1>5. d[n] = way[i]
  <2>1. n \in 1..n /\ i + n - n = i
    OBVIOUS
  <2>2. CASE i = 1
    <3>1. i + n - 1 <= n /\ i + n - 1 = n
      BY <2>2
    <3>2. QED
      BY <1>3, <2>1, <2>2, <3>1
  <2>3. CASE i # 1
    <3>1. ~ (i + n - 1 <= n)
      BY <2>3
    <3>2. QED
      BY <1>3, <2>1, <3>1
  <2>4. QED
    BY <2>2, <2>3
<1> HIDE DEF d
<1>6. ASSUME NEW j \in 1..n - 1 PROVE \E ref \in tab[d[j]].refs : ref.machine = d[j + 1]
  <2>1. j \in 1..n /\ j + 1 \in 1..n
    OBVIOUS
  <2>2. ASSUME NEW k \in 1..n - 1, d[j] = way[k], d[j + 1] = way[k + 1]
        PROVE  \E ref \in tab[d[j]].refs : ref.machine = d[j + 1]
    BY <2>2 DEF Leads
  <2>3. CASE i + j <= n
    <3> DEFINE k == i + j - 1
    <3>1. k \in 1..n - 1 /\ i + j - 1 <= n /\ i + (j + 1) - 1 <= n /\ i + (j + 1) - 1 = k + 1
      BY <2>3
    <3>2. d[j] = way[k] /\ d[j + 1] = way[k + 1]
      BY <1>3, <2>1, <3>1
    <3> HIDE DEF k
    <3>3. QED
      BY <2>2, <3>1, <3>2
  <2>4. CASE i + j = n + 1
    <3>1. /\ 1 \in 1..n - 1 /\ i + j - 1 <= n /\ i + j - 1 = n
          /\ ~ (i + (j + 1) - 1 <= n) /\ i + (j + 1) - n = 1 + 1
      BY <2>4
    <3>2. d[j] = way[n]
      BY <1>3, <2>1, <3>1
    <3>3. d[j + 1] = way[1 + 1]
      BY <1>3, <2>1, <3>1
    <3>4. QED
      BY <2>2, <3>1, <3>2, <3>3
  <2>5. CASE i + j > n + 1
    <3> DEFINE k == i + j - n
    <3>1. /\ k \in 1..n - 1 /\ ~ (i + j - 1 <= n)
          /\ ~ (i + (j + 1) - 1 <= n) /\ i + (j + 1) - n = k + 1
      BY <2>5
    <3>2. d[j] = way[k] /\ d[j + 1] = way[k + 1]
      BY <1>3, <2>1, <3>1
    <3> HIDE DEF k
    <3>3. QED
      BY <2>2, <3>1, <3>2
  <2>6. QED
    BY <2>3, <2>4, <2>5
<1>7. Leads(tab, d, n)
  BY <1>6 DEF Leads
<1>8. QED
  BY <1>2, <1>4, <1>5, <1>7 DEF d

\* The invariant is what a registration needs when it writes: a cycle that the
\* new definition closes begins at it, and the walk would have refused it.
LEMMA WriteClosesNoCycle ==
  ASSUME NEW o, WalkOK(o), o.loads = {}, o.stack = <<>>, o.at \in Machines, DOMAIN table \subseteq Machines,
         IsAcyclic(table)
  PROVE  IsAcyclic(Put(table, o.at, o.body))
<1> DEFINE tab == Put(table, o.at, o.body)
<1>1. DOMAIN tab = Known(o) /\ \A m \in Known(o) : tab[m] = DefinitionOf(o, m)
  BY DEF Put, Known, DefinitionOf
<1> HIDE DEF tab
<1>2. SUFFICES ASSUME NEW n \in 2..Cardinality(Machines) + 1, NEW way \in [1..n -> DOMAIN tab],
                      Leads(tab, way, n), way[1] = way[n]
               PROVE  FALSE
  BY DEF IsAcyclic, Leads, tab
<1>3. n \in Nat /\ n >= 2 /\ 1 \in 1..n - 1 /\ 1 \in 1..n /\ n \in 1..n
  BY MachinesAssumption, FS_CardinalityType
<1>4. CASE \A i \in 1..n : way[i] # o.at
  <2>1. \A i \in 1..n : way[i] \in DOMAIN table /\ tab[way[i]] = table[way[i]]
    BY <1>1, <1>4 DEF Known, DefinitionOf
  <2>2. way \in [1..n -> DOMAIN table]
    BY <2>1
  <2>3. Leads(table, way, n)
    <3>1. \A i \in 1..n - 1 : i \in 1..n
      BY <1>3
    <3>2. QED
      BY <1>2, <2>1, <3>1 DEF Leads
  <2>4. QED
    BY <1>2, <2>2, <2>3 DEF IsAcyclic, Leads
<1>5. CASE \E i \in 1..n : way[i] = o.at
  <2>1. PICK i \in 1..n - 1 : way[i] = o.at
    <3>1. PICK k \in 1..n : way[k] = o.at
      BY <1>5
    <3>2. CASE k = n
      BY <1>2, <1>3, <3>1, <3>2
    <3>3. CASE k # n
      <4>1. k \in 1..n - 1
        BY <1>3, <3>3
      <4>2. QED
        BY <3>1, <4>1
    <3>4. QED
      BY <3>2, <3>3
  <2>2. PICK d : d = From(way, n, i)
    OBVIOUS
  <2>3. d \in [1..n -> DOMAIN tab] /\ d[1] = o.at /\ d[n] = o.at /\ Leads(tab, d, n)
    <3>1. PICK S : S = DOMAIN tab
      OBVIOUS
    <3>2. way \in [1..n -> S]
      BY <1>2, <3>1
    <3>3. /\ From(way, n, i) \in [1..n -> S]
          /\ From(way, n, i)[1] = way[i] /\ From(way, n, i)[n] = way[i]
          /\ Leads(tab, From(way, n, i), n)
      BY <1>2, <1>3, <3>2, RoundTheWay
    <3>4. QED
      BY <2>1, <2>2, <3>1, <3>3
  <2>4. d \in Chains /\ Len(d) = n
    <3>1. DOMAIN tab \subseteq Machines
      BY <1>1 DEF Known
    <3>2. d \in [1..n -> Machines]
      BY <2>3, <3>1
    <3>3. d \in Seq(Machines) /\ Len(d) = n
      BY <1>3, <3>2
    <3>4. QED
      BY <1>3, <3>3 DEF Chains
  <2>5. Follows(o, d)
    <3>1. ASSUME NEW j \in 1..n - 1
          PROVE  d[j + 1] \in Known(o) /\ \E ref \in DefinitionOf(o, d[j]).refs : ref.machine = d[j + 1]
      <4>1. j \in 1..n /\ j + 1 \in 1..n
        BY <1>3
      <4>2. d[j] \in Known(o) /\ d[j + 1] \in Known(o)
        BY <1>1, <2>3, <4>1
      <4>3. tab[d[j]] = DefinitionOf(o, d[j])
        BY <1>1, <4>2
      <4>4. \E ref \in tab[d[j]].refs : ref.machine = d[j + 1]
        BY <2>3 DEF Leads
      <4>5. QED
        BY <4>2, <4>3, <4>4
    <3>2. QED
      BY <2>3, <2>4, <3>1 DEF Follows
  <2>6. Refused([chain |-> d])
    <3>1. Last(d) = o.at /\ d[1] \in ToSet(Front(d))
      BY <1>3, <2>3, <2>4, ChainIs
    <3>2. QED
      BY <2>3, <3>1 DEF Refused
  <2>7. Awaits(o, d)
    BY <2>4, <2>5, <2>6 DEF WalkOK
  <2>8. DOMAIN o.stack = {}
    OBVIOUS
  <2>9. QED
    BY <2>7, <2>8 DEF Awaits
<1>6. QED
  BY <1>4, <1>5

\* Taking a definition away opens ways, and closes none.
LEMMA RemovalClosesNoCycle ==
  ASSUME IsAcyclic(table), NEW m
  PROVE  IsAcyclic(Drop(table, m))
<1> DEFINE tab == Drop(table, m)
<1>1. DOMAIN tab \subseteq DOMAIN table /\ \A x \in DOMAIN tab : tab[x] = table[x]
  BY DEF Drop
<1> HIDE DEF tab
<1>2. SUFFICES ASSUME NEW n \in 2..Cardinality(Machines) + 1, NEW way \in [1..n -> DOMAIN tab],
                      Leads(tab, way, n)
               PROVE  way[1] # way[n]
  BY DEF IsAcyclic, Leads, tab
<1>3. way \in [1..n -> DOMAIN table]
  BY <1>1
<1>4. Leads(table, way, n)
  <2>1. \A i \in 1..n - 1 : i \in 1..n
    BY MachinesAssumption, FS_CardinalityType
  <2>2. \A i \in 1..n - 1 : tab[way[i]] = table[way[i]]
    BY <1>1, <2>1
  <2>3. QED
    BY <1>2, <2>2 DEF Leads
<1>5. QED
  BY <1>3, <1>4 DEF IsAcyclic, Leads

\* No registration closes a cycle of managed references, while requests come one
\* at a time to one process.  check_managed_nesting walks on from the new
\* definition through whatever load_machine gives it, out of the cache or the
\* table; it passes over machines nobody has registered, and it looks at nothing
\* but what the new definition reaches.
THEOREM RegistrationsCloseNoCycle ==
  ASSUME \A p, q \in Processes : p = q,
         \A tab \in Tables : \A m \in DOMAIN tab : tab[m].valid
  PROVE  Spec /\ []OneAtATime => ReferencesAreAcyclic
<1>1. Init => WalkInv
  <2> SUFFICES ASSUME Init PROVE WalkInv
    OBVIOUS
  <2>1. RegistryInv
    BY InitHasInv
  <2>2. \A r \in Requests : OnItsWay(call[r])
    BY NoWalk DEF Init, Idle
  <2>3. QED
    BY <2>1, <2>2 DEF WalkInv
<1>2. WalkInv /\ OneAtATime /\ [Next]_vars => WalkInv'
  BY NextKeepsWalk
<1>3. WalkInv /\ [Next]_vars => [table' # table /\ IsAcyclic(table) => IsAcyclic(table')]_vars
  <2> SUFFICES ASSUME WalkInv, [Next]_vars, table' # table, IsAcyclic(table) PROVE IsAcyclic(table')
    OBVIOUS
  <2>1. PICK r \in Requests : Write(r) \/ DeleteRow(r)
    BY DEF Next, Step, Arrive, Submit, Hit, Read, Fill, Miss, Descend, RefuseNesting, EndWalk, Publish,
           InsertEntity, Count, Evict, RefuseStatement, DeleteEntities, Restart, vars
  <2>2. CASE Write(r)
    <3> DEFINE o == call[r]
    <3>1. table' = Put(table, o.at, o.body) /\ o.pc = "write"
      BY <2>2 DEF Write, At
    <3>2. WalkOK(o) /\ o.loads = {} /\ o.stack = <<>>
      BY <3>1 DEF WalkInv, OnItsWay
    <3>3. o.at \in Machines /\ DOMAIN table \subseteq Machines
      BY <3>1 DEF WalkInv, RegistryInv, CallOK, CallTyped
    <3> HIDE DEF o
    <3>4. IsAcyclic(Put(table, o.at, o.body))
      BY <3>2, <3>3, WriteClosesNoCycle
    <3>5. QED
      BY <3>1, <3>4
  <2>3. CASE DeleteRow(r)
    <3>1. table' = Drop(table, call[r].at)
      BY <2>3 DEF DeleteRow
    <3>2. IsAcyclic(Drop(table, call[r].at))
      BY RemovalClosesNoCycle
    <3>3. QED
      BY <3>1, <3>2
  <2>4. QED
    BY <2>1, <2>2, <2>3
<1>4. QED
  BY <1>1, <1>2, <1>3, PTL DEF Spec, ReferencesAreAcyclic
=============================================================================
