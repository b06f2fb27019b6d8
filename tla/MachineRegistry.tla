-------------------------- MODULE MachineRegistry --------------------------
(***************************************************************************)
(* The machine registry: definitions in the table `machines`, the cache of *)
(* each process, and the requests that create, replace, read and delete    *)
(* them or create an entity of one.                                        *)
(*                                                                         *)
(* Nothing here runs in a transaction.  A request is a sequence of single  *)
(* statements and cache accesses, other requests of the same process and   *)
(* of other processes run between any two of them, a statement may be      *)
(* refused, and a process may restart, which empties its cache and drops   *)
(* its requests.                                                           *)
(*                                                                         *)
(* Of a definition only what the registry looks at is kept: whether        *)
(* validate() accepts it, its region structure (`shape`) and its managed   *)
(* references, each with the structure its completion rules are written    *)
(* for.                                                                    *)
(***************************************************************************)
EXTENDS Naturals, Sequences, FiniteSets, SequencesExt

CONSTANTS
  Machines,      \* machine ids of one tenant
  Bodies,        \* definitions clients submit: [valid, shape, refs, tag]
  AnyShape,      \* `shape` of a reference without completion rules
  Processes,     \* replicas of the service
  Requests,      \* request tasks
  Home,          \* Home[r]: the process that serves request r
  MaxNesting,    \* MAX_MANAGED_DEPTH
  Tables,        \* tables the service may find when it starts
  MaxRequests,   \* bound on the number of requests
  MaxRestarts    \* bound on the number of restarts

ASSUME MachinesAssumption == IsFiniteSet(Machines)

ASSUME HomeAssumption == Home \in [Requests -> Processes]

ASSUME BoundsAssumption == MaxNesting \in Nat /\ MaxRequests \in Nat /\ MaxRestarts \in Nat

ASSUME BodiesAssumption ==
  \A b \in Bodies : b.valid \in BOOLEAN /\ \A ref \in b.refs : ref.machine \in Machines

ASSUME TablesAssumption ==
  \A tab \in Tables : /\ DOMAIN tab \subseteq Machines
                      /\ \A m \in DOMAIN tab : \A ref \in tab[m].refs : ref.machine \in Machines

VARIABLES
  table,       \* registered definitions, by machine id
  cache,       \* cache[p]: machine_cache of process p
  populated,   \* machines that have an entity
  call,        \* what each request is doing
  answer,      \* the last answer of each request
  requests,    \* requests so far
  restarts     \* restarts so far

vars == <<table, cache, populated, call, answer, requests, restarts>>

NoBody == [valid |-> TRUE, shape |-> AnyShape, refs |-> {}, tag |-> 0]

NoLoad == [chain |-> <<>>, shape |-> AnyShape]

\* `at` is the machine addressed, `body` the definition submitted, `read` one
\* read from the table; `loads` and `stack` belong to check_managed_nesting.
Idle == [op |-> "none", pc |-> "idle", at |-> "", body |-> NoBody,
         read |-> [load |-> NoLoad, body |-> NoBody], loads |-> {}, stack |-> <<>>]

Put(f, k, v) == [x \in DOMAIN f \union {k} |-> IF x = k THEN v ELSE f[x]]
Drop(f, k) == [x \in DOMAIN f \ {k} |-> f[x]]

Init ==
  /\ table \in Tables
  /\ cache = [p \in Processes |-> <<>>]
  /\ populated = {}
  /\ call = [r \in Requests |-> Idle]
  /\ answer = [r \in Requests |-> "none"]
  /\ requests = 0
  /\ restarts = 0

At(r, pc) == call[r].pc = pc

\* Request r goes on as `c`.
Continue(r, c) ==
  /\ call' = [call EXCEPT ![r] = c]
  /\ UNCHANGED <<answer, requests, restarts>>

GoOn(r, pc) == Continue(r, [call[r] EXCEPT !.pc = pc])

Finish(r, what) ==
  /\ call' = [call EXCEPT ![r] = Idle]
  /\ answer' = [answer EXCEPT ![r] = what]
  /\ UNCHANGED <<requests, restarts>>

-----------------------------------------------------------------------------
(* Requests arrive.                                                        *)

\* check_managed_nesting starts with the new definition alone.
StartOfWalk(c) ==
  [c EXCEPT !.pc = "walk", !.stack = <<[chain |-> <<c.at>>, body |-> c.body]>>, !.loads = {}]

\* create_machine validates before it touches anything; every other route first
\* loads the machine, but delete_machine counts its entities.
Submit(r, op, m, body) ==
  /\ At(r, "idle")
  /\ requests < MaxRequests
  /\ requests' = requests + 1
  /\ LET c == [Idle EXCEPT !.op = op, !.at = m, !.body = body]
     IN IF op = "create" /\ ~ body.valid
        THEN /\ answer' = [answer EXCEPT ![r] = "bad_request"]
             /\ UNCHANGED call
        ELSE /\ call' = [call EXCEPT ![r] =
                           IF op = "create" THEN StartOfWalk(c)
                           ELSE IF op = "delete" THEN [c EXCEPT !.pc = "count"]
                           ELSE [c EXCEPT !.pc = "load"]]
             /\ answer' = [answer EXCEPT ![r] = "none"]
  /\ UNCHANGED <<table, cache, populated, restarts>>

-----------------------------------------------------------------------------
(* load_machine, for the machine of the request or a referenced one.       *)

\* A load of the walk is a chain of machine ids from the new definition down.
Loading(r) ==
  IF At(r, "load") THEN {[chain |-> <<call[r].at>>, shape |-> AnyShape]}
  ELSE IF At(r, "walk") THEN call[r].loads ELSE {}

Fits(shape, body) == shape \in {AnyShape, body.shape}

\* A walk goes on with a definition it asked for if the completion rules that
\* refer to it fit.
WalkOn(r, load, body) ==
  IF Fits(load.shape, body)
  THEN Continue(r, [call[r] EXCEPT !.pc = "walk", !.loads = @ \ {load},
                      !.stack = Append(@, [chain |-> load.chain, body |-> body])])
  ELSE Finish(r, "bad_request")

\* A request has its own machine: get_machine answers, create_entity goes on to
\* its INSERT, update_machine validates the new body and walks its references.
Proceed(r) ==
  CASE call[r].op = "get"    -> Finish(r, "ok")
    [] call[r].op = "enter"  -> GoOn(r, "entity")
    [] call[r].op = "update" -> IF call[r].body.valid THEN Continue(r, StartOfWalk(call[r]))
                                ELSE Finish(r, "bad_request")

Loaded(r, load, body) ==
  IF Len(load.chain) = 1 THEN Proceed(r) ELSE WalkOn(r, load, body)

\* Mutant of Refused: only self-references are cycles.
RefusedIfDirect(load) ==
  \/ \E i \in DOMAIN load.chain : i = Len(load.chain) - 1 /\ load.chain[i] = Last(load.chain)
  \/ Len(load.chain) - 1 > MaxNesting

\* A reference that closes a cycle or lies too deep.
Refused(load) ==
  \/ Last(load.chain) \in ToSet(Front(load.chain))
  \/ Len(load.chain) - 1 > MaxNesting

Hit(r) ==
  \E load \in Loading(r) :
    /\ ~ Refused(load)
    /\ Last(load.chain) \in DOMAIN cache[Home[r]]
    /\ Loaded(r, load, cache[Home[r]][Last(load.chain)])
    /\ UNCHANGED <<table, cache, populated>>

\* Cache miss: the row is read here and put into the cache in a later step.
Read(r) ==
  \E load \in Loading(r) :
    /\ ~ Refused(load)
    /\ Last(load.chain) \notin DOMAIN cache[Home[r]]
    /\ Last(load.chain) \in DOMAIN table
    /\ Continue(r, [call[r] EXCEPT !.pc = "fill", !.read = [load |-> load, body |-> table[Last(load.chain)]]])
    /\ UNCHANGED <<table, cache, populated>>

Fill(r) ==
  /\ At(r, "fill")
  /\ LET read == call[r].read
     IN /\ cache' = [cache EXCEPT ![Home[r]] = Put(@, Last(read.load.chain), read.body)]
        /\ Loaded(r, read.load, read.body)
  /\ UNCHANGED <<table, populated>>

\* No such machine: 404, or an unregistered child, which the walk passes over.
Miss(r) ==
  \E load \in Loading(r) :
    /\ ~ Refused(load)
    /\ Last(load.chain) \notin DOMAIN cache[Home[r]] \union DOMAIN table
    /\ IF At(r, "load") THEN Finish(r, "not_found")
       ELSE Continue(r, [call[r] EXCEPT !.loads = @ \ {load}])
    /\ UNCHANGED <<table, cache, populated>>

-----------------------------------------------------------------------------
(* check_managed_nesting: a depth-first walk.                              *)

\* Mutant of Below: a chain that remembers one ancestor.
BelowParent(chain, machine) == <<Last(chain), machine>>

Below(chain, machine) == Append(chain, machine)

\* The last definition of the stack, once the references of the one before are
\* loaded; they come in no particular order.
Descend(r) ==
  /\ At(r, "walk")
  /\ call[r].loads = {}
  /\ call[r].stack # <<>>
  /\ LET frame == Last(call[r].stack)
     IN Continue(r, [call[r] EXCEPT !.stack = Front(@),
                       !.loads = {[chain |-> Below(frame.chain, ref.machine), shape |-> ref.shape] :
                                    ref \in frame.body.refs}])
  /\ UNCHANGED <<table, cache, populated>>

RefuseNesting(r) ==
  /\ At(r, "walk")
  /\ \E load \in call[r].loads : Refused(load)
  /\ Finish(r, "bad_request")
  /\ UNCHANGED <<table, cache, populated>>

EndWalk(r) ==
  /\ At(r, "walk")
  /\ call[r].loads = {} /\ call[r].stack = <<>>
  /\ GoOn(r, "write")
  /\ UNCHANGED <<table, cache, populated>>

-----------------------------------------------------------------------------
(* Statements.                                                             *)

\* INSERT, or UPDATE of whatever row is there: its row count is not looked at.
Write(r) ==
  /\ At(r, "write")
  /\ LET c == call[r]
     IN IF c.op = "create" /\ c.at \in DOMAIN table
        THEN Finish(r, "conflict") /\ UNCHANGED table
        ELSE /\ table' = IF c.op = "create" \/ c.at \in DOMAIN table
                         THEN Put(table, c.at, c.body) ELSE table
             /\ GoOn(r, "publish")
  /\ UNCHANGED <<cache, populated>>

\* Mutant of Publish: only a creation reaches the cache.
PublishIfNew(r) ==
  /\ At(r, "publish")
  /\ cache' = IF call[r].at \in DOMAIN cache[Home[r]] THEN cache
              ELSE [cache EXCEPT ![Home[r]] = Put(@, call[r].at, call[r].body)]
  /\ Finish(r, "ok")
  /\ UNCHANGED <<table, populated>>

Publish(r) ==
  /\ At(r, "publish")
  /\ cache' = [cache EXCEPT ![Home[r]] = Put(@, call[r].at, call[r].body)]
  /\ Finish(r, "ok")
  /\ UNCHANGED <<table, populated>>

\* Creation of an entity; nothing ties its row to the machine's.
InsertEntity(r) ==
  /\ At(r, "entity")
  /\ populated' = populated \union {call[r].at}
  /\ Finish(r, "ok")
  /\ UNCHANGED <<table, cache>>

\* delete_machine: COUNT, DELETE, cache.
Count(r) ==
  /\ At(r, "count")
  /\ IF call[r].at \in populated THEN Finish(r, "conflict") ELSE GoOn(r, "remove")
  /\ UNCHANGED <<table, cache, populated>>

DeleteRow(r) ==
  /\ At(r, "remove")
  /\ IF call[r].at \in DOMAIN table
     THEN table' = Drop(table, call[r].at) /\ GoOn(r, "evict")
     ELSE Finish(r, "not_found") /\ UNCHANGED table
  /\ UNCHANGED <<cache, populated>>

\* Mutant of Evict: the cache is left to expire.
EvictNothing(r) ==
  /\ At(r, "evict")
  /\ Finish(r, "ok")
  /\ UNCHANGED <<table, cache, populated>>

Evict(r) ==
  /\ At(r, "evict")
  /\ cache' = [cache EXCEPT ![Home[r]] = Drop(@, call[r].at)]
  /\ Finish(r, "ok")
  /\ UNCHANGED <<table, populated>>

\* "database is locked".
RefuseStatement(r) ==
  /\ call[r].pc \in {"write", "entity", "remove"}
  /\ Finish(r, "locked")
  /\ UNCHANGED <<table, cache, populated>>

-----------------------------------------------------------------------------
(* The rest of the world.                                                  *)

\* The last entity of a machine is deleted.
DeleteEntities(m) ==
  /\ m \in populated
  /\ populated' = populated \ {m}
  /\ UNCHANGED <<table, cache, call, answer, requests, restarts>>

Restart(p) ==
  /\ restarts < MaxRestarts
  /\ restarts' = restarts + 1
  /\ cache' = [cache EXCEPT ![p] = <<>>]
  /\ call' = [r \in Requests |-> IF Home[r] = p THEN Idle ELSE call[r]]
  /\ answer' = [r \in Requests |-> IF Home[r] = p THEN "none" ELSE answer[r]]
  /\ UNCHANGED <<table, populated, requests>>

Arrive(r) ==
  \E m \in Machines :
    \/ \E op \in {"create", "update"}, body \in Bodies : Submit(r, op, m, body)
    \/ \E op \in {"get", "enter", "delete"} : Submit(r, op, m, NoBody)

Step(r) ==
  \/ Hit(r) \/ Read(r) \/ Fill(r) \/ Miss(r)
  \/ Descend(r) \/ RefuseNesting(r) \/ EndWalk(r)
  \/ Write(r) \/ Publish(r) \/ InsertEntity(r)
  \/ Count(r) \/ DeleteRow(r) \/ Evict(r) \/ RefuseStatement(r)

Next ==
  \/ \E r \in Requests : Arrive(r) \/ Step(r)
  \/ \E m \in Machines : DeleteEntities(m)
  \/ \E p \in Processes : Restart(p)

Spec == Init /\ [][Next]_vars

\* The runtime keeps polling a request's task.
FairSpec == Spec /\ \A r \in Requests : WF_vars(Step(r))

-----------------------------------------------------------------------------
(* Properties.                                                             *)

Quiet == \A r \in Requests : At(r, "idle")

\* While requests come one at a time to one process, its cache is never out of
\* date between them: what it would serve is what the table holds, and validate()
\* accepts it, after every order of creations, replacements, deletions, refusals
\* and restarts.
CacheIsCoherent ==
  Quiet =>
    \A p \in Processes : \A m \in DOMAIN cache[p] :
      m \in DOMAIN table /\ cache[p][m] = table[m] /\ table[m].valid

\* Managed references between the definitions of `tab` never lead from a machine
\* back to it; a way round that is longer than there are machines has a shorter one
\* in it.
IsAcyclic(tab) ==
  \A n \in 2..Cardinality(Machines) + 1 : \A c \in [1..n -> DOMAIN tab] :
    (\A i \in 1..n - 1 : \E ref \in tab[c[i]].refs : ref.machine = c[i + 1]) => c[1] # c[n]

\* NESTED_CONTRACT.md, section 2: "Managed references must be acyclic".  Each
\* registration checks only what it reaches, passes over children nobody has
\* registered yet and trusts the cache; still, while they come one at a time, no
\* order of creations, replacements and deletions closes a cycle.
ReferencesAreAcyclic ==
  [][ table' # table /\ IsAcyclic(table) => IsAcyclic(table') ]_vars

\* While requests come one at a time, no entity is left without the definition
\* of its machine (create_entity trusts the cache, delete_machine the table).
EntitiesHaveTheirMachine == populated \subseteq DOMAIN table

\* A request is answered: the walk over the references ends, although the
\* definitions it meets may be those of a cycle that two registrations at one
\* time, neither of which saw the other, have left in the table.
RequestsEnd == \A r \in Requests : call[r].pc # "idle" ~> call[r].pc = "idle"
=============================================================================
