--------------------------- MODULE ActionDelivery ---------------------------
(***************************************************************************)
(* What happens to the actions of a write after its commit: the tenant's   *)
(* ingest token is looked up or provisioned, one task per action is        *)
(* spawned, and each task posts its action until a post succeeds or its    *)
(* attempts are used up.  Nothing of this is in the database but the       *)
(* token, so a process that stops takes all of it along, and so does a     *)
(* client that hangs up while its request still asks for the token.        *)
(*                                                                         *)
(* TransitionCore ends where this module starts: a commit hands over its   *)
(* batch once.  A timeout's batch is handed over by the scheduler, which   *)
(* has no token cache and never asks the platform.                         *)
(***************************************************************************)
EXTENDS Integers, FiniteSets

CONSTANTS
  Processes,    \* replicas of the service
  Requests,     \* request tasks whose writes are dispatched
  Schedulers,   \* timeout schedulers
  Home,         \* Home[w]: the process a worker runs in
  Actions,      \* the actions of a batch
  EventActions, \* those of them that are events, which carry the token
  Nobody,       \* the worker of a batch that does not exist yet
  Configured,   \* PLATFORM_API_KEY and PLATFORM_API_URL are set
  MaxRetries,   \* retries of a post
  MaxBatches,   \* bound on the number of batches
  MaxStops      \* bound on the number of process stops

Workers == Requests \union Schedulers

ASSUME DeliveryAssumption ==
  /\ Home \in [Workers -> Processes] /\ Nobody \notin Workers
  /\ EventActions \subseteq Actions
  /\ Configured \in BOOLEAN
  /\ MaxRetries \in Nat /\ MaxBatches \in Nat /\ MaxStops \in Nat

VARIABLES
  worker,    \* worker[w]: where it is, the batch it holds and the token it has
  cache,     \* cache[p]: ingest_token_cache of process p
  stored,    \* the tenant's row in ingest_tokens
  issued,    \* tokens the platform has issued, 1..issued
  asked,     \* asked[p]: tokens process p got from the platform since it started
  batch,     \* batch[n]: [by, status, token, answer], the platform's answer last
  task,      \* task[n][a]: [status, attempt]
  received,  \* received[n][a]: how often the receiver processed the post
  stops      \* process stops so far

vars == <<worker, cache, stored, issued, asked, batch, task, received, stops>>

NoToken == 0
Batches == 1..MaxBatches

Idle == [pc |-> "idle", batch |-> 0, token |-> NoToken]

NoBatch == [by |-> Nobody, status |-> "none", token |-> NoToken, answer |-> "none"]

Init ==
  /\ worker = [w \in Workers |-> Idle]
  /\ cache = [p \in Processes |-> NoToken]
  /\ stored = NoToken
  /\ issued = 0
  /\ asked = [p \in Processes |-> 0]
  /\ batch = [n \in Batches |-> NoBatch]
  /\ task = [n \in Batches |-> [a \in Actions |-> [status |-> "none", attempt |-> 0]]]
  /\ received = [n \in Batches |-> [a \in Actions |-> 0]]
  /\ stops = 0

At(w, pc) == worker[w].pc = pc

GoOn(w, pc, token) == worker' = [worker EXCEPT ![w].pc = pc, ![w].token = token]

-----------------------------------------------------------------------------
(* A write commits.                                                        *)

\* A request's write first needs the token, a timeout's looks it up.
Commit(w) ==
  /\ At(w, "idle")
  /\ \E n \in Batches :
       /\ batch[n].status = "none"
       /\ \A k \in 1..n - 1 : batch[k].status # "none"
       /\ batch' = [batch EXCEPT ![n].status = "held", ![n].by = w]
       /\ worker' = [worker EXCEPT ![w] =
                       [pc |-> IF w \in Requests THEN "cache" ELSE "lookup", batch |-> n, token |-> NoToken]]
  /\ UNCHANGED <<cache, stored, issued, asked, task, received, stops>>

-----------------------------------------------------------------------------
(* get_or_create.                                                          *)

FromCache(w) ==
  /\ At(w, "cache")
  /\ IF cache[Home[w]] # NoToken THEN GoOn(w, "spawn", cache[Home[w]]) ELSE GoOn(w, "query", NoToken)
  /\ UNCHANGED <<cache, stored, issued, asked, batch, task, received, stops>>

Asking == IF Configured THEN "ask" ELSE "spawn"

\* Mutant of Unread: a query that fails leaves the batch without a token.
UnreadGivesUp(w) == GoOn(w, "spawn", NoToken)

\* No row, or an error: neither is told from the other.
Unread(w) == GoOn(w, Asking, NoToken)

FromTable(w) ==
  /\ At(w, "query")
  /\ \/ stored # NoToken /\ GoOn(w, "publish", stored)
     \/ Unread(w)
  /\ UNCHANGED <<cache, stored, issued, asked, batch, task, received, stops>>

\* The platform issues a token.
Provision(w) ==
  /\ At(w, "ask")
  /\ issued' = issued + 1
  /\ asked' = [asked EXCEPT ![Home[w]] = @ + 1]
  /\ GoOn(w, "store", issued + 1)
  /\ UNCHANGED <<cache, stored, batch, task, received, stops>>

\* It refuses, or its answer is lost or unreadable: no token for this batch.
Unprovisioned(w) ==
  /\ At(w, "ask")
  /\ issued' \in {issued, issued + 1}
  /\ batch' = [batch EXCEPT ![worker[w].batch].answer = "refused"]
  /\ GoOn(w, "spawn", NoToken)
  /\ UNCHANGED <<cache, stored, asked, task, received, stops>>

\* INSERT OR REPLACE, whose error is ignored.
Store(w) ==
  /\ At(w, "store")
  /\ stored' \in {stored, worker[w].token}
  /\ GoOn(w, "publish", worker[w].token)
  /\ UNCHANGED <<cache, issued, asked, batch, task, received, stops>>

\* Mutant of Publish: the token is only kept in the table.
PublishNothing(w) ==
  /\ At(w, "publish")
  /\ GoOn(w, "spawn", worker[w].token)
  /\ UNCHANGED <<cache, stored, issued, asked, batch, task, received, stops>>

Publish(w) ==
  /\ At(w, "publish")
  /\ cache' = [cache EXCEPT ![Home[w]] = worker[w].token]
  /\ GoOn(w, "spawn", worker[w].token)
  /\ UNCHANGED <<stored, issued, asked, batch, task, received, stops>>

\* lookup_ingest_token of the scheduler: the table or nothing.
Lookup(w) ==
  /\ At(w, "lookup")
  /\ \E token \in {stored, NoToken} : GoOn(w, "spawn", token)
  /\ UNCHANGED <<cache, stored, issued, asked, batch, task, received, stops>>

-----------------------------------------------------------------------------
(* dispatch_actions and its tasks.                                         *)

\* Mutant of Spawn: a batch without a token waits for one.
SpawnWithToken(w) ==
  /\ At(w, "spawn") /\ worker[w].token # NoToken
  /\ LET n == worker[w].batch
     IN /\ batch' = [batch EXCEPT ![n].status = "spawned", ![n].token = worker[w].token]
        /\ task' = [task EXCEPT ![n] = [a \in Actions |-> [status |-> "running", attempt |-> 0]]]
  /\ worker' = [worker EXCEPT ![w] = Idle]
  /\ UNCHANGED <<cache, stored, issued, asked, received, stops>>

\* One task per action; the answer of the request does not wait for them.
Spawn(w) ==
  /\ At(w, "spawn")
  /\ LET n == worker[w].batch
     IN /\ batch' = [batch EXCEPT ![n].status = "spawned", ![n].token = worker[w].token]
        /\ task' = [task EXCEPT ![n] = [a \in Actions |-> [status |-> "running", attempt |-> 0]]]
  /\ worker' = [worker EXCEPT ![w] = Idle]
  /\ UNCHANGED <<cache, stored, issued, asked, received, stops>>

\* Mutant of NextAttempt: the bound is on the attempts after this one.
NextAttemptLate(t) ==
  IF t.attempt <= MaxRetries THEN [t EXCEPT !.attempt = @ + 1] ELSE [t EXCEPT !.status = "exhausted"]

\* After a failed post: sleep and try again, or give up.
NextAttempt(t) ==
  IF t.attempt < MaxRetries THEN [t EXCEPT !.attempt = @ + 1] ELSE [t EXCEPT !.status = "exhausted"]

\* A post that is answered with a success.
Deliver(n, a) ==
  /\ task[n][a].status = "running"
  /\ task' = [task EXCEPT ![n][a].status = "done"]
  /\ received' = [received EXCEPT ![n][a] = @ + 1]
  /\ UNCHANGED <<worker, cache, stored, issued, asked, batch, stops>>

\* A post that is not: the receiver refused it, never saw it, or processed it
\* and its answer was lost.
Fail(n, a) ==
  /\ task[n][a].status = "running"
  /\ task' = [task EXCEPT ![n][a] = NextAttempt(@)]
  /\ \E processed \in 0..1 : received' = [received EXCEPT ![n][a] = @ + processed]
  /\ UNCHANGED <<worker, cache, stored, issued, asked, batch, stops>>

-----------------------------------------------------------------------------
(* Losses.                                                                 *)

\* The client hangs up while its request awaits an answer on the way to the
\* token: the handler is dropped, the token perhaps issued or stored all the same.
HangUp(w) ==
  /\ w \in Requests
  /\ worker[w].pc \in {"query", "ask", "store"}
  /\ issued' \in {issued, IF At(w, "ask") THEN issued + 1 ELSE issued}
  /\ stored' \in {stored, IF At(w, "store") THEN worker[w].token ELSE stored}
  /\ batch' = [batch EXCEPT ![worker[w].batch].status = "lost"]
  /\ worker' = [worker EXCEPT ![w] = Idle]
  /\ UNCHANGED <<cache, asked, task, received, stops>>

\* The posts of process p that are under way or about to be sent again.
Running(p) ==
  {k \in Batches \X Actions : task[k[1]][k[2]].status = "running" /\ Home[batch[k[1]].by] = p}

\* A crash, or a shutdown: connections are drained, tasks are not.  A receiver
\* may still process what was on its way.
Stop(p) ==
  /\ stops < MaxStops
  /\ stops' = stops + 1
  /\ cache' = [cache EXCEPT ![p] = NoToken]
  /\ asked' = [asked EXCEPT ![p] = 0]
  /\ LET held == {w \in Workers : Home[w] = p}
     IN /\ worker' = [w \in Workers |-> IF w \in held THEN Idle ELSE worker[w]]
        /\ batch' = [n \in Batches |->
                       IF \E w \in held : worker[w].batch = n THEN [batch[n] EXCEPT !.status = "lost"]
                       ELSE batch[n]]
  /\ task' = [n \in Batches |-> [a \in Actions |->
                IF <<n, a>> \in Running(p) THEN [task[n][a] EXCEPT !.status = "lost"] ELSE task[n][a]]]
  /\ \E late \in SUBSET Running(p) :
       received' = [n \in Batches |-> [a \in Actions |->
                      IF <<n, a>> \in late THEN received[n][a] + 1 ELSE received[n][a]]]
  /\ UNCHANGED <<stored, issued>>

-----------------------------------------------------------------------------
Step(w) ==
  \/ FromCache(w) \/ FromTable(w) \/ Provision(w) \/ Unprovisioned(w)
  \/ Store(w) \/ Publish(w) \/ Lookup(w) \/ Spawn(w)

Post(n, a) == Deliver(n, a) \/ Fail(n, a)

Next ==
  \/ \E w \in Workers : Commit(w) \/ Step(w) \/ HangUp(w)
  \/ \E n \in Batches, a \in Actions : Post(n, a)
  \/ \E p \in Processes : Stop(p)

Spec == Init /\ [][Next]_vars

\* The runtime keeps polling the workers and the tasks, and every call of theirs
\* ends (the client of both has a timeout of ten seconds).
FairSpec ==
  Spec /\ (\A w \in Workers : WF_vars(Step(w)))
       /\ (\A n \in Batches, a \in Actions : WF_vars(Post(n, a)))

-----------------------------------------------------------------------------
(* Properties.                                                             *)

\* Every variable keeps its type, and tokens that were stored, cached or sent
\* were issued.
TypeOK ==
  /\ \A w \in Workers :
       /\ worker[w].pc \in {"idle", "cache", "query", "ask", "store", "publish", "lookup", "spawn"}
       /\ worker[w].batch \in {0} \union Batches
       /\ worker[w].token \in 0..issued
  /\ \A p \in Processes : cache[p] \in 0..issued /\ asked[p] \in 0..issued
  /\ stored \in 0..issued
  /\ \A n \in Batches :
       /\ batch[n].by \in Workers \union {Nobody}
       /\ batch[n].status \in {"none", "held", "spawned", "lost"}
       /\ batch[n].token \in 0..issued /\ batch[n].answer \in {"none", "refused"}
       /\ \A a \in Actions :
            /\ task[n][a].status \in {"none", "running", "done", "exhausted", "lost"}
            /\ task[n][a].attempt \in 0..MaxRetries
  /\ stops \in 0..MaxStops

\* README.md, Actions: "Each makes up to 4 attempts".  Through retries after
\* posts that did arrive, a receiver may process an action again, but no more
\* often than there are attempts; and a task that reports success was received.
ReceivedWithinAttempts ==
  \A n \in Batches, a \in Actions :
    /\ received[n][a] <= MaxRetries + 1
    /\ task[n][a].status = "done" => received[n][a] > 0

\* Concurrent requests may each provision a token, and so does one that is given
\* up before it keeps what it got; but a process that has a token stops asking,
\* whether or not the table could be written or read: it has asked no more often
\* than there are requests that ever dispatched, or gave up.
ProvisioningIsBounded ==
  \A p \in Processes :
    asked[p] <= Cardinality({w \in Requests : Home[w] = p /\ \E n \in Batches : batch[n].by = w})
                  + Cardinality({n \in Batches : batch[n].status = "lost"})

\* README.md, Actions: "A `dispatch: true` write also asks the platform for an
\* ingest token when `PLATFORM_API_KEY` is set and none is cached".  A request's
\* batch that leaves without a token had the platform asked in vain, although
\* another request may have cached or stored one since.  (A timeout's write is
\* one too, by the same page, but its batch leaves with what the table holds.)
TokenOrRefusal ==
  Configured =>
    \A n \in Batches :
      /\ batch[n].status = "spawned" /\ batch[n].by \notin Schedulers
      /\ EventActions # {} /\ batch[n].token = NoToken
      => batch[n].answer = "refused"

\* Every batch is posted, action by action, until it is received or the attempts
\* are used up, with or without a token, unless its process or its client leaves.
EveryActionIsTried ==
  \A n \in Batches, a \in Actions :
    batch[n].status = "held"
      ~> batch[n].status = "lost" \/ task[n][a].status \in {"done", "exhausted", "lost"}
=============================================================================
