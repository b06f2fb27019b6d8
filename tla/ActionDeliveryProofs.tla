------------------------ MODULE ActionDeliveryProofs ------------------------
(***************************************************************************)
(* Theorems about ActionDelivery, for any number of processes, workers,    *)
(* actions and retries.                                                    *)
(*                                                                         *)
(* A batch is in the hands of the one worker that committed it until that  *)
(* worker spawns its tasks, so no task is started twice; a task's posts    *)
(* are then counted by its attempts.                                       *)
(* A process's questions to the platform are counted by the requests that  *)
(* still hold, or have lost, what they were given.                         *)
(***************************************************************************)
EXTENDS ActionDelivery, FiniteSetTheorems, TLAPS

PCs == {"idle", "cache", "query", "ask", "store", "publish", "lookup", "spawn"}
BatchStatus == {"none", "held", "spawned", "lost"}
TaskStatus == {"none", "running", "done", "exhausted", "lost"}

WorkerType == [pc : PCs, batch : {0} \union Batches, token : Nat]
BatchType == [by : Workers \union {Nobody}, status : BatchStatus, token : Nat,
              answer : {"none", "refused"}]
TaskType == [status : TaskStatus, attempt : 0..MaxRetries]

\* The types of the variables, as sets of functions and records.
TypeInv ==
  /\ issued \in Nat /\ stops \in 0..MaxStops /\ stored \in Nat
  /\ cache \in [Processes -> Nat]
  /\ asked \in [Processes -> Nat]
  /\ worker \in [Workers -> WorkerType]
  /\ batch \in [Batches -> BatchType]
  /\ task \in [Batches -> [Actions -> TaskType]]
  /\ received \in [Batches -> [Actions -> Nat]]

\* A worker with a batch is the one that committed it; nobody else has it.
Holding ==
  \A w \in Workers :
    /\ worker[w].pc = "idle" <=> worker[w].batch = 0
    /\ worker[w].pc # "idle" => batch[worker[w].batch].status = "held" /\ batch[worker[w].batch].by = w

\* No task of a batch runs before the batch is spawned.
Unstarted ==
  \A n \in Batches : batch[n].status \in {"none", "held"} =>
    \A a \in Actions : task[n][a].status = "none"

\* A task's posts that were processed, by its attempts.
Counted ==
  \A n \in Batches, a \in Actions :
    /\ task[n][a].status = "none" => received[n][a] = 0
    /\ task[n][a].status = "running" => received[n][a] <= task[n][a].attempt
    /\ received[n][a] <= task[n][a].attempt + 1
    /\ task[n][a].status = "done" => received[n][a] > 0

\* Tokens that are held, cached, stored or sent were issued.
TokensIssued ==
  /\ stored <= issued
  /\ \A p \in Processes : cache[p] <= issued /\ asked[p] <= issued
  /\ \A w \in Workers : worker[w].token <= issued
  /\ \A n \in Batches : batch[n].token <= issued

-----------------------------------------------------------------------------
(* Types.                                                                  *)

\* A failed post is counted, or ends its task.
LEMMA NextAttemptType ==
  ASSUME NEW t \in TaskType PROVE NextAttempt(t) \in TaskType
<1>1. t.attempt \in 0..MaxRetries /\ t.status \in TaskStatus
  BY DEF TaskType
<1>2. CASE t.attempt < MaxRetries
  <2>1. t.attempt + 1 \in 0..MaxRetries
    BY <1>1, <1>2, DeliveryAssumption
  <2>2. NextAttempt(t) = [t EXCEPT !.attempt = t.attempt + 1]
    BY <1>2 DEF NextAttempt
  <2> QED
    BY <2>1, <2>2 DEF TaskType
<1>3. CASE ~ (t.attempt < MaxRetries)
  BY <1>3 DEF NextAttempt, TaskType, TaskStatus
<1> QED
  BY <1>2, <1>3

\* A worker that goes on keeps its type.
LEMMA GoOnType ==
  ASSUME TypeInv, NEW w \in Workers, NEW pc \in PCs, NEW token \in Nat, GoOn(w, pc, token)
  PROVE  worker' \in [Workers -> WorkerType]
  BY DEF TypeInv, GoOn, WorkerType

\* Initially every variable has its type.
LEMMA TypeInit == Init => TypeInv
<1> SUFFICES ASSUME Init PROVE TypeInv
  OBVIOUS
<1>1. Idle \in WorkerType /\ NoBatch \in BatchType /\ [status |-> "none", attempt |-> 0] \in TaskType
  BY DeliveryAssumption
  DEF Idle, NoBatch, NoToken, WorkerType, BatchType, TaskType, PCs, BatchStatus, TaskStatus
<1> QED
  BY <1>1, DeliveryAssumption DEF Init, TypeInv, NoToken

\* Every step keeps the types.
LEMMA TypeStep == ASSUME TypeInv, [Next]_vars PROVE TypeInv'
<1>1. ASSUME NEW w \in Workers, Commit(w) PROVE TypeInv'
  <2>1. worker' \in [Workers -> WorkerType]
    BY <1>1 DEF Commit, At, TypeInv, WorkerType, PCs, NoToken
  <2>2. PICK n \in Batches : batch' = [batch EXCEPT ![n].status = "held", ![n].by = w]
    BY <1>1 DEF Commit
  <2>3. batch[n] \in BatchType
    BY DEF TypeInv
  <2>4. [batch[n] EXCEPT !.status = "held", !.by = w] \in BatchType
    BY <2>3 DEF BatchType, BatchStatus
  <2>5. batch' \in [Batches -> BatchType]
    BY <2>2, <2>4 DEF TypeInv
  <2> QED
    BY <1>1, <2>1, <2>5, DeliveryAssumption DEF Commit, TypeInv, Workers
<1>2. ASSUME NEW w \in Workers, FromCache(w) PROVE TypeInv'
  <2>1. worker' \in [Workers -> WorkerType]
    BY <1>2, GoOnType, DeliveryAssumption DEF FromCache, TypeInv, PCs, NoToken, Workers
  <2> QED
    BY <1>2, <2>1, DeliveryAssumption DEF FromCache, TypeInv, Workers
<1>3. ASSUME NEW w \in Workers, FromTable(w) PROVE TypeInv'
  <2>1. worker' \in [Workers -> WorkerType]
    BY <1>3, GoOnType DEF FromTable, Unread, Asking, TypeInv, PCs, NoToken
  <2> QED
    BY <1>3, <2>1, DeliveryAssumption DEF FromTable, TypeInv, Workers
<1>4. ASSUME NEW w \in Workers, Provision(w) PROVE TypeInv'
  <2>1. worker' \in [Workers -> WorkerType]
    BY <1>4, GoOnType DEF Provision, TypeInv, PCs
  <2> QED
    BY <1>4, <2>1, DeliveryAssumption DEF Provision, TypeInv, Workers
<1>5. ASSUME NEW w \in Workers, Unprovisioned(w) PROVE TypeInv'
  <2>1. worker' \in [Workers -> WorkerType]
    BY <1>5, GoOnType DEF Unprovisioned, PCs, NoToken
  <2>2. batch' \in [Batches -> BatchType]
    BY <1>5 DEF Unprovisioned, TypeInv, BatchType, BatchStatus
  <2> QED
    BY <1>5, <2>1, <2>2, DeliveryAssumption DEF Unprovisioned, TypeInv, Workers
<1>6. ASSUME NEW w \in Workers, Store(w) PROVE TypeInv'
  <2>1. worker[w].token \in Nat
    BY DEF TypeInv, WorkerType
  <2>2. worker' \in [Workers -> WorkerType]
    BY <1>6, <2>1, GoOnType DEF Store, PCs
  <2> QED
    BY <1>6, <2>1, <2>2, DeliveryAssumption DEF Store, TypeInv, Workers
<1>7. ASSUME NEW w \in Workers, Publish(w) PROVE TypeInv'
  <2>1. worker[w].token \in Nat
    BY DEF TypeInv, WorkerType
  <2>2. worker' \in [Workers -> WorkerType]
    BY <1>7, <2>1, GoOnType DEF Publish, PCs
  <2> QED
    BY <1>7, <2>1, <2>2, DeliveryAssumption DEF Publish, TypeInv, Workers
<1>8. ASSUME NEW w \in Workers, Lookup(w) PROVE TypeInv'
  <2>1. worker' \in [Workers -> WorkerType]
    BY <1>8, GoOnType DEF Lookup, TypeInv, PCs, NoToken
  <2> QED
    BY <1>8, <2>1, DeliveryAssumption DEF Lookup, TypeInv, Workers
<1>9. ASSUME NEW w \in Workers, Spawn(w) PROVE TypeInv'
  <2>1. worker' \in [Workers -> WorkerType]
    BY <1>9 DEF Spawn, TypeInv, WorkerType, Idle, NoToken, PCs
  <2>2. batch' \in [Batches -> BatchType]
    BY <1>9 DEF Spawn, TypeInv, WorkerType, BatchType, BatchStatus
  <2>3. [a \in Actions |-> [status |-> "running", attempt |-> 0]] \in [Actions -> TaskType]
    BY DeliveryAssumption DEF TaskType, TaskStatus
  <2>4. task' \in [Batches -> [Actions -> TaskType]]
    BY <1>9, <2>3 DEF Spawn, TypeInv
  <2> QED
    BY <1>9, <2>1, <2>2, <2>3, <2>4, DeliveryAssumption DEF Spawn, TypeInv, Workers
<1>10. ASSUME NEW w \in Workers, HangUp(w) PROVE TypeInv'
  <2>1. worker[w].token \in Nat
    BY DEF TypeInv, WorkerType
  <2>2. worker' \in [Workers -> WorkerType]
    BY <1>10 DEF HangUp, TypeInv, WorkerType, Idle, NoToken, PCs
  <2>3. batch' \in [Batches -> BatchType]
    BY <1>10 DEF HangUp, TypeInv, BatchType, BatchStatus
  <2> QED
    BY <1>10, <2>1, <2>2, <2>3, DeliveryAssumption DEF HangUp, TypeInv, Workers, At
<1>11. ASSUME NEW n \in Batches, NEW a \in Actions, Deliver(n, a) PROVE TypeInv'
  <2>1. task[n] \in [Actions -> TaskType] /\ task[n][a] \in TaskType
    BY DEF TypeInv
  <2>2. [task[n][a] EXCEPT !.status = "done"] \in TaskType
    BY <2>1 DEF TaskType, TaskStatus
  <2>3. task' = [task EXCEPT ![n] = [task[n] EXCEPT ![a] = [task[n][a] EXCEPT !.status = "done"]]]
    BY <1>11, <2>1 DEF Deliver, TypeInv
  <2>4. task' \in [Batches -> [Actions -> TaskType]]
    BY <2>1, <2>2, <2>3 DEF TypeInv
  <2> QED
    BY <1>11, <2>4 DEF Deliver, TypeInv
<1>12. ASSUME NEW n \in Batches, NEW a \in Actions, Fail(n, a) PROVE TypeInv'
  <2>0. task[n][a] \in TaskType
    BY DEF TypeInv
  <2>1. NextAttempt(task[n][a]) \in TaskType
    BY <2>0, NextAttemptType
  <2>2. task' \in [Batches -> [Actions -> TaskType]]
    BY <1>12, <2>1 DEF Fail, TypeInv
  <2> QED
    BY <1>12, <2>2 DEF Fail, TypeInv
<1>13. ASSUME NEW p \in Processes, Stop(p) PROVE TypeInv'
  <2>1. worker' \in [Workers -> WorkerType]
    BY <1>13 DEF Stop, TypeInv, WorkerType, Idle, NoToken, PCs
  <2>2. batch' \in [Batches -> BatchType]
    <3>1. ASSUME NEW n \in Batches
          PROVE  batch[n] \in BatchType /\ [batch[n] EXCEPT !.status = "lost"] \in BatchType
      <4>1. batch[n] \in BatchType
        BY DEF TypeInv
      <4> QED
        BY <4>1 DEF BatchType, BatchStatus
    <3>2. batch' = [n \in Batches |->
                      IF \E w \in {v \in Workers : Home[v] = p} : worker[w].batch = n
                      THEN [batch[n] EXCEPT !.status = "lost"] ELSE batch[n]]
      BY <1>13 DEF Stop
    <3> QED
      BY <3>1, <3>2
  <2>3. ASSUME NEW n \in Batches, NEW a \in Actions
        PROVE  task[n][a] \in TaskType /\ [task[n][a] EXCEPT !.status = "lost"] \in TaskType
    <3>1. task[n][a] \in TaskType
      BY DEF TypeInv
    <3> QED
      BY <3>1 DEF TaskType, TaskStatus
  <2>4. task' \in [Batches -> [Actions -> TaskType]]
    <3>1. task' = [n \in Batches |-> [a \in Actions |->
                     IF <<n, a>> \in Running(p) THEN [task[n][a] EXCEPT !.status = "lost"] ELSE task[n][a]]]
      BY <1>13 DEF Stop
    <3>2. \A n \in Batches, a \in Actions :
            (IF <<n, a>> \in Running(p) THEN [task[n][a] EXCEPT !.status = "lost"] ELSE task[n][a]) \in TaskType
      BY <2>3
    <3> QED
      BY <3>1, <3>2
  <2>5. stops' \in 0..MaxStops
    BY <1>13, DeliveryAssumption DEF Stop, TypeInv
  <2>6. received' \in [Batches -> [Actions -> Nat]]
    <3>1. PICK late \in SUBSET Running(p) :
            received' = [n \in Batches |-> [a \in Actions |->
                           IF <<n, a>> \in late THEN received[n][a] + 1 ELSE received[n][a]]]
      BY <1>13 DEF Stop
    <3>2. \A n \in Batches, a \in Actions : received[n][a] \in Nat
      BY DEF TypeInv
    <3>3. \A n \in Batches, a \in Actions :
            (IF <<n, a>> \in late THEN received[n][a] + 1 ELSE received[n][a]) \in Nat
      BY <3>2
    <3> QED
      BY <3>1, <3>3
  <2> QED
    BY <1>13, <2>1, <2>2, <2>4, <2>5, <2>6 DEF Stop, TypeInv, NoToken
<1>14. CASE UNCHANGED vars
  BY <1>14 DEF vars, TypeInv
<1> QED
  BY <1>1, <1>2, <1>3, <1>4, <1>5, <1>6, <1>7, <1>8, <1>9, <1>10, <1>11, <1>12, <1>13, <1>14
  DEF Next, Step, Post

\* Nobody invents a token.
LEMMA TokensStep == ASSUME TypeInv, TokensIssued, [Next]_vars PROVE TokensIssued'
<1>1. ASSUME NEW w \in Workers, Commit(w) PROVE TokensIssued'
  BY <1>1 DEF Commit, TokensIssued, TypeInv, WorkerType, BatchType, NoToken
<1>2. ASSUME NEW w \in Workers, FromCache(w) PROVE TokensIssued'
  BY <1>2, DeliveryAssumption DEF FromCache, TokensIssued, TypeInv, WorkerType, GoOn, NoToken, Workers
<1>3. ASSUME NEW w \in Workers, FromTable(w) PROVE TokensIssued'
  <2>1. \E pc \in PCs, token \in {stored, NoToken} : GoOn(w, pc, token)
    BY <1>3 DEF FromTable, Unread, Asking, PCs
  <2>2. ASSUME NEW v \in Workers PROVE worker'[v].token <= issued
    BY <2>1 DEF GoOn, TokensIssued, TypeInv, WorkerType, NoToken
  <2> QED
    BY <1>3, <2>2 DEF FromTable, TokensIssued
<1>4. ASSUME NEW w \in Workers, Provision(w) PROVE TokensIssued'
  BY <1>4, DeliveryAssumption DEF Provision, TokensIssued, TypeInv, WorkerType, BatchType, GoOn, Workers
<1>5. ASSUME NEW w \in Workers, Unprovisioned(w) PROVE TokensIssued'
  BY <1>5 DEF Unprovisioned, TokensIssued, TypeInv, WorkerType, BatchType, GoOn, NoToken
<1>6. ASSUME NEW w \in Workers, Store(w) PROVE TokensIssued'
  BY <1>6 DEF Store, TokensIssued, TypeInv, WorkerType, GoOn
<1>7. ASSUME NEW w \in Workers, Publish(w) PROVE TokensIssued'
  BY <1>7 DEF Publish, TokensIssued, TypeInv, WorkerType, GoOn
<1>8. ASSUME NEW w \in Workers, Lookup(w) PROVE TokensIssued'
  BY <1>8 DEF Lookup, TokensIssued, TypeInv, WorkerType, GoOn, NoToken
<1>9. ASSUME NEW w \in Workers, Spawn(w) PROVE TokensIssued'
  BY <1>9 DEF Spawn, TokensIssued, TypeInv, WorkerType, BatchType, Idle, NoToken
<1>10. ASSUME NEW w \in Workers, HangUp(w) PROVE TokensIssued'
  BY <1>10 DEF HangUp, TokensIssued, TypeInv, WorkerType, BatchType, Idle, NoToken, At
<1>11. ASSUME NEW n \in Batches, NEW a \in Actions, Deliver(n, a) PROVE TokensIssued'
  BY <1>11 DEF Deliver, TokensIssued
<1>12. ASSUME NEW n \in Batches, NEW a \in Actions, Fail(n, a) PROVE TokensIssued'
  BY <1>12 DEF Fail, TokensIssued
<1>13. ASSUME NEW p \in Processes, Stop(p) PROVE TokensIssued'
  BY <1>13 DEF Stop, TokensIssued, TypeInv, WorkerType, BatchType, Idle, NoToken
<1>14. CASE UNCHANGED vars
  BY <1>14 DEF vars, TokensIssued
<1> QED
  BY <1>1, <1>2, <1>3, <1>4, <1>5, <1>6, <1>7, <1>8, <1>9, <1>10, <1>11, <1>12, <1>13, <1>14
  DEF Next, Step, Post

\* A batch has one holder.
LEMMA HoldingStep == ASSUME TypeInv, Holding, [Next]_vars PROVE Holding'
<1>1. ASSUME NEW w \in Workers, Commit(w) PROVE Holding'
  <2>1. PICK n \in Batches :
          /\ batch[n].status = "none"
          /\ batch' = [batch EXCEPT ![n].status = "held", ![n].by = w]
          /\ worker' = [worker EXCEPT ![w] =
                          [pc |-> IF w \in Requests THEN "cache" ELSE "lookup", batch |-> n, token |-> NoToken]]
    BY <1>1 DEF Commit
  <2>2. n # 0 /\ batch'[n].status = "held" /\ batch'[n].by = w
    BY <2>1 DEF TypeInv, BatchType, Batches
  <2>3. \A k \in Batches \ {n} : batch'[k] = batch[k]
    BY <2>1 DEF TypeInv
  <2>4. worker'[w].pc # "idle" /\ worker'[w].batch = n
    BY <2>1 DEF TypeInv
  <2>5. \A v \in Workers \ {w} : worker'[v] = worker[v]
    BY <2>1 DEF TypeInv
  <2>6. \A v \in Workers : worker[v].batch = 0 \/ worker[v].batch \in Batches
    BY DEF TypeInv, WorkerType
  <2>7. ASSUME NEW v \in Workers \ {w}, worker[v].pc # "idle" PROVE worker[v].batch \in Batches \ {n}
    BY <2>1, <2>6, <2>7 DEF Holding
  <2> QED
    BY <2>2, <2>3, <2>4, <2>5, <2>7 DEF Holding
<1>2. ASSUME NEW w \in Workers, worker[w].pc # "idle", NEW pc \in PCs \ {"idle"}, NEW token, GoOn(w, pc, token),
             \A n \in Batches : batch'[n].status = batch[n].status /\ batch'[n].by = batch[n].by
      PROVE  Holding'
  <2>1. ASSUME NEW v \in Workers
        PROVE  worker'[v].batch = worker[v].batch /\ (worker'[v].pc = "idle" <=> worker[v].pc = "idle")
    BY <1>2 DEF GoOn, TypeInv, WorkerType
  <2>2. ASSUME NEW v \in Workers, worker[v].pc # "idle" PROVE worker[v].batch \in Batches
    BY <2>2 DEF Holding, TypeInv, WorkerType
  <2> QED
    BY <1>2, <2>1, <2>2 DEF Holding
<1>3. ASSUME NEW w \in Workers, FromCache(w) \/ FromTable(w) \/ Provision(w) \/ Store(w) \/ Publish(w) \/ Lookup(w)
      PROVE  Holding'
  <2>1. \E pc \in PCs \ {"idle"} : \E token : GoOn(w, pc, token)
    BY <1>3 DEF FromCache, FromTable, Unread, Asking, Provision, Store, Publish, Lookup, PCs
  <2>2. worker[w].pc # "idle" /\ batch' = batch
    BY <1>3 DEF FromCache, FromTable, Provision, Store, Publish, Lookup, At
  <2> QED
    BY <1>2, <2>1, <2>2
<1>4. ASSUME NEW w \in Workers, Unprovisioned(w) PROVE Holding'
  <2>1. GoOn(w, "spawn", NoToken) /\ worker[w].pc # "idle" /\ "spawn" \in PCs \ {"idle"}
    BY <1>4 DEF Unprovisioned, At, PCs
  <2>2. \A n \in Batches : batch'[n].status = batch[n].status /\ batch'[n].by = batch[n].by
    BY <1>4 DEF Unprovisioned, TypeInv, BatchType
  <2> QED
    BY <1>2, <2>1, <2>2
<1>5. ASSUME NEW w \in Workers, Spawn(w) PROVE Holding'
  BY <1>5 DEF Spawn, Holding, TypeInv, WorkerType, BatchType, Idle
<1>6. ASSUME NEW w \in Workers, HangUp(w) PROVE Holding'
  BY <1>6 DEF HangUp, Holding, TypeInv, WorkerType, BatchType, Idle
<1>7. ASSUME NEW p \in Processes, Stop(p) PROVE Holding'
  BY <1>7 DEF Stop, Holding, TypeInv, WorkerType, BatchType, Idle
<1>8. CASE UNCHANGED <<worker, batch>>
  BY <1>8 DEF Holding
<1> QED
  BY <1>1, <1>3, <1>4, <1>5, <1>6, <1>7, <1>8 DEF Next, Step, Post, Deliver, Fail, vars

\* Tasks start with Spawn alone.
LEMMA UnstartedStep == ASSUME TypeInv, Holding, Unstarted, [Next]_vars PROVE Unstarted'
<1>1. CASE UNCHANGED <<batch, task>>
  BY <1>1 DEF Unstarted
<1>2. ASSUME NEW w \in Workers, Commit(w) PROVE Unstarted'
  BY <1>2 DEF Commit, Unstarted, TypeInv, BatchType
<1>3. ASSUME NEW w \in Workers, Unprovisioned(w) PROVE Unstarted'
  BY <1>3 DEF Unprovisioned, Unstarted, TypeInv, BatchType
<1>4. ASSUME NEW w \in Workers, Spawn(w) PROVE Unstarted'
  BY <1>4 DEF Spawn, Unstarted, TypeInv, BatchType
<1>5. ASSUME NEW w \in Workers, HangUp(w) PROVE Unstarted'
  BY <1>5 DEF HangUp, Unstarted, TypeInv, BatchType
<1>6. ASSUME NEW n \in Batches, NEW a \in Actions, Deliver(n, a) PROVE Unstarted'
  BY <1>6 DEF Deliver, Unstarted, TypeInv
<1>7. ASSUME NEW n \in Batches, NEW a \in Actions, Fail(n, a) PROVE Unstarted'
  BY <1>7 DEF Fail, Unstarted, TypeInv
<1>8. ASSUME NEW p \in Processes, Stop(p) PROVE Unstarted'
  <2> SUFFICES ASSUME NEW n \in Batches, batch'[n].status \in {"none", "held"}, NEW a \in Actions
               PROVE  task'[n][a].status = "none"
    BY DEF Unstarted
  <2>1. batch[n].status \in {"none", "held"}
    BY <1>8 DEF Stop, TypeInv, BatchType
  <2>2. task[n][a].status = "none"
    BY <2>1 DEF Unstarted
  <2>3. <<n, a>> \notin Running(p)
    BY <2>2 DEF Running
  <2> QED
    BY <1>8, <2>2, <2>3 DEF Stop
<1> QED
  BY <1>1, <1>2, <1>3, <1>4, <1>5, <1>6, <1>7, <1>8
  DEF Next, Step, Post, FromCache, FromTable, Provision, Store, Publish, Lookup, vars

\* Every processed post is one of the attempts.
LEMMA CountedStep == ASSUME TypeInv, Holding, Unstarted, Counted, [Next]_vars PROVE Counted'
<1>1. CASE UNCHANGED <<task, received>>
  BY <1>1 DEF Counted
<1>2. ASSUME NEW w \in Workers, Spawn(w) PROVE Counted'
  <2> DEFINE b == worker[w].batch
  <2>1. b \in Batches /\ batch[b].status = "held"
    BY <1>2 DEF Spawn, At, Holding, TypeInv, WorkerType
  <2>2. \A a \in Actions : received[b][a] = 0
    BY <2>1 DEF Unstarted, Counted
  <2>3. \A a \in Actions : task'[b][a] = [status |-> "running", attempt |-> 0]
    BY <1>2, <2>1 DEF Spawn, TypeInv
  <2>4. \A n \in Batches \ {b} : task'[n] = task[n]
    BY <1>2 DEF Spawn, TypeInv
  <2>5. received' = received
    BY <1>2 DEF Spawn
  <2>6. ASSUME NEW n \in Batches \ {b}, NEW a \in Actions PROVE task'[n][a] = task[n][a]
    BY <2>4
  <2> HIDE DEF b
  <2> QED
    BY <2>2, <2>3, <2>5, <2>6 DEF Counted
<1>3. ASSUME NEW n \in Batches, NEW a \in Actions, Deliver(n, a) PROVE Counted'
  BY <1>3, DeliveryAssumption DEF Deliver, Counted, TypeInv, TaskType
<1>4. ASSUME NEW n \in Batches, NEW a \in Actions, Fail(n, a) PROVE Counted'
  <2>1. PICK processed \in 0..1 : received' = [received EXCEPT ![n][a] = @ + processed]
    BY <1>4 DEF Fail
  <2>2. task[n][a] \in TaskType /\ received[n][a] \in Nat /\ received[n][a] <= task[n][a].attempt
    BY <1>4 DEF Fail, Counted, TypeInv
  <2>3. received'[n][a] = received[n][a] + processed /\ task'[n][a] = NextAttempt(task[n][a])
    BY <1>4, <2>1 DEF Fail, TypeInv
  <2>4. ASSUME NEW m \in Batches, NEW c \in Actions, <<m, c>> # <<n, a>>
        PROVE  received'[m][c] = received[m][c] /\ task'[m][c] = task[m][c]
    BY <1>4, <2>1, <2>4 DEF Fail, TypeInv
  <2>5. \/ task'[n][a].status = "running" /\ task'[n][a].attempt = task[n][a].attempt + 1
        \/ task'[n][a].status = "exhausted" /\ task'[n][a].attempt = task[n][a].attempt
    BY <1>4, <2>2, <2>3 DEF Fail, NextAttempt, TaskType
  <2>6. task[n][a].attempt \in Nat
    BY <2>2, DeliveryAssumption DEF TaskType
  <2>7. /\ task'[n][a].status = "none" => received'[n][a] = 0
        /\ task'[n][a].status = "running" => received'[n][a] <= task'[n][a].attempt
        /\ received'[n][a] <= task'[n][a].attempt + 1
        /\ task'[n][a].status = "done" => received'[n][a] > 0
    BY <2>2, <2>3, <2>5, <2>6
  <2> QED
    BY <2>4, <2>7 DEF Counted
<1>5. ASSUME NEW p \in Processes, Stop(p) PROVE Counted'
  <2>1. PICK late \in SUBSET Running(p) :
          received' = [n \in Batches |-> [a \in Actions |->
                         IF <<n, a>> \in late THEN received[n][a] + 1 ELSE received[n][a]]]
    BY <1>5 DEF Stop
  <2>2. ASSUME NEW n \in Batches, NEW a \in Actions
        PROVE  /\ task'[n][a].status = "none" => received'[n][a] = 0
               /\ task'[n][a].status = "running" => received'[n][a] <= task'[n][a].attempt
               /\ received'[n][a] <= task'[n][a].attempt + 1
               /\ task'[n][a].status = "done" => received'[n][a] > 0
    <3>1. task[n][a] \in TaskType /\ received[n][a] \in Nat /\ task[n][a].attempt \in Nat
      BY DeliveryAssumption DEF TypeInv, TaskType
    <3>2. task'[n][a] = IF <<n, a>> \in Running(p) THEN [task[n][a] EXCEPT !.status = "lost"] ELSE task[n][a]
      BY <1>5 DEF Stop
    <3>3. received'[n][a] = IF <<n, a>> \in late THEN received[n][a] + 1 ELSE received[n][a]
      BY <2>1
    <3>4. CASE <<n, a>> \in Running(p)
      <4>1. task[n][a].status = "running"
        BY <3>4 DEF Running
      <4>2. task'[n][a].status = "lost" /\ task'[n][a].attempt = task[n][a].attempt
        BY <3>1, <3>2, <3>4 DEF TaskType
      <4> QED
        BY <3>1, <3>3, <4>1, <4>2 DEF Counted
    <3>5. CASE <<n, a>> \notin Running(p)
      BY <2>1, <3>2, <3>3, <3>5 DEF Counted
    <3> QED
      BY <3>4, <3>5
  <2> QED
    BY <2>2 DEF Counted
<1> QED
  BY <1>1, <1>2, <1>3, <1>4, <1>5 DEF Next, Step, Post, Commit, FromCache, FromTable, Provision, Unprovisioned, Store, Publish, Lookup, HangUp, vars

-----------------------------------------------------------------------------
(* A request's batch goes without a token only after a refusal.            *)

\* What a worker on its way to the token has, and what a batch left with.
Tokened ==
  /\ \A w \in Workers :
       /\ worker[w].pc \in {"store", "publish"} => worker[w].token # NoToken
       /\ worker[w].pc = "lookup" => w \in Schedulers
       /\ worker[w].pc = "spawn" /\ worker[w].token = NoToken /\ Configured =>
            w \in Schedulers \/ batch[worker[w].batch].answer = "refused"
  /\ \A n \in Batches :
       batch[n].status = "spawned" /\ batch[n].token = NoToken /\ Configured =>
         batch[n].by \in Schedulers \/ batch[n].answer = "refused"

\* Every step on the way to the token keeps it.
LEMMA TokenedStep == ASSUME TypeInv, Holding, Tokened, [Next]_vars PROVE Tokened'
<1>1. ASSUME NEW w \in Workers, Commit(w) PROVE Tokened'
  <2>1. PICK n \in Batches : batch' = [batch EXCEPT ![n].status = "held", ![n].by = w]
    BY <1>1 DEF Commit
  <2>2. ASSUME NEW k \in Batches
        PROVE  /\ batch'[k].answer = batch[k].answer /\ batch'[k].token = batch[k].token
               /\ batch'[k].status = "spawned" => batch[k].status = "spawned" /\ batch'[k].by = batch[k].by
    BY <2>1 DEF TypeInv, BatchType
  <2>3. \A v \in Workers \ {w} : worker'[v] = worker[v]
    BY <1>1 DEF Commit, TypeInv
  <2>4. worker'[w].pc = "cache" \/ (worker'[w].pc = "lookup" /\ w \in Schedulers)
    <3>1. PICK k \in Batches :
            worker' = [worker EXCEPT ![w] =
                         [pc |-> IF w \in Requests THEN "cache" ELSE "lookup", batch |-> k, token |-> NoToken]]
      BY <1>1 DEF Commit
    <3>2. worker'[w].pc = IF w \in Requests THEN "cache" ELSE "lookup"
      BY <3>1 DEF TypeInv
    <3> QED
      BY <3>2 DEF Workers
  <2>5. \A v \in Workers : worker[v].pc = "spawn" => worker[v].batch \in Batches
    BY DEF Holding, TypeInv, WorkerType
  <2> QED
    BY <2>2, <2>3, <2>4, <2>5 DEF Tokened
<1>2. ASSUME NEW w \in Workers, FromCache(w) PROVE Tokened'
  BY <1>2 DEF FromCache, GoOn, Tokened, TypeInv, WorkerType
<1>3. ASSUME NEW w \in Workers, FromTable(w) PROVE Tokened'
  BY <1>3 DEF FromTable, Unread, Asking, GoOn, Tokened, TypeInv, WorkerType
<1>4. ASSUME NEW w \in Workers, Provision(w) PROVE Tokened'
  BY <1>4 DEF Provision, GoOn, Tokened, TypeInv, WorkerType, NoToken
<1>5. ASSUME NEW w \in Workers, Unprovisioned(w) PROVE Tokened'
  <2> DEFINE b == worker[w].batch
  <2>1. b \in Batches
    BY <1>5 DEF Unprovisioned, At, Holding, TypeInv, WorkerType
  <2>2. batch' = [batch EXCEPT ![b].answer = "refused"]
    BY <1>5 DEF Unprovisioned
  <2>3. batch'[b].answer = "refused"
    BY <2>1, <2>2 DEF TypeInv, BatchType
  <2>4. ASSUME NEW n \in Batches
        PROVE  /\ batch'[n].status = batch[n].status /\ batch'[n].token = batch[n].token
               /\ batch'[n].by = batch[n].by
               /\ batch[n].answer = "refused" => batch'[n].answer = "refused"
    BY <2>2 DEF TypeInv, BatchType
  <2>5. worker'[w].pc = "spawn" /\ worker'[w].batch = b
    BY <1>5 DEF Unprovisioned, GoOn, TypeInv, WorkerType
  <2>6. \A v \in Workers \ {w} : worker'[v] = worker[v]
    BY <1>5 DEF Unprovisioned, GoOn, TypeInv
  <2>7. \A v \in Workers : worker[v].pc = "spawn" => worker[v].batch \in Batches
    BY DEF Holding, TypeInv, WorkerType
  <2> HIDE DEF b
  <2> QED
    BY <2>3, <2>4, <2>5, <2>6, <2>7 DEF Tokened
<1>6. ASSUME NEW w \in Workers, Store(w) PROVE Tokened'
  BY <1>6 DEF Store, At, GoOn, Tokened, TypeInv, WorkerType
<1>7. ASSUME NEW w \in Workers, Publish(w) PROVE Tokened'
  BY <1>7 DEF Publish, At, GoOn, Tokened, TypeInv, WorkerType
<1>8. ASSUME NEW w \in Workers, Lookup(w) PROVE Tokened'
  BY <1>8 DEF Lookup, At, GoOn, Tokened, TypeInv, WorkerType
<1>9. ASSUME NEW w \in Workers, Spawn(w) PROVE Tokened'
  BY <1>9 DEF Spawn, At, Idle, Tokened, Holding, TypeInv, WorkerType, BatchType
<1>10. ASSUME NEW w \in Workers, HangUp(w) PROVE Tokened'
  BY <1>10 DEF HangUp, Idle, Tokened, TypeInv, WorkerType, BatchType
<1>11. ASSUME NEW p \in Processes, Stop(p) PROVE Tokened'
  <2>1. \A w \in Workers : worker'[w] = Idle \/ worker'[w] = worker[w]
    BY <1>11 DEF Stop
  <2>2. ASSUME NEW n \in Batches
        PROVE  /\ batch'[n].status \in {batch[n].status, "lost"} /\ batch'[n].token = batch[n].token
               /\ batch'[n].by = batch[n].by /\ batch'[n].answer = batch[n].answer
    BY <1>11 DEF Stop, TypeInv, BatchType
  <2>3. \A w \in Workers : worker[w].pc = "spawn" => worker[w].batch \in Batches
    BY DEF Holding, TypeInv, WorkerType
  <2>4. Idle.pc = "idle"
    BY DEF Idle
  <2> QED
    BY <2>1, <2>2, <2>3, <2>4 DEF Tokened
<1>12. CASE UNCHANGED <<worker, batch>>
  BY <1>12 DEF Tokened
<1> QED
  BY <1>1, <1>2, <1>3, <1>4, <1>5, <1>6, <1>7, <1>8, <1>9, <1>10, <1>11, <1>12
  DEF Next, Step, Post, Deliver, Fail, vars

-----------------------------------------------------------------------------
(* A process stops asking once it has a token.                             *)

\* The requests of process p that are at one of these places.
Placed(p, pcs) == {w \in Requests : Home[w] = p /\ worker[w].pc \in pcs}
Provisioned(p) == Placed(p, {"store", "publish"})
Asked(p) == Placed(p, {"query", "ask"})

\* The requests of process p that ever had a batch.
Dispatched(p) == {w \in Requests : Home[w] = p /\ \E n \in Batches : batch[n].by = w}

Lost == {n \in Batches : batch[n].status = "lost"}

\* Only requests are on the way to a token, and a batch has a worker from its commit on.
Tracked ==
  /\ \A w \in Workers : worker[w].pc \in {"cache", "query", "ask", "store", "publish"} => w \in Requests
  /\ \A n \in Batches : batch[n].status = "none" => batch[n].by = Nobody

\* Until process p has a token, every one it got is in the hands of a request or
\* was lost with one; afterwards only the requests that found no token before may
\* still ask, each once.
Bounded(p) ==
  /\ cache[p] = NoToken => asked[p] <= Cardinality(Provisioned(p)) + Cardinality(Lost)
  /\ cache[p] # NoToken =>
       asked[p] + Cardinality(Asked(p)) <= Cardinality(Dispatched(p)) + Cardinality(Lost)

\* Counting: a subset is no larger, and smaller by one if it lacks an element.
LEMMA Counting ==
  ASSUME NEW S, IsFiniteSet(S), NEW T \in SUBSET S
  PROVE  /\ IsFiniteSet(T) /\ Cardinality(T) \in Nat /\ Cardinality(S) \in Nat
         /\ Cardinality(T) <= Cardinality(S)
         /\ \A x \in S \ T : Cardinality(T) + 1 <= Cardinality(S)
<1>1. IsFiniteSet(T) /\ Cardinality(T) <= Cardinality(S)
  BY FS_Subset
<1>2. Cardinality(T) \in Nat /\ Cardinality(S) \in Nat
  BY <1>1, FS_CardinalityType
<1>3. ASSUME NEW x \in S \ T PROVE Cardinality(T) + 1 <= Cardinality(S)
  <2>1. Cardinality(T \union {x}) = Cardinality(T) + 1
    BY <1>1, FS_AddElement
  <2>2. T \union {x} \in SUBSET S
    OBVIOUS
  <2>3. Cardinality(T \union {x}) <= Cardinality(S)
    BY <2>2, FS_Subset
  <2> QED
    BY <2>1, <2>3
<1> QED
  BY <1>1, <1>2, <1>3

\* Two separate parts of a set are together no larger than it.
LEMMA CountingParts ==
  ASSUME NEW S, IsFiniteSet(S), NEW T \in SUBSET S, NEW U \in SUBSET S, T \cap U = {}
  PROVE  Cardinality(T) + Cardinality(U) <= Cardinality(S)
<1>1. IsFiniteSet(T) /\ IsFiniteSet(U)
  BY FS_Subset
<1>2. Cardinality(T \union U) = Cardinality(T) + Cardinality(U) - Cardinality(T \cap U)
  BY <1>1, FS_Union
<1>3. Cardinality(T \cap U) = 0
  BY FS_EmptySet
<1>4. T \union U \in SUBSET S
  OBVIOUS
<1>5. Cardinality(T \union U) <= Cardinality(S)
  BY <1>4, FS_Subset
<1>6. Cardinality(T) \in Nat /\ Cardinality(U) \in Nat
  BY <1>1, FS_CardinalityType
<1> QED
  BY <1>2, <1>3, <1>5, <1>6

\* The sets that are counted are finite.
LEMMA FiniteCounts ==
  ASSUME IsFiniteSet(Requests), NEW p
  PROVE  /\ IsFiniteSet(Provisioned(p)) /\ IsFiniteSet(Asked(p)) /\ IsFiniteSet(Dispatched(p)) /\ IsFiniteSet(Lost)
         /\ IsFiniteSet(Provisioned(p)') /\ IsFiniteSet(Asked(p)') /\ IsFiniteSet(Dispatched(p)') /\ IsFiniteSet(Lost')
<1>1. ASSUME NEW S \in SUBSET Requests PROVE IsFiniteSet(S)
  BY FS_Subset
<1>2. IsFiniteSet(Batches)
  BY FS_Interval, DeliveryAssumption DEF Batches
<1>3. ASSUME NEW S \in SUBSET Batches PROVE IsFiniteSet(S)
  BY <1>2, FS_Subset
<1>4. /\ Provisioned(p) \in SUBSET Requests /\ Asked(p) \in SUBSET Requests /\ Dispatched(p) \in SUBSET Requests
      /\ Provisioned(p)' \in SUBSET Requests /\ Asked(p)' \in SUBSET Requests /\ Dispatched(p)' \in SUBSET Requests
  BY DEF Provisioned, Asked, Placed, Dispatched
<1>5. Lost \in SUBSET Batches /\ Lost' \in SUBSET Batches
  BY DEF Lost
<1>6. IsFiniteSet(Provisioned(p)) /\ IsFiniteSet(Asked(p)) /\ IsFiniteSet(Dispatched(p))
  BY <1>1, <1>4
<1>7. IsFiniteSet(Provisioned(p)') /\ IsFiniteSet(Asked(p)') /\ IsFiniteSet(Dispatched(p)')
  BY <1>1, <1>4
<1> QED
  BY <1>3, <1>5, <1>6, <1>7

\* A worker's place and its batch stay tracked.
LEMMA TrackedStep == ASSUME TypeInv, Holding, Tracked, [Next]_vars PROVE Tracked'
<1>1. ASSUME NEW w \in Workers, Commit(w) PROVE Tracked'
  <2>1. PICK n \in Batches :
          /\ batch' = [batch EXCEPT ![n].status = "held", ![n].by = w]
          /\ worker' = [worker EXCEPT ![w] =
                          [pc |-> IF w \in Requests THEN "cache" ELSE "lookup", batch |-> n, token |-> NoToken]]
    BY <1>1 DEF Commit
  <2>2. \A v \in Workers : worker'[v].pc \in {"cache", "query", "ask", "store", "publish"} => v \in Requests
    BY <2>1 DEF TypeInv, Tracked
  <2>3. \A k \in Batches : batch'[k].status = "none" => batch'[k].by = Nobody
    BY <2>1 DEF TypeInv, BatchType, Tracked
  <2> QED
    BY <2>2, <2>3 DEF Tracked
<1>2. ASSUME NEW w \in Workers, NEW pc, NEW token, GoOn(w, pc, token),
             pc \notin {"cache", "query", "ask", "store", "publish"} \/ w \in Requests,
             \A n \in Batches : batch'[n].status = batch[n].status /\ batch'[n].by = batch[n].by
      PROVE  Tracked'
  <2>1. worker'[w].pc = pc /\ \A v \in Workers \ {w} : worker'[v] = worker[v]
    BY <1>2 DEF GoOn, TypeInv, WorkerType
  <2> QED
    BY <1>2, <2>1 DEF Tracked
<1>3. ASSUME NEW w \in Workers,
             FromCache(w) \/ FromTable(w) \/ Provision(w) \/ Unprovisioned(w) \/ Store(w) \/ Publish(w) \/ Lookup(w)
      PROVE  Tracked'
  <2>1. \A n \in Batches : batch'[n].status = batch[n].status /\ batch'[n].by = batch[n].by
    BY <1>3
    DEF FromCache, FromTable, Provision, Unprovisioned, Store, Publish, Lookup, TypeInv, BatchType
  <2>2. CASE Lookup(w)
    <3>1. \E token : GoOn(w, "spawn", token)
      BY <2>2 DEF Lookup
    <3> QED
      BY <1>2, <2>1, <3>1
  <2>3. CASE ~ Lookup(w)
    <3>1. w \in Requests
      BY <1>3, <2>3
      DEF FromCache, FromTable, Provision, Unprovisioned, Store, Publish, At, Tracked
    <3>2. \E pc, token : GoOn(w, pc, token)
      BY <1>3, <2>3 DEF FromCache, FromTable, Unread, Provision, Unprovisioned, Store, Publish
    <3> QED
      BY <1>2, <2>1, <3>1, <3>2
  <2> QED
    BY <2>2, <2>3
<1>4. ASSUME NEW w \in Workers, Spawn(w) \/ HangUp(w) PROVE Tracked'
  <2>1. Idle.pc = "idle"
    BY DEF Idle
  <2>2. \A v \in Workers : worker'[v] = worker[v] \/ worker'[v] = Idle
    BY <1>4 DEF Spawn, HangUp, TypeInv
  <2>3. \A n \in Batches : batch'[n].by = batch[n].by /\ (batch'[n].status = "none" => batch[n].status = "none")
    <3>1. CASE Spawn(w)
      BY <3>1 DEF Spawn, TypeInv, BatchType
    <3>2. CASE HangUp(w)
      BY <3>2 DEF HangUp, TypeInv, BatchType
    <3> QED
      BY <1>4, <3>1, <3>2
  <2> QED
    BY <2>1, <2>2, <2>3 DEF Tracked
<1>5. ASSUME NEW p \in Processes, Stop(p) PROVE Tracked'
  <2>1. Idle.pc = "idle"
    BY DEF Idle
  <2>2. \A v \in Workers : worker'[v] = worker[v] \/ worker'[v] = Idle
    BY <1>5 DEF Stop
  <2>3. \A n \in Batches : batch'[n].by = batch[n].by /\ (batch'[n].status = "none" => batch[n].status = "none")
    BY <1>5 DEF Stop, TypeInv, BatchType
  <2> QED
    BY <2>1, <2>2, <2>3 DEF Tracked
<1>6. CASE UNCHANGED <<worker, batch>>
  BY <1>6 DEF Tracked
<1> QED
  BY <1>1, <1>3, <1>4, <1>5, <1>6 DEF Next, Step, Post, Deliver, Fail, vars

\* A lost batch stays lost, and a worker that had a batch has had one.
LEMMA CountsGrow ==
  ASSUME TypeInv, Holding, Tracked, [Next]_vars, NEW p
  PROVE  Lost \subseteq Lost' /\ Dispatched(p) \subseteq Dispatched(p)'
<1>1. ASSUME NEW n \in Batches
      PROVE  /\ batch[n].status = "lost" => batch'[n].status = "lost"
             /\ batch[n].by \in Workers => batch'[n].by = batch[n].by
  <2>1. ASSUME NEW w \in Workers, Commit(w)
        PROVE  /\ batch[n].status = "lost" => batch'[n].status = "lost"
               /\ batch[n].by \in Workers => batch'[n].by = batch[n].by
    <3>1. PICK k \in Batches :
            batch[k].status = "none" /\ batch' = [batch EXCEPT ![k].status = "held", ![k].by = w]
      BY <2>1 DEF Commit
    <3>2. batch[k].by \notin Workers
      BY <3>1, DeliveryAssumption DEF Tracked
    <3> QED
      BY <3>1, <3>2 DEF TypeInv, BatchType
  <2>2. ASSUME NEW w \in Workers, Spawn(w) PROVE batch'[n].by = batch[n].by /\ (batch[n].status = "lost" => batch'[n].status = "lost")
    <3>1. batch[worker[w].batch].status = "held"
      BY <2>2 DEF Spawn, At, Holding
    <3> QED
      BY <2>2, <3>1 DEF Spawn, TypeInv, BatchType
  <2>3. ASSUME NEW w \in Workers, Unprovisioned(w) \/ HangUp(w)
        PROVE  batch'[n].by = batch[n].by /\ (batch[n].status = "lost" => batch'[n].status = "lost")
    <3>1. CASE Unprovisioned(w)
      BY <3>1 DEF Unprovisioned, TypeInv, BatchType
    <3>2. CASE HangUp(w)
      BY <3>2 DEF HangUp, TypeInv, BatchType
    <3> QED
      BY <2>3, <3>1, <3>2
  <2>4. ASSUME NEW q \in Processes, Stop(q)
        PROVE  batch'[n].by = batch[n].by /\ (batch[n].status = "lost" => batch'[n].status = "lost")
    BY <2>4 DEF Stop, TypeInv, BatchType
  <2>5. CASE UNCHANGED batch
    BY <2>5
  <2> QED
    BY <2>1, <2>2, <2>3, <2>4, <2>5
    DEF Next, Step, Post, FromCache, FromTable, Provision, Store, Publish, Lookup, Deliver, Fail, vars
<1>2. Lost \subseteq Lost'
  BY <1>1 DEF Lost
<1>3. Dispatched(p) \subseteq Dispatched(p)'
  <2> SUFFICES ASSUME NEW w \in Requests, Home[w] = p, NEW n \in Batches, batch[n].by = w
               PROVE  \E k \in Batches : batch'[k].by = w
    BY DEF Dispatched
  <2>1. batch'[n].by = w
    BY <1>1 DEF Workers
  <2> QED
    BY <2>1
<1> QED
  BY <1>2, <1>3

\* A step that asks for no token and gives none away keeps the bound.
LEMMA QuietStep ==
  ASSUME IsFiniteSet(Requests), TypeInv, NEW p \in Processes, Bounded(p),
         cache'[p] = cache[p], asked'[p] = asked[p],
         Lost \subseteq Lost', Dispatched(p) \subseteq Dispatched(p)',
         cache[p] = NoToken => Provisioned(p) \subseteq Provisioned(p)',
         cache[p] # NoToken => Asked(p)' \subseteq Asked(p)
  PROVE  Bounded(p)'
<1>1. Cardinality(Lost) <= Cardinality(Lost') /\ Cardinality(Lost) \in Nat /\ Cardinality(Lost') \in Nat
  BY FiniteCounts, Counting
<1>2. /\ Cardinality(Dispatched(p)) <= Cardinality(Dispatched(p)')
      /\ Cardinality(Dispatched(p)) \in Nat /\ Cardinality(Dispatched(p)') \in Nat
  BY FiniteCounts, Counting
<1>3. /\ Cardinality(Provisioned(p)) \in Nat /\ Cardinality(Provisioned(p)') \in Nat
      /\ Cardinality(Asked(p)) \in Nat /\ Cardinality(Asked(p)') \in Nat
  BY FiniteCounts, FS_CardinalityType
<1>4. asked[p] \in Nat
  BY DEF TypeInv
<1>5. CASE cache[p] = NoToken
  <2>1. Cardinality(Provisioned(p)) <= Cardinality(Provisioned(p)')
    BY <1>5, FiniteCounts, Counting
  <2>2. asked[p] <= Cardinality(Provisioned(p)) + Cardinality(Lost)
    BY <1>5 DEF Bounded
  <2>3. asked'[p] <= Cardinality(Provisioned(p)') + Cardinality(Lost')
    BY <1>1, <1>3, <1>4, <2>1, <2>2
  <2> QED
    BY <1>5, <2>3 DEF Bounded, NoToken
<1>6. CASE cache[p] # NoToken
  <2>1. Cardinality(Asked(p)') <= Cardinality(Asked(p))
    BY <1>6, FiniteCounts, Counting
  <2>2. asked[p] + Cardinality(Asked(p)) <= Cardinality(Dispatched(p)) + Cardinality(Lost)
    BY <1>6 DEF Bounded
  <2>3. asked'[p] + Cardinality(Asked(p)') <= Cardinality(Dispatched(p)') + Cardinality(Lost')
    BY <1>1, <1>2, <1>3, <1>4, <2>1, <2>2
  <2> QED
    BY <1>6, <2>3 DEF Bounded, NoToken
<1> QED
  BY <1>5, <1>6

\* A token from the platform goes to a request that was asking.
LEMMA ProvisionStep ==
  ASSUME IsFiniteSet(Requests), TypeInv, Holding, Tracked, NEW w \in Workers, Provision(w), Bounded(Home[w]),
         Lost \subseteq Lost', Dispatched(Home[w]) \subseteq Dispatched(Home[w])'
  PROVE  Bounded(Home[w])'
<1> DEFINE p == Home[w]
<1>1. p \in Processes /\ w \in Requests
  BY DeliveryAssumption DEF Provision, At, Tracked
<1>2. cache'[p] = cache[p] /\ asked'[p] = asked[p] + 1 /\ asked[p] \in Nat
  BY <1>1 DEF Provision, TypeInv
<1>3. worker[w].pc = "ask" /\ worker'[w].pc = "store" /\ \A v \in Workers \ {w} : worker'[v] = worker[v]
  BY DEF Provision, At, GoOn, TypeInv, WorkerType
<1>4. w \in Provisioned(p)' \ Provisioned(p) /\ Provisioned(p) \in SUBSET Provisioned(p)'
  BY <1>1, <1>3 DEF Provisioned, Placed, Workers
<1>5. w \in Asked(p) \ Asked(p)' /\ Asked(p)' \in SUBSET Asked(p)
  BY <1>1, <1>3 DEF Asked, Placed, Workers
<1>6. Cardinality(Lost) <= Cardinality(Lost') /\ Cardinality(Lost) \in Nat /\ Cardinality(Lost') \in Nat
  BY FiniteCounts, Counting
<1>7. /\ Cardinality(Dispatched(p)) <= Cardinality(Dispatched(p)')
      /\ Cardinality(Dispatched(p)) \in Nat /\ Cardinality(Dispatched(p)') \in Nat
  BY FiniteCounts, Counting
<1>8. /\ Cardinality(Provisioned(p)) + 1 <= Cardinality(Provisioned(p)')
      /\ Cardinality(Provisioned(p)) \in Nat /\ Cardinality(Provisioned(p)') \in Nat
  BY <1>4, FiniteCounts, Counting
<1>9. /\ Cardinality(Asked(p)') + 1 <= Cardinality(Asked(p))
      /\ Cardinality(Asked(p)) \in Nat /\ Cardinality(Asked(p)') \in Nat
  BY <1>5, FiniteCounts, Counting
<1>10. CASE cache[p] = NoToken
  <2>1. asked'[p] <= Cardinality(Provisioned(p)') + Cardinality(Lost')
    BY <1>2, <1>6, <1>8, <1>10 DEF Bounded
  <2> QED
    BY <1>2, <1>10, <2>1 DEF Bounded, NoToken
<1>11. CASE cache[p] # NoToken
  <2>1. asked'[p] + Cardinality(Asked(p)') <= Cardinality(Dispatched(p)') + Cardinality(Lost')
    BY <1>2, <1>6, <1>7, <1>9, <1>11 DEF Bounded
  <2> QED
    BY <1>2, <1>11, <2>1 DEF Bounded, NoToken
<1> QED
  BY <1>10, <1>11

\* The first token that is cached: those who have got one and those who still
\* may are different requests, and all of them have had a batch.
LEMMA PublishStep ==
  ASSUME IsFiniteSet(Requests), TypeInv, Holding, Tracked, Tokened, NEW w \in Workers, Publish(w), Bounded(Home[w])
  PROVE  Bounded(Home[w])'
<1> DEFINE p == Home[w]
<1>1. p \in Processes
  BY DeliveryAssumption
<1>2. cache'[p] # NoToken /\ asked'[p] = asked[p] /\ asked[p] \in Nat /\ batch' = batch
  BY <1>1 DEF Publish, At, Tokened, TypeInv
<1>3. worker[w].pc = "publish" /\ worker'[w].pc = "spawn" /\ \A v \in Workers \ {w} : worker'[v] = worker[v]
  BY DEF Publish, At, GoOn, TypeInv, WorkerType
<1>4. Asked(p)' = Asked(p)
  BY <1>3 DEF Asked, Placed, Workers
<1>5. Lost' = Lost /\ Dispatched(p)' = Dispatched(p)
  BY <1>2 DEF Lost, Dispatched
<1>6. Asked(p) \in SUBSET Dispatched(p) /\ Provisioned(p) \in SUBSET Dispatched(p)
  <2>1. ASSUME NEW v \in Workers, worker[v].pc # "idle" PROVE worker[v].batch \in Batches /\ batch[worker[v].batch].by = v
    BY <2>1 DEF Holding, TypeInv, WorkerType
  <2>2. ASSUME NEW v \in Requests, worker[v].pc # "idle", Home[v] = p PROVE v \in Dispatched(p)
    BY <2>1, <2>2 DEF Dispatched, Workers
  <2> QED
    BY <2>2 DEF Asked, Provisioned, Placed
<1>7. Asked(p) \cap Provisioned(p) = {}
  BY DEF Asked, Provisioned, Placed
<1>8. Cardinality(Asked(p)) + Cardinality(Provisioned(p)) <= Cardinality(Dispatched(p))
  BY <1>6, <1>7, FiniteCounts, CountingParts
<1>9. /\ Cardinality(Asked(p)) \in Nat /\ Cardinality(Provisioned(p)) \in Nat
      /\ Cardinality(Dispatched(p)) \in Nat /\ Cardinality(Lost) \in Nat
  BY FiniteCounts, FS_CardinalityType
<1>10. asked[p] + Cardinality(Asked(p)) <= Cardinality(Dispatched(p)) + Cardinality(Lost)
  BY <1>2, <1>8, <1>9 DEF Bounded
<1>11. asked'[p] + Cardinality(Asked(p)') <= Cardinality(Dispatched(p)') + Cardinality(Lost')
  BY <1>2, <1>4, <1>5, <1>10
<1> QED
  BY <1>2, <1>11 DEF Bounded, NoToken

\* A request that is given up takes its token and its batch along.
LEMMA HangUpStep ==
  ASSUME IsFiniteSet(Requests), TypeInv, Holding, Tracked, NEW w \in Workers, HangUp(w), NEW p \in Processes, Bounded(p),
         Lost \subseteq Lost', Dispatched(p) \subseteq Dispatched(p)'
  PROVE  Bounded(p)'
<1> DEFINE b == worker[w].batch
<1>1. b \in Batches /\ batch[b].status = "held"
  BY DEF HangUp, Holding, TypeInv, WorkerType
<1>2. batch'[b].status = "lost"
  BY <1>1 DEF HangUp, TypeInv, BatchType
<1>3. b \in Lost' \ Lost
  BY <1>1, <1>2 DEF Lost
<1>4. Cardinality(Lost) + 1 <= Cardinality(Lost') /\ Cardinality(Lost) \in Nat /\ Cardinality(Lost') \in Nat
  BY <1>3, FiniteCounts, Counting
<1>5. cache'[p] = cache[p] /\ asked'[p] = asked[p] /\ asked[p] \in Nat
  BY DEF HangUp, TypeInv
<1>6. worker'[w].pc = "idle" /\ \A v \in Workers \ {w} : worker'[v] = worker[v]
  BY DEF HangUp, Idle, TypeInv
<1>7. CASE cache[p] = NoToken
  <2>1. Provisioned(p) \ {w} \in SUBSET Provisioned(p)'
    BY <1>6 DEF Provisioned, Placed, Workers
  <2>2. Cardinality(Provisioned(p) \ {w}) <= Cardinality(Provisioned(p)')
    BY <2>1, FiniteCounts, Counting
  <2>3. Cardinality(Provisioned(p)) <= Cardinality(Provisioned(p) \ {w}) + 1
    <3>1. Cardinality(Provisioned(p) \ {w}) =
            IF w \in Provisioned(p) THEN Cardinality(Provisioned(p)) - 1 ELSE Cardinality(Provisioned(p))
      BY FiniteCounts, FS_RemoveElement
    <3>2. Cardinality(Provisioned(p)) \in Nat
      BY FiniteCounts, FS_CardinalityType
    <3> QED
      BY <3>1, <3>2
  <2>4. /\ Cardinality(Provisioned(p)) \in Nat /\ Cardinality(Provisioned(p)') \in Nat
        /\ Cardinality(Provisioned(p) \ {w}) \in Nat
    BY FiniteCounts, FS_CardinalityType, FS_RemoveElement
  <2>5. asked[p] <= Cardinality(Provisioned(p)) + Cardinality(Lost)
    BY <1>7 DEF Bounded
  <2>6. asked'[p] <= Cardinality(Provisioned(p)') + Cardinality(Lost')
    BY <1>4, <1>5, <2>2, <2>3, <2>4, <2>5
  <2> QED
    BY <1>5, <1>7, <2>6 DEF Bounded, NoToken
<1>8. CASE cache[p] # NoToken
  <2>1. Asked(p)' \subseteq Asked(p)
    BY <1>6 DEF Asked, Placed, Workers
  <2> QED
    BY <1>5, <1>8, <2>1, QuietStep
<1> QED
  BY <1>7, <1>8

\* Every step keeps the bound of every process.
LEMMA BoundedStep ==
  ASSUME IsFiniteSet(Requests), TypeInv, Holding, Tokened, Tracked, [Next]_vars,
         NEW p \in Processes, Bounded(p)
  PROVE  Bounded(p)'
<1>0. Lost \subseteq Lost' /\ Dispatched(p) \subseteq Dispatched(p)'
  BY CountsGrow
<1>1. ASSUME NEW w \in Workers, Commit(w) PROVE Bounded(p)'
  <2>1. cache'[p] = cache[p] /\ asked'[p] = asked[p]
    BY <1>1 DEF Commit
  <2>2. worker[w].pc = "idle" /\ worker'[w].pc \in {"cache", "lookup"} /\ \A v \in Workers \ {w} : worker'[v] = worker[v]
    <3>1. PICK n \in Batches :
            worker' = [worker EXCEPT ![w] =
                         [pc |-> IF w \in Requests THEN "cache" ELSE "lookup", batch |-> n, token |-> NoToken]]
      BY <1>1 DEF Commit
    <3> QED
      BY <1>1, <3>1 DEF Commit, At, TypeInv
  <2>3. Provisioned(p) \subseteq Provisioned(p)' /\ Asked(p)' \subseteq Asked(p)
    BY <2>2 DEF Provisioned, Asked, Placed, Workers
  <2> QED
    BY <1>0, <2>1, <2>3, QuietStep
<1>2. ASSUME NEW w \in Workers, NEW pc, NEW token, GoOn(w, pc, token), cache'[p] = cache[p], asked'[p] = asked[p],
             worker[w].pc \in {"store", "publish"} => pc \in {"store", "publish"} \/ Home[w] # p,
             pc \in {"query", "ask"} => worker[w].pc \in {"query", "ask"} \/ cache[p] = NoToken \/ Home[w] # p
      PROVE  Bounded(p)'
  <2>1. worker'[w].pc = pc /\ \A v \in Workers \ {w} : worker'[v] = worker[v]
    BY <1>2 DEF GoOn, TypeInv, WorkerType
  <2>2. Provisioned(p) \subseteq Provisioned(p)'
    BY <1>2, <2>1 DEF Provisioned, Placed, Workers
  <2>3. cache[p] # NoToken => Asked(p)' \subseteq Asked(p)
    BY <1>2, <2>1 DEF Asked, Placed, Workers
  <2> QED
    BY <1>0, <1>2, <2>2, <2>3, QuietStep
<1>3. ASSUME NEW w \in Workers, FromCache(w) PROVE Bounded(p)'
  <2>1. worker[w].pc = "cache" /\ cache'[p] = cache[p] /\ asked'[p] = asked[p]
    BY <1>3 DEF FromCache, At
  <2>2. CASE cache[Home[w]] # NoToken
    <3>1. GoOn(w, "spawn", cache[Home[w]])
      BY <1>3, <2>2 DEF FromCache
    <3> QED
      BY <1>2, <2>1, <3>1
  <2>3. CASE cache[Home[w]] = NoToken
    <3>1. GoOn(w, "query", NoToken)
      BY <1>3, <2>3 DEF FromCache
    <3> QED
      BY <1>2, <2>1, <2>3, <3>1
  <2> QED
    BY <2>2, <2>3
<1>4. ASSUME NEW w \in Workers, FromTable(w) PROVE Bounded(p)'
  <2>1. worker[w].pc = "query" /\ cache'[p] = cache[p] /\ asked'[p] = asked[p]
    BY <1>4 DEF FromTable, At
  <2>2. \E pc, token : GoOn(w, pc, token)
    BY <1>4 DEF FromTable, Unread
  <2> QED
    BY <1>2, <2>1, <2>2
<1>5. ASSUME NEW w \in Workers, Provision(w) PROVE Bounded(p)'
  <2>1. CASE Home[w] = p
    BY <1>0, <1>5, <2>1, ProvisionStep
  <2>2. CASE Home[w] # p
    <3>1. GoOn(w, "store", issued + 1) /\ cache'[p] = cache[p] /\ asked'[p] = asked[p]
      BY <1>5, <2>2 DEF Provision, TypeInv
    <3> QED
      BY <1>2, <2>2, <3>1
  <2> QED
    BY <2>1, <2>2
<1>6. ASSUME NEW w \in Workers, Unprovisioned(w) PROVE Bounded(p)'
  <2>1. worker[w].pc = "ask" /\ GoOn(w, "spawn", NoToken) /\ cache'[p] = cache[p] /\ asked'[p] = asked[p]
    BY <1>6 DEF Unprovisioned, At
  <2> QED
    BY <1>2, <2>1
<1>7. ASSUME NEW w \in Workers, Store(w) PROVE Bounded(p)'
  <2>1. worker[w].pc = "store" /\ GoOn(w, "publish", worker[w].token) /\ cache'[p] = cache[p] /\ asked'[p] = asked[p]
    BY <1>7 DEF Store, At
  <2> QED
    BY <1>2, <2>1
<1>8. ASSUME NEW w \in Workers, Publish(w) PROVE Bounded(p)'
  <2>1. CASE Home[w] = p
    BY <1>8, <2>1, PublishStep
  <2>2. CASE Home[w] # p
    <3>1. GoOn(w, "spawn", worker[w].token) /\ cache'[p] = cache[p] /\ asked'[p] = asked[p]
      BY <1>8, <2>2 DEF Publish, TypeInv
    <3> QED
      BY <1>2, <2>2, <3>1
  <2> QED
    BY <2>1, <2>2
<1>9. ASSUME NEW w \in Workers, Lookup(w) PROVE Bounded(p)'
  <2>1. worker[w].pc = "lookup" /\ cache'[p] = cache[p] /\ asked'[p] = asked[p]
    BY <1>9 DEF Lookup, At
  <2>2. \E token : GoOn(w, "spawn", token)
    BY <1>9 DEF Lookup
  <2> QED
    BY <1>2, <2>1, <2>2
<1>10. ASSUME NEW w \in Workers, Spawn(w) PROVE Bounded(p)'
  <2>1. cache'[p] = cache[p] /\ asked'[p] = asked[p]
    BY <1>10 DEF Spawn
  <2>2. worker[w].pc = "spawn" /\ worker'[w].pc = "idle" /\ \A v \in Workers \ {w} : worker'[v] = worker[v]
    BY <1>10 DEF Spawn, At, Idle, TypeInv
  <2>3. Provisioned(p) \subseteq Provisioned(p)' /\ Asked(p)' \subseteq Asked(p)
    BY <2>2 DEF Provisioned, Asked, Placed, Workers
  <2> QED
    BY <1>0, <2>1, <2>3, QuietStep
<1>11. ASSUME NEW w \in Workers, HangUp(w) PROVE Bounded(p)'
  BY <1>0, <1>11, HangUpStep
<1>12. ASSUME NEW q \in Processes, Stop(q) PROVE Bounded(p)'
  <2>1. CASE q = p
    <3>1. cache'[p] = NoToken /\ asked'[p] = 0
      BY <1>12, <2>1 DEF Stop, TypeInv
    <3>2. Cardinality(Provisioned(p)') \in Nat /\ Cardinality(Lost') \in Nat
      BY FiniteCounts, FS_CardinalityType
    <3>3. asked'[p] <= Cardinality(Provisioned(p)') + Cardinality(Lost')
      BY <3>1, <3>2
    <3> QED
      BY <3>1, <3>3 DEF Bounded, NoToken
  <2>2. CASE q # p
    <3>1. cache'[p] = cache[p] /\ asked'[p] = asked[p]
      BY <1>12, <2>2 DEF Stop, TypeInv
    <3>2. \A v \in Workers : Home[v] = p => worker'[v] = worker[v]
      BY <1>12, <2>2 DEF Stop
    <3>3. Provisioned(p) \subseteq Provisioned(p)' /\ Asked(p)' \subseteq Asked(p)
      BY <3>2 DEF Provisioned, Asked, Placed, Workers
    <3> QED
      BY <1>0, <3>1, <3>3, QuietStep
  <2> QED
    BY <2>1, <2>2
<1>13. CASE UNCHANGED <<worker, cache, asked>>
  <2>1. Provisioned(p) \subseteq Provisioned(p)' /\ Asked(p)' \subseteq Asked(p)
    BY <1>13 DEF Provisioned, Asked, Placed
  <2> QED
    BY <1>0, <1>13, <2>1, QuietStep
<1> QED
  BY <1>1, <1>3, <1>4, <1>5, <1>6, <1>7, <1>8, <1>9, <1>10, <1>11, <1>12, <1>13
  DEF Next, Step, Post, Deliver, Fail, vars

\* The bound of each process is the one the runs check.
LEMMA BoundAsStated ==
  ASSUME IsFiniteSet(Requests), TypeInv, Holding, Tracked, \A p \in Processes : Bounded(p)
  PROVE  ProvisioningIsBounded
<1> SUFFICES ASSUME NEW p \in Processes PROVE asked[p] <= Cardinality(Dispatched(p)) + Cardinality(Lost)
  BY DEF ProvisioningIsBounded, Dispatched, Lost
<1>1. /\ Cardinality(Asked(p)) \in Nat /\ Cardinality(Provisioned(p)) \in Nat
      /\ Cardinality(Dispatched(p)) \in Nat /\ Cardinality(Lost) \in Nat
  BY FiniteCounts, FS_CardinalityType
<1>2. asked[p] \in Nat
  BY DEF TypeInv
<1>3. CASE cache[p] = NoToken
  <2>1. ASSUME NEW w \in Requests, Home[w] = p, worker[w].pc \in {"store", "publish"} PROVE w \in Dispatched(p)
    <3>1. worker[w].batch \in Batches /\ batch[worker[w].batch].by = w
      BY <2>1 DEF Holding, TypeInv, WorkerType, Workers
    <3> QED
      BY <2>1, <3>1 DEF Dispatched
  <2>2. Provisioned(p) \in SUBSET Dispatched(p)
    BY <2>1 DEF Provisioned, Placed
  <2>3. Cardinality(Provisioned(p)) <= Cardinality(Dispatched(p))
    BY <2>2, FiniteCounts, Counting
  <2> QED
    BY <1>1, <1>2, <1>3, <2>3 DEF Bounded
<1>4. CASE cache[p] # NoToken
  BY <1>1, <1>2, <1>4 DEF Bounded
<1> QED
  BY <1>3, <1>4

-----------------------------------------------------------------------------
(* The invariants hold initially, so they always hold.                     *)

\* What the steps keep holds at the start.
LEMMA DeliveryInit == Init => TokensIssued /\ Holding /\ Unstarted /\ Counted /\ Tokened
<1> SUFFICES ASSUME Init PROVE TokensIssued /\ Holding /\ Unstarted /\ Counted /\ Tokened
  OBVIOUS
<1>1. TokensIssued
  BY DEF Init, TokensIssued, Idle, NoBatch, NoToken
<1>2. Holding
  BY DEF Init, Holding, Idle
<1>3. Unstarted
  BY DEF Init, Unstarted
<1>4. Counted
  BY DEF Init, Counted
<1>5. Tokened
  BY DEF Init, Tokened, Idle, NoBatch
<1> QED
  BY <1>1, <1>2, <1>3, <1>4, <1>5

\* The typing the proofs use gives the one the runs check.
LEMMA TypesAsStated == TypeInv /\ TokensIssued => TypeOK
<1> SUFFICES ASSUME TypeInv, TokensIssued PROVE TypeOK
  OBVIOUS
<1>1. ASSUME NEW w \in Workers
      PROVE  worker[w].pc \in PCs /\ worker[w].batch \in {0} \union Batches /\ worker[w].token \in 0..issued
  BY DEF TypeInv, TokensIssued, WorkerType
<1>2. ASSUME NEW p \in Processes PROVE cache[p] \in 0..issued /\ asked[p] \in 0..issued
  BY DEF TypeInv, TokensIssued
<1>3. ASSUME NEW n \in Batches
      PROVE  /\ batch[n].by \in Workers \union {Nobody} /\ batch[n].status \in BatchStatus
             /\ batch[n].token \in 0..issued /\ batch[n].answer \in {"none", "refused"}
  BY DEF TypeInv, TokensIssued, BatchType
<1>4. ASSUME NEW n \in Batches, NEW a \in Actions
      PROVE  task[n][a].status \in TaskStatus /\ task[n][a].attempt \in 0..MaxRetries
  BY DEF TypeInv, TaskType
<1>5. stored \in 0..issued /\ stops \in 0..MaxStops
  BY DEF TypeInv, TokensIssued
<1> QED
  BY <1>1, <1>2, <1>3, <1>4, <1>5 DEF TypeOK, PCs, BatchStatus, TaskStatus

\* The count of a task's posts bounds them by the attempts there can be.
LEMMA CountsAsStated == TypeInv /\ Counted => ReceivedWithinAttempts
<1> SUFFICES ASSUME TypeInv, Counted, NEW n \in Batches, NEW a \in Actions
             PROVE  received[n][a] <= MaxRetries + 1 /\ (task[n][a].status = "done" => received[n][a] > 0)
  BY DEF ReceivedWithinAttempts
<1>1. task[n][a].attempt \in 0..MaxRetries /\ received[n][a] \in Nat
  BY DEF TypeInv, TaskType
<1> QED
  BY <1>1, DeliveryAssumption DEF Counted

DeliveryInv == TypeInv /\ TokensIssued /\ Holding /\ Unstarted /\ Counted /\ Tokened

\* The conjunction is inductive.
LEMMA DeliveryInvariant == Spec => []DeliveryInv
<1>1. Init => DeliveryInv
  BY TypeInit, DeliveryInit DEF DeliveryInv
<1>2. DeliveryInv /\ [Next]_vars => DeliveryInv'
  BY TypeStep, TokensStep, HoldingStep, UnstartedStep, CountedStep, TokenedStep DEF DeliveryInv
<1> QED
  BY <1>1, <1>2, PTL DEF Spec

\* Every variable keeps its type, and no token is stored, cached, held or sent
\* that the platform did not issue.
THEOREM DeliveryTypes == Spec => []TypeOK
<1>1. DeliveryInv => TypeOK
  BY TypesAsStated DEF DeliveryInv
<1> QED
  BY <1>1, DeliveryInvariant, PTL

\* dispatch_webhook_with_retry and dispatch_event_with_retry: whatever posts are
\* lost, answered late or processed without an answer, and whenever processes
\* stop or clients hang up, a receiver processes an action at most MaxRetries + 1
\* times, and at least once if its task reports success.
THEOREM PostsAreAttempts == Spec => []ReceivedWithinAttempts
<1>1. DeliveryInv => ReceivedWithinAttempts
  BY CountsAsStated DEF DeliveryInv
<1> QED
  BY <1>1, DeliveryInvariant, PTL

\* get_or_create: however requests of one tenant race for the token, and whatever
\* statement or call fails on the way, a request's actions leave without one only
\* if the platform was asked for their batch and refused.
THEOREM RequestsCarryTokens == Spec => []TokenOrRefusal
<1>1. DeliveryInv => TokenOrRefusal
  BY DEF DeliveryInv, Tokened, TokenOrRefusal
<1> QED
  BY <1>1, DeliveryInvariant, PTL

\* get_or_create: however the requests of a process race for the token, and
\* whether or not the table can be written or read, the process gets no more
\* tokens from the platform than it has requests that dispatched, besides those
\* that were lost with a batch.
THEOREM TokensAreFewEnough ==
  ASSUME IsFiniteSet(Requests) PROVE Spec => []ProvisioningIsBounded
<1> DEFINE Inv == DeliveryInv /\ Tracked /\ \A p \in Processes : Bounded(p)
<1>1. Init => Inv
  <2> SUFFICES ASSUME Init PROVE Inv
    OBVIOUS
  <2>1. DeliveryInv
    BY TypeInit, DeliveryInit DEF DeliveryInv
  <2>2. Tracked
    BY DEF Init, Tracked, Idle, NoBatch
  <2>3. ASSUME NEW p \in Processes PROVE Bounded(p)
    <3>1. cache[p] = NoToken /\ asked[p] = 0
      BY DEF Init
    <3>2. Cardinality(Provisioned(p)) \in Nat /\ Cardinality(Lost) \in Nat
      BY FiniteCounts, FS_CardinalityType
    <3> QED
      BY <3>1, <3>2 DEF Bounded
  <2> QED
    BY <2>1, <2>2, <2>3
<1>2. Inv /\ [Next]_vars => Inv'
  <2> SUFFICES ASSUME Inv, [Next]_vars PROVE Inv'
    OBVIOUS
  <2>1. DeliveryInv'
    BY TypeStep, TokensStep, HoldingStep, UnstartedStep, CountedStep, TokenedStep DEF DeliveryInv
  <2>2. Tracked'
    BY TrackedStep DEF DeliveryInv
  <2>3. ASSUME NEW p \in Processes PROVE Bounded(p)'
    BY BoundedStep DEF DeliveryInv
  <2> QED
    BY <2>1, <2>2, <2>3
<1>3. Inv => ProvisioningIsBounded
  BY BoundAsStated DEF DeliveryInv
<1> HIDE DEF Inv
<1> QED
  BY <1>1, <1>2, <1>3, PTL DEF Spec
=============================================================================
