------------------------- MODULE WorkflowRun_proofs -------------------------
(* Proofs about WorkflowRun, for graphs of any size and any number of
   deliveries and of cancelling requests.  LocalInv is what each delivery keeps
   for itself, SettleInv says who still owes the run its last status, and
   SoleDelivery ties the rows of the nodes to the one delivery that writes them;
   the refinement of DagExecution follows from it. *)

EXTENDS WorkflowRun, TLAPS

\* What the executor keeps of the nodes it went through.  Until a node fails,
\* node_outputs has every node before the current one, so that an operation
\* finds all its inputs; after that no node is executed.
LocalInv ==
  /\ \A e \in edges : e[1] < e[2]
  /\ \A t \in Deliveries :
       /\ pc[t] \in {"mark", "exec", "job"} => at[t] \in Nodes
       /\ pc[t] \in {"unsent", "queued"} => at[t] = 1 /\ failed[t] = "no"
       /\ failed[t] = "no" => outputs[t] = 1 .. at[t] - 1
       /\ failed[t] = "yes" => pc[t] \notin {"exec", "job"}

\* An open status is owed by a delivery on its way, or by one that was killed.
SettleInv ==
  /\ run.status = "running" => \E t \in Deliveries : pc[t] \in Running \cup {"killed"}
  /\ run.status = "pending" =>
       \A t \in Deliveries : pc[t] \in {"unsent", "queued", "killed"}
  /\ view \in {"sent", "answered"} => \E t \in Deliveries : pc[t] # "unsent"

LEMMA InitTypeOK == Init => TypeOK /\ LocalInv /\ SettleInv
<1> SUFFICES ASSUME Init PROVE TypeOK /\ LocalInv /\ SettleInv
  OBVIOUS
<1> USE NAssumption DEF Init
<1>1. TypeOK
  <2>1. nodeRun \in [Nodes -> NodeRunRow] /\ 1 \in 1 .. N + 1
    BY DEF NodeStatus, Row, NodeRunRow
  <2>2. run \in [status : RunStatus, taskId : {"none", "id"}]
    BY DEF RunStatus
  <2> QED BY <2>1, <2>2 DEF TypeOK, Alive, Nodes
<1>2. LocalInv
  BY DEF LocalInv, Nodes
<1>3. SettleInv
  BY DEF SettleInv
<1> QED BY <1>1, <1>2, <1>3

\* The rows of the nodes, written by status or with a cause.
LEMMA NodeRow ==
  ASSUME TypeOK, NEW n \in Nodes, NEW s \in NodeStatus
  PROVE  /\ [nodeRun EXCEPT ![n].status = s] \in [Nodes -> NodeRunRow]
         /\ \A c \in {"none", "input", "operation", "notification"} :
              [nodeRun EXCEPT ![n] = Row(s, c)] \in [Nodes -> NodeRunRow]
  BY DEF TypeOK, Row, NodeRunRow

AfterNode(t) ==
  /\ nodeRun' \in [Nodes -> NodeRunRow]
  /\ pc' \in {[pc EXCEPT ![t] = "crashed"], [pc EXCEPT ![t] = "upsert"]}
  /\ at' \in [Deliveries -> 1 .. N + 1]
  /\ outputs' \in [Deliveries -> SUBSET Nodes]
  /\ failed' \in [Deliveries -> {"no", "yes"}]

\* How a delivery leaves its node: completed, failed, or lost with its rows.
LEMMA NodeEnds ==
  ASSUME TypeOK, LocalInv, NEW t \in Deliveries, pc[t] \in {"exec", "job"},
         \/ NodeCompleted(t)
         \/ \E c \in {"input", "operation", "notification"} : NodeFailed(t, c)
  PROVE  AfterNode(t)
<1> USE DEF AfterNode
<1> USE NAssumption
<1>0. at[t] \in Nodes /\ at[t] + 1 \in 1 .. N + 1
  BY DEF LocalInv, Nodes
<1>1. CASE Deleted
  BY <1>1 DEF NodeCompleted, NodeFailed, NodeLost, Goto, TypeOK
<1>2. CASE ~Deleted /\ NodeCompleted(t)
  <2>1. nodeRun' \in [Nodes -> NodeRunRow]
    <3>1. "completed" \in NodeStatus
      BY DEF NodeStatus
    <3>2. nodeRun' = [nodeRun EXCEPT ![at[t]].status = "completed"]
      BY <1>2 DEF NodeCompleted
    <3> QED BY <1>0, <3>1, <3>2, NodeRow
  <2> QED BY <1>0, <1>2, <2>1 DEF NodeCompleted, Goto, TypeOK
<1>3. ASSUME ~Deleted, NEW c \in {"input", "operation", "notification"},
             NodeFailed(t, c)
      PROVE  AfterNode(t)
  <2>1. nodeRun' \in [Nodes -> NodeRunRow]
    <3>1. "failed" \in NodeStatus
      BY DEF NodeStatus
    <3>2. nodeRun' = [nodeRun EXCEPT ![at[t]] = Row("failed", c)]
      BY <1>3 DEF NodeFailed
    <3> QED BY <1>0, <3>1, <3>2, NodeRow
  <2> QED BY <1>0, <1>3, <2>1 DEF NodeFailed, Goto, TypeOK
<1> QED BY <1>1, <1>2, <1>3

LEMMA TypeStep == TypeOK /\ LocalInv /\ [Next]_vars => TypeOK'
<1> SUFFICES ASSUME TypeOK, LocalInv, [Next]_vars PROVE TypeOK'
  OBVIOUS
<1> USE NAssumption DEF TypeOK, Goto, RunStatus, TerminalRun, Alive, Running, Ended
<1>1. CASE CreateRequest \/ LoseCreate
  BY <1>1 DEF CreateRequest, Delay, SaveTaskId, LoseCreate, rows, requests, locals
<1>2. ASSUME NEW t \in Deliveries, NEW u \in Deliveries, Redeliver(t, u)
      PROVE  TypeOK'
  BY <1>2 DEF Redeliver, rows, requests
<1>3. ASSUME NEW r \in CancelRequests, CancelRequest(r) \/ LoseCancel(r)
      PROVE  TypeOK'
  <2>1. CASE ReadRun(r)        BY <2>1 DEF ReadRun, rows, locals
  <2>2. CASE Revoke(r)         BY <2>2 DEF Revoke, rows, locals
  <2>3. CASE SaveCancelled(r)  BY <2>3 DEF SaveCancelled, locals
  <2>4. CASE LoseCancel(r)     BY <2>4 DEF LoseCancel, rows, locals
  <2> QED BY <1>3, <2>1, <2>2, <2>3, <2>4 DEF CancelRequest
<1>4. ASSUME NEW t \in Deliveries, WorkerStep(t)
      PROVE  TypeOK'
  <2>1. CASE Start(t)
    BY <2>1 DEF Start, requests
  <2>2. CASE Upsert(t)
    <3>1. nodeRun' \in [Nodes -> NodeRunRow]
      BY <2>2, NodeRow DEF Upsert, NodeStatus
    <3> QED BY <2>2, <3>1 DEF Upsert, requests
  <2>3. CASE MarkSkipped(t)
    <3>1. at[t] \in Nodes /\ at[t] + 1 \in 1 .. N + 1
      BY <2>3 DEF MarkSkipped, LocalInv, Nodes
    <3>2. nodeRun' \in [Nodes -> NodeRunRow]
      BY <2>3, <3>1, NodeRow DEF MarkSkipped, NodeStatus
    <3> QED BY <2>3, <3>1, <3>2 DEF MarkSkipped, requests
  <2>4. CASE MarkRunning(t)
    <3>1. nodeRun' \in [Nodes -> NodeRunRow]
      BY <2>4, NodeRow DEF MarkRunning, NodeStatus, LocalInv
    <3> QED BY <2>4, <3>1 DEF MarkRunning, requests
  <2>5. CASE ExecSource(t)
    <3>1. AfterNode(t)
      BY <2>5, NodeEnds DEF ExecSource
    <3> QED BY <2>5, <3>1 DEF ExecSource, requests, AfterNode
  <2>6. CASE CreateJob(t)
    <3>1. at[t] \in Nodes
      BY <2>6 DEF CreateJob, LocalInv
    <3>2. job' \in {job, [job EXCEPT ![at[t]] = "processing"]}
      BY <2>6 DEF CreateJob
    <3>3. CASE NodeFailed(t, "input")
      <4>1. AfterNode(t)
        BY <2>6, <3>3, NodeEnds DEF CreateJob
      <4> QED BY <2>6, <3>1, <3>2, <4>1 DEF CreateJob, requests, AfterNode
    <3>4. CASE Goto(t, "job") /\ UNCHANGED <<nodeRun, at, outputs, failed>>
      BY <2>6, <3>1, <3>2, <3>4 DEF CreateJob, requests
    <3> QED BY <2>6, <3>3, <3>4 DEF CreateJob
  <2>7. CASE JobCompletes(t)
    <3>1. AfterNode(t) /\ at[t] \in Nodes
      BY <2>7, NodeEnds DEF JobCompletes, LocalInv
    <3> QED BY <2>7, <3>1 DEF JobCompletes, requests, AfterNode
  <2>8. CASE JobFails(t)
    <3>1. at[t] \in Nodes /\ pc[t] = "job"
          /\ \E c \in {"input", "operation", "notification"} : NodeFailed(t, c)
      BY <2>8 DEF JobFails, LocalInv
    <3>2. /\ job' \in {job, [job EXCEPT ![at[t]] = "failed"]}
          /\ output' \in {output, [output EXCEPT ![at[t]] = "live"]}
      BY <2>8 DEF JobFails
    <3>3. AfterNode(t)
      BY <3>1, NodeEnds
    <3> QED BY <2>8, <3>1, <3>2, <3>3 DEF JobFails, requests, AfterNode
  <2>9. CASE Finish(t)
    BY <2>9 DEF Finish, requests
  <2>10. CASE Break(t)
    BY <2>10 DEF Break, rows, requests
  <2> QED BY <1>4, <2>1, <2>2, <2>3, <2>4, <2>5, <2>6, <2>7, <2>8, <2>9, <2>10
          DEF WorkerStep
<1>5. ASSUME NEW t \in Deliveries, Terminate(t) \/ Crash(t)
      PROVE  TypeOK'
  BY <1>5 DEF Terminate, Crash, rows, requests
<1>6. CASE UserStep
  BY <1>6 DEF UserStep, DeleteSource, DeleteOutput, CancelJob, DeleteWorkflow, rows,
     requests, locals
<1>7. CASE UNCHANGED vars
  BY <1>7 DEF vars, rows, requests, locals
<1> QED BY <1>1, <1>2, <1>3, <1>4, <1>5, <1>6, <1>7 DEF Next

LEMMA LocalInvStep == TypeOK /\ LocalInv /\ [Next]_vars => LocalInv'
<1> SUFFICES ASSUME TypeOK, LocalInv, [Next]_vars PROVE LocalInv'
  OBVIOUS
<1> USE NAssumption DEF LocalInv, Goto
<1>1. CASE CreateRequest \/ LoseCreate
  BY <1>1 DEF CreateRequest, Delay, SaveTaskId, LoseCreate, locals, TypeOK
<1>2. ASSUME NEW t \in Deliveries, NEW u \in Deliveries, Redeliver(t, u)
      PROVE  LocalInv'
  BY <1>2 DEF Redeliver, TypeOK
<1>3. ASSUME NEW r \in CancelRequests, CancelRequest(r) \/ LoseCancel(r)
      PROVE  LocalInv'
  BY <1>3 DEF CancelRequest, ReadRun, Revoke, SaveCancelled, LoseCancel, locals
<1>4. ASSUME NEW t \in Deliveries, WorkerStep(t)
      PROVE  LocalInv'
  <2> USE DEF TypeOK
  <2>1. CASE Start(t)        BY <2>1 DEF Start
  <2>2. CASE Upsert(t)       BY <2>2 DEF Upsert
  <2>3. CASE MarkSkipped(t)  BY <2>3 DEF MarkSkipped
  <2>4. CASE MarkRunning(t)  BY <2>4 DEF MarkRunning
  <2>5. ASSUME pc[t] \in {"exec", "job"},
               \/ NodeCompleted(t)
               \/ \E c \in {"input", "operation", "notification"} : NodeFailed(t, c),
               UNCHANGED edges
        PROVE  LocalInv'
    <3>0. failed[t] = "no" /\ at[t] \in 1 .. N /\ outputs[t] = 1 .. at[t] - 1
      BY <2>5 DEF Nodes
    <3>1. (1 .. at[t] - 1) \cup {at[t]} = 1 .. (at[t] + 1) - 1
      BY <3>0
    <3>2. CASE Deleted
      BY <2>5, <3>2 DEF NodeCompleted, NodeFailed, NodeLost
    <3>3. CASE ~Deleted /\ NodeCompleted(t)
      <4>1. /\ pc' = [pc EXCEPT ![t] = "upsert"] /\ at' = [at EXCEPT ![t] = @ + 1]
            /\ outputs' = [outputs EXCEPT ![t] = @ \cup {at[t]}]
            /\ failed' = failed
        BY <3>3 DEF NodeCompleted
      <4>2. outputs'[t] = 1 .. at'[t] - 1
        BY <3>0, <3>1, <4>1
      <4>3. \A u \in Deliveries \ {t} :
              UNCHANGED <<pc[u], at[u], outputs[u], failed[u]>>
        BY <4>1
      <4> QED BY ZenonT(60), <2>5, <3>0, <4>1, <4>2, <4>3
    <3>4. ASSUME ~Deleted, NEW c \in {"input", "operation", "notification"},
                 NodeFailed(t, c)
          PROVE  LocalInv'
      BY <2>5, <3>4 DEF NodeFailed
    <3> QED BY <2>5, <3>2, <3>3, <3>4
  <2>6. CASE ExecSource(t)
    BY <2>5, <2>6 DEF ExecSource
  <2>7. CASE CreateJob(t)
    <3>1. CASE NodeFailed(t, "input")
      BY <2>5, <2>7, <3>1 DEF CreateJob
    <3>2. CASE Goto(t, "job") /\ UNCHANGED <<nodeRun, at, outputs, failed>>
      BY <2>7, <3>2 DEF CreateJob
    <3> QED BY <2>7, <3>1, <3>2 DEF CreateJob
  <2>8. CASE JobCompletes(t)
    BY <2>5, <2>8 DEF JobCompletes
  <2>9. CASE JobFails(t)
    <3>1. \E c \in {"input", "operation", "notification"} : NodeFailed(t, c)
      BY <2>9 DEF JobFails
    <3> QED BY <2>5, <2>9, <3>1 DEF JobFails
  <2>10. CASE Finish(t)
    BY <2>10 DEF Finish
  <2>11. CASE Break(t)
    BY <2>11 DEF Break
  <2> QED BY <1>4, <2>1, <2>2, <2>3, <2>4, <2>6, <2>7, <2>8, <2>9, <2>10, <2>11
          DEF WorkerStep
<1>5. ASSUME NEW t \in Deliveries, Terminate(t) \/ Crash(t)
      PROVE  LocalInv'
  BY <1>5 DEF Terminate, Crash, TypeOK
<1>6. CASE UserStep
  BY <1>6 DEF UserStep, DeleteSource, DeleteOutput, CancelJob, DeleteWorkflow, locals
<1>7. CASE UNCHANGED vars
  BY <1>7 DEF vars, locals
<1> QED BY <1>1, <1>2, <1>3, <1>4, <1>5, <1>6, <1>7 DEF Next

LEMMA SettleInvStep == TypeOK /\ SettleInv /\ [Next]_vars => SettleInv'
<1> SUFFICES ASSUME TypeOK, SettleInv, [Next]_vars PROVE SettleInv'
  OBVIOUS
<1> USE DEF SettleInv, Goto, Running
<1>1. CASE CreateRequest \/ LoseCreate
  BY <1>1 DEF CreateRequest, Delay, SaveTaskId, LoseCreate, locals, rows, TypeOK
<1>2. ASSUME NEW t \in Deliveries, NEW u \in Deliveries, Redeliver(t, u)
      PROVE  SettleInv'
  BY <1>2 DEF Redeliver, rows, requests, TypeOK
<1>3. ASSUME NEW r \in CancelRequests, CancelRequest(r) \/ LoseCancel(r)
      PROVE  SettleInv'
  <2>1. UNCHANGED <<pc, view>> /\ run'.status \in {run.status, "cancelled"}
    BY <1>3 DEF CancelRequest, ReadRun, Revoke, SaveCancelled, LoseCancel, locals, rows,
       TypeOK
  <2> QED BY <2>1
<1>4. ASSUME NEW t \in Deliveries, WorkerStep(t)
      PROVE  SettleInv'
  <2>1. CASE Start(t)
    BY <2>1 DEF Start, Deleted, requests, TypeOK
  <2>2. CASE Finish(t)
    BY <2>2 DEF Finish, requests, TypeOK
  <2>3. CASE Break(t)
    BY <2>3 DEF Break, Deleted, rows, requests, TypeOK
  <2>4. ASSUME pc[t] \in Running, UNCHANGED <<run, requests>>,
               \/ \E l \in Running : pc' = [pc EXCEPT ![t] = l]
               \/ Deleted /\ pc' = [pc EXCEPT ![t] = "crashed"]
        PROVE  SettleInv'
    BY <2>4 DEF Deleted, requests, TypeOK
  <2>5. CASE Upsert(t) \/ MarkSkipped(t) \/ MarkRunning(t)
    <3>1. \E l \in Running : pc' = [pc EXCEPT ![t] = l]
      BY <2>5 DEF Upsert, MarkSkipped, MarkRunning
    <3> QED BY <2>4, <2>5, <3>1 DEF Upsert, MarkSkipped, MarkRunning
  <2>6. NodeCompleted(t) \/ (\E c : NodeFailed(t, c))
          => \/ \E l \in Running : pc' = [pc EXCEPT ![t] = l]
             \/ Deleted /\ pc' = [pc EXCEPT ![t] = "crashed"]
    BY DEF NodeCompleted, NodeFailed, NodeLost
  <2>7. CASE ExecSource(t) \/ JobCompletes(t) \/ JobFails(t)
    BY <2>4, <2>6, <2>7 DEF ExecSource, JobCompletes, JobFails
  <2>8. CASE CreateJob(t)
    BY <2>4, <2>6, <2>8 DEF CreateJob
  <2> QED BY <1>4, <2>1, <2>2, <2>3, <2>5, <2>7, <2>8 DEF WorkerStep
<1>5. ASSUME NEW t \in Deliveries, Terminate(t) \/ Crash(t)
      PROVE  SettleInv'
  BY <1>5 DEF Terminate, Crash, Alive, rows, requests, TypeOK
<1>6. CASE UserStep
  <2>1. UNCHANGED <<pc, view>> /\ run'.status \in {run.status, "deleted"}
    BY <1>6 DEF UserStep, DeleteSource, DeleteOutput, CancelJob, DeleteWorkflow,
       locals, rows, requests, TypeOK
  <2> QED BY <2>1
<1>7. CASE UNCHANGED vars
  BY <1>7 DEF vars, rows, requests, locals
<1> QED BY <1>1, <1>2, <1>3, <1>4, <1>5, <1>6, <1>7 DEF Next

\* The variables of the model have values of their types: above all, the node a
\* delivery is at is a node whenever its row is written.
THEOREM TypeCorrect == Spec => [](TypeOK /\ LocalInv /\ SettleInv)
<1>1. TypeOK /\ LocalInv /\ SettleInv /\ [Next]_vars
        => (TypeOK /\ LocalInv /\ SettleInv)'
  BY TypeStep, LocalInvStep, SettleInvStep
<1> QED BY InitTypeOK, <1>1, PTL DEF Spec

\* At rest, a run is unfinished only if its message was never sent or a worker
\* was killed (tasks.py run_workflow: no exception leaves it running).
THEOREM OrphanedCorrect == Spec => []OrphanedOnlyIfKilled
<1>1. TypeOK /\ SettleInv => OrphanedOnlyIfKilled
  <2> SUFFICES ASSUME TypeOK, SettleInv, AtRest, run.status \in {"pending", "running"},
                      view # "lost"
               PROVE  Killed
    BY DEF OrphanedOnlyIfKilled
  <2>1. CASE run.status = "running"
    BY <2>1 DEF SettleInv, AtRest, Killed, Alive
  <2>2. CASE run.status = "pending"
    <3>1. PICK t \in Deliveries : pc[t] # "unsent"
      BY DEF SettleInv, AtRest
    <3> QED BY <2>2, <3>1 DEF SettleInv, AtRest, Killed, Alive
  <2> QED BY <2>1, <2>2
<1> QED BY <1>1, TypeCorrect, PTL

-----------------------------------------------------------------------------
\* The message of the run was delivered at most once.
DeliveredOnce ==
  \A t, u \in Deliveries : pc[t] # "unsent" /\ pc[u] # "unsent" => t = u

\* The rows of the nodes, as the delivery that writes them has left them: those
\* before its node have ended, those after it are untouched, and the one it is
\* at shows the statement it is before.
NodesOf(t) ==
  /\ \A n \in Nodes : n > at[t] => nodeRun[n].status = "none"
  /\ \A n \in Nodes :
       n < at[t] => nodeRun[n].status \in {"completed", "failed", "skipped"}
  /\ failed[t] = "no" =>
       \A n \in Nodes : n < at[t] =>
         /\ nodeRun[n].status = "completed"
         /\ n \notin source => output[n] \in {"live", "deleted"}
  /\ failed[t] = "yes" => \E n \in Nodes : n < at[t] /\ nodeRun[n].status = "failed"
  /\ at[t] \in Nodes =>
       /\ nodeRun[at[t]].status \in {"none", "pending", "running"}
       /\ pc[t] \in {"queued", "upsert"} => nodeRun[at[t]].status = "none"
       /\ pc[t] = "mark" => nodeRun[at[t]].status = "pending"
       /\ pc[t] \in {"exec", "job"} => nodeRun[at[t]].status = "running"

\* A run reads completed or failed because its delivery went through all nodes.
RunOf(t) ==
  /\ pc[t] = "done" /\ at[t] \notin Nodes
  /\ run.status = IF failed[t] = "yes" THEN "failed" ELSE "completed"

SoleDelivery ==
  /\ \A t \in Deliveries : pc[t] # "unsent" => NodesOf(t)
  /\ (\A t \in Deliveries : pc[t] = "unsent") =>
       \A n \in Nodes : nodeRun[n].status = "none"
  /\ run.status \in {"completed", "failed"} => \E t \in Deliveries : RunOf(t)
  /\ InputFailureIsTheUsers

OnceInv == DeliveredOnce => SoleDelivery

\* While no node has failed, _resolve_inputs finds all inputs of a node.
LEMMA InputsAreAll ==
  ASSUME TypeOK, LocalInv, NEW t \in Deliveries, failed[t] = "no"
  PROVE  Inputs(t) = Upstream(at[t])
<1>1. outputs[t] = 1 .. at[t] - 1 /\ at[t] \in 1 .. N + 1
  BY DEF LocalInv, TypeOK
<1>2. \A m \in Upstream(at[t]) : m \in Nodes /\ m < at[t]
  BY DEF LocalInv, Upstream, TypeOK
<1> QED BY <1>1, <1>2, NAssumption DEF Inputs, Nodes

\* What the user took from a node that ended is not given back: a later step
\* writes outputs of later nodes only.
LEMMA InputTakenStays ==
  ASSUME TypeOK, LocalInv, NEW n \in Nodes, NEW i \in Nat, n <= i, InputTaken(n),
         UNCHANGED <<edges, source>>, supply' \subseteq supply,
         \A m \in Nodes : m < i /\ output[m] = "deleted" => output'[m] = "deleted"
  PROVE  InputTaken(n)'
<1>1. \A m \in Upstream(n) : m \in Nodes /\ m < i
  BY NAssumption DEF LocalInv, Upstream, Nodes, TypeOK
<1> QED BY <1>1 DEF InputTaken, Upstream

\* The end of a node: its row, and the rows before and after it.
LEMMA NodeEndsOnce ==
  ASSUME TypeOK, LocalInv, SoleDelivery, NEW t \in Deliveries,
         \A u \in Deliveries : pc[u] # "unsent" => u = t,
         pc[t] \in {"exec", "job"}, UNCHANGED <<edges, source, supply, run>>,
         output' \in {output, [output EXCEPT ![at[t]] = "live"]},
         \/ NodeCompleted(t) /\ (at[t] \in source \/ output'[at[t]] = "live")
         \/ \E c \in {"input", "operation", "notification"} :
              NodeFailed(t, c) /\ (c = "input" => output' = output /\ InputTaken(at[t]))
  PROVE  SoleDelivery'
<1> USE NAssumption
<1>1. /\ at[t] \in Nodes /\ at[t] \in Nat /\ failed[t] = "no"
      /\ outputs[t] = 1 .. at[t] - 1 /\ NodesOf(t)
  BY DEF LocalInv, SoleDelivery, Nodes, TypeOK
<1>2. ~ (run.status \in {"completed", "failed"})
  <2> SUFFICES ASSUME run.status \in {"completed", "failed"} PROVE FALSE
    OBVIOUS
  <2>1. PICK u \in Deliveries : RunOf(u)
    BY DEF SoleDelivery
  <2> QED BY <2>1 DEF RunOf
<1>3. \A n \in Nodes : n < at[t] /\ InputTaken(n) => InputTaken(n)'
  <2> TAKE n \in Nodes
  <2> SUFFICES ASSUME n < at[t], InputTaken(n) PROVE InputTaken(n)'
    OBVIOUS
  <2>1. n <= at[t] /\ supply' \subseteq supply
    BY <1>1 DEF Nodes
  <2>2. \A m \in Nodes : m < at[t] /\ output[m] = "deleted" => output'[m] = "deleted"
    BY <1>1 DEF Nodes, TypeOK
  <2> QED BY <1>1, <2>1, <2>2, InputTakenStays
<1>4. CASE Deleted
  <2>1. /\ pc' = [pc EXCEPT ![t] = "crashed"]
        /\ UNCHANGED <<nodeRun, at, outputs, failed>>
    BY <1>4 DEF NodeCompleted, NodeFailed, NodeLost, Goto
  <2>2. NodesOf(t)'
    BY <1>1, <2>1 DEF NodesOf, TypeOK, Nodes
  <2>3. InputFailureIsTheUsers'
    BY <1>1, <1>3, <2>1 DEF SoleDelivery, InputFailureIsTheUsers, NodesOf, Row, Nodes
  <2> QED BY <1>2, <2>1, <2>2, <2>3 DEF SoleDelivery, TypeOK
<1>5. CASE ~Deleted /\ NodeCompleted(t) /\ (at[t] \in source \/ output'[at[t]] = "live")
  <2>1. /\ pc' = [pc EXCEPT ![t] = "upsert"] /\ at' = [at EXCEPT ![t] = @ + 1]
        /\ nodeRun' = [nodeRun EXCEPT ![at[t]].status = "completed"]
        /\ failed' = failed
    BY <1>5 DEF NodeCompleted, Goto
  <2>2. NodesOf(t)'
    <3>1. at'[t] = at[t] + 1 /\ pc'[t] = "upsert" /\ failed'[t] = "no"
      BY <1>1, <2>1 DEF TypeOK
    <3>2. \A n \in Nodes :
            nodeRun'[n].status = IF n = at[t] THEN "completed" ELSE nodeRun[n].status
      BY <1>1, <2>1 DEF TypeOK, NodeRunRow
    <3>3. \A n \in Nodes : n # at[t] => output'[n] = output[n]
      BY DEF TypeOK
    <3>4. \A n \in Nodes : n < at[t] + 1 => n < at[t] \/ n = at[t]
      BY <1>1 DEF Nodes
    <3>5. \A n \in Nodes : n > at[t] \/ n = at[t] + 1 => n # at[t] /\ n > at[t]
      BY <1>1 DEF Nodes
    <3>6. \A n \in Nodes : n > at[t] + 1 => n > at[t] /\ n # at[t]
      BY <1>1 DEF Nodes
    <3> QED BY <1>1, <1>5, <3>1, <3>2, <3>3, <3>4, <3>5, <3>6 DEF NodesOf
  <2>3. InputFailureIsTheUsers'
    BY <1>1, <1>3, <2>1 DEF SoleDelivery, InputFailureIsTheUsers, NodesOf, Row, Nodes,
       TypeOK, NodeRunRow
  <2> QED BY <1>2, <2>1, <2>2, <2>3 DEF SoleDelivery, TypeOK
<1>6. ASSUME ~Deleted, NEW c \in {"input", "operation", "notification"},
             NodeFailed(t, c), c = "input" => output' = output /\ InputTaken(at[t])
      PROVE  SoleDelivery'
  <2>1. /\ pc' = [pc EXCEPT ![t] = "upsert"] /\ at' = [at EXCEPT ![t] = @ + 1]
        /\ nodeRun' = [nodeRun EXCEPT ![at[t]] = Row("failed", c)]
        /\ failed' = [failed EXCEPT ![t] = "yes"]
    BY <1>6 DEF NodeFailed, Goto
  <2>2. NodesOf(t)'
    BY <1>1, <2>1 DEF NodesOf, TypeOK, Nodes, NodeRunRow, Row
  <2>3. InputFailureIsTheUsers'
    <3>1. \A n \in Nodes : n = at[t] /\ c = "input" => InputTaken(n)'
      BY <1>6 DEF InputTaken, Upstream
    <3>2. \A n \in Nodes : nodeRun'[n] = IF n = at[t] THEN Row("failed", c) ELSE nodeRun[n]
      BY <2>1 DEF TypeOK
    <3>3. \A n \in Nodes : nodeRun[n] = Row("failed", "input") => n < at[t]
      BY <1>1 DEF NodesOf, Row, Nodes
    <3> QED BY <1>3, <3>1, <3>2, <3>3 DEF SoleDelivery, InputFailureIsTheUsers, Row
  <2> QED BY <1>2, <2>1, <2>2, <2>3 DEF SoleDelivery, TypeOK
<1> QED BY <1>4, <1>5, <1>6

\* A step that leaves the nodes' rows, and takes no output back, keeps their causes.
LEMMA CausesStay ==
  ASSUME TypeOK, LocalInv, InputFailureIsTheUsers, UNCHANGED <<edges, source>>,
         supply' \subseteq supply,
         \A m \in Nodes : output[m] = "deleted" => output'[m] = "deleted",
         \A n \in Nodes : nodeRun'[n] = Row("failed", "input")
                         => nodeRun[n] = Row("failed", "input")
  PROVE  InputFailureIsTheUsers'
<1> SUFFICES ASSUME NEW n \in Nodes, nodeRun'[n] = Row("failed", "input")
             PROVE  InputTaken(n)'
  BY DEF InputFailureIsTheUsers
<1>1. InputTaken(n) /\ n \in Nat /\ n <= n
  BY DEF InputFailureIsTheUsers, Nodes
<1> QED BY <1>1, InputTakenStays

\* A step of the delivery that leaves the outputs and gives its node a status.
LEMMA MarkedOnce ==
  ASSUME TypeOK, LocalInv, SoleDelivery, NEW t \in Deliveries, pc[t] # "unsent",
         \A u \in Deliveries : pc[u] # "unsent" => u = t,
         UNCHANGED <<edges, source, supply, output>>, run'.status \in
           {run.status, "running", "deleted"} \/ RunOf(t)',
         NEW l \in Running \cup Ended, pc' = [pc EXCEPT ![t] = l], pc[t] # "done",
         nodeRun' = nodeRun \/ (\E s \in {"pending", "running", "skipped"} :
           at[t] \in Nodes /\ nodeRun' = [nodeRun EXCEPT ![at[t]].status = s]),
         NodesOf(t)'
  PROVE  SoleDelivery'
<1>1. \A u \in Deliveries : ~ RunOf(u) /\ (pc'[u] # "unsent" <=> u = t)
  BY DEF RunOf, TypeOK, Running, Ended
<1>2. \A n \in Nodes : nodeRun'[n] = Row("failed", "input")
                       => nodeRun[n] = Row("failed", "input")
  BY DEF TypeOK, NodeRunRow, Row
<1>3. InputFailureIsTheUsers'
  BY <1>2, CausesStay DEF SoleDelivery
<1>4. run'.status \in {"completed", "failed"} => RunOf(t)'
  BY <1>1 DEF SoleDelivery
<1> QED BY <1>1, <1>3, <1>4 DEF SoleDelivery

LEMMA SoleDeliveryStep ==
  ASSUME TypeOK, LocalInv, DeliveredOnce, DeliveredOnce', SoleDelivery, [Next]_vars
  PROVE  SoleDelivery'
<1> USE NAssumption
<1>1. ASSUME NEW t \in Deliveries, Delay(t) PROVE SoleDelivery'
  <2>1. /\ pc' = [pc EXCEPT ![t] = "queued"] /\ pc[t] = "unsent"
        /\ at[t] = 1 /\ failed[t] = "no"
        /\ UNCHANGED <<edges, source, supply, rows, at, outputs, failed>>
    BY <1>1 DEF Delay, Goto, LocalInv
  <2>2. \A u \in Deliveries : u # t => pc[u] = "unsent" /\ pc'[u] = "unsent"
    BY <2>1 DEF DeliveredOnce, TypeOK
  <2>3. \A n \in Nodes : nodeRun[n].status = "none"
    BY <2>1, <2>2 DEF SoleDelivery
  <2>4. NodesOf(t)'
    BY <2>1, <2>3 DEF NodesOf, rows, Nodes, TypeOK
  <2>5. ~ (run.status \in {"completed", "failed"})
    BY <2>1, <2>2 DEF SoleDelivery, RunOf
  <2>6. InputFailureIsTheUsers'
    BY <2>1, CausesStay DEF SoleDelivery, rows
  <2> QED BY <2>1, <2>2, <2>4, <2>5, <2>6 DEF SoleDelivery, TypeOK, rows
<1>2. ASSUME UNCHANGED <<edges, source, nodeRun, locals>>, supply' \subseteq supply,
             run'.status \in {run.status, "cancelled", "deleted"},
             \A n \in Nodes : output[n] \in {"live", "deleted"} =>
               output'[n] \in {output[n], "deleted"}
      PROVE  SoleDelivery'
  <2>1. \A t \in Deliveries : NodesOf(t) => NodesOf(t)'
    BY <1>2 DEF NodesOf, locals, Nodes
  <2>2. InputFailureIsTheUsers'
    BY <1>2, CausesStay DEF SoleDelivery
  <2>3. run'.status \in {"completed", "failed"} => run'.status = run.status
    BY <1>2
  <2>4. \A t \in Deliveries : RunOf(t) /\ run'.status = run.status => RunOf(t)'
    BY <1>2 DEF RunOf, locals, Nodes
  <2> QED BY <1>2, <2>1, <2>2, <2>3, <2>4 DEF SoleDelivery, locals
<1>3. CASE SaveTaskId \/ LoseCreate
  BY <1>2, <1>3 DEF SaveTaskId, LoseCreate, rows, TypeOK
<1>4. ASSUME NEW t \in Deliveries, NEW u \in Deliveries, Redeliver(t, u)
      PROVE  SoleDelivery'
  BY <1>4 DEF Redeliver, Goto, DeliveredOnce, TypeOK
<1>5. ASSUME NEW r \in CancelRequests, CancelRequest(r) \/ LoseCancel(r)
      PROVE  SoleDelivery'
  <2>1. UNCHANGED <<edges, source, supply, nodeRun, output, locals>>
        /\ run'.status \in {run.status, "cancelled", "deleted"}
    BY <1>5 DEF CancelRequest, ReadRun, Revoke, SaveCancelled, LoseCancel, rows, TypeOK
  <2> QED BY <1>2, <2>1
<1>6. ASSUME NEW t \in Deliveries, WorkerStep(t)
      PROVE  SoleDelivery'
  <2>0. /\ pc[t] # "unsent" /\ pc[t] # "done" /\ NodesOf(t)
        /\ \A u \in Deliveries : pc[u] # "unsent" => u = t
    BY <1>6 DEF DeliveredOnce, SoleDelivery, WorkerStep, Start, Upsert, MarkSkipped,
       MarkRunning, ExecSource, CreateJob, JobCompletes, JobFails, Finish, Break, Running
  <2> USE DEF Goto
  <2>1. CASE Start(t)
    <3>1. NodesOf(t)'
      BY <2>0, <2>1 DEF Start, NodesOf, TypeOK, Nodes
    <3> QED BY <2>0, <2>1, <3>1, MarkedOnce DEF Start, Running, Ended, Deleted, TypeOK
  <2>2. CASE Upsert(t)
    <3>1. NodesOf(t)'
      BY <2>0, <2>2 DEF Upsert, NodesOf, TypeOK, Nodes, NodeRunRow
    <3> QED BY <2>0, <2>2, <3>1, MarkedOnce DEF Upsert, Running
  <2>3. CASE MarkSkipped(t)
    <3>0. at[t] \in Nodes
      BY <2>3 DEF MarkSkipped, LocalInv
    <3>1. NodesOf(t)'
      <4>1. /\ at'[t] = at[t] + 1 /\ pc'[t] = "upsert" /\ failed'[t] = "yes"
            /\ UNCHANGED <<source, output>>
        BY <2>3 DEF MarkSkipped, TypeOK
      <4>2. \A n \in Nodes :
              nodeRun'[n].status = IF n = at[t] THEN "skipped" ELSE nodeRun[n].status
        BY <2>3, <3>0 DEF MarkSkipped, TypeOK, NodeRunRow
      <4>3. PICK n \in Nodes : n < at[t] /\ nodeRun[n].status = "failed"
        BY <2>0, <2>3 DEF MarkSkipped, NodesOf
      <4>4. n < at'[t] /\ nodeRun'[n].status = "failed"
        BY <3>0, <4>1, <4>2, <4>3 DEF Nodes
      <4> QED BY <2>0, <3>0, <4>1, <4>2, <4>4 DEF NodesOf, Nodes
    <3> QED BY <2>0, <2>3, <3>0, <3>1, MarkedOnce DEF MarkSkipped, Running
  <2>4. CASE MarkRunning(t)
    <3>0. at[t] \in Nodes
      BY <2>4 DEF MarkRunning, LocalInv
    <3>1. NodesOf(t)'
      BY <2>0, <2>4, <3>0 DEF MarkRunning, NodesOf, TypeOK, Nodes, NodeRunRow
    <3> QED BY <2>0, <2>4, <3>0, <3>1, MarkedOnce DEF MarkRunning, Running
  <2>5. CASE ExecSource(t)
    <3>1. at[t] \notin supply => InputTaken(at[t])
      BY <2>5 DEF ExecSource, InputTaken
    <3> QED BY <2>0, <2>5, <3>1, NodeEndsOnce DEF ExecSource
  <2>6. CASE CreateJob(t)
    <3>1. CASE NodeFailed(t, "input") /\ ~Deleted
      <4>1. at[t] \notin source /\ failed[t] = "no" /\ at[t] \in Nodes
        BY <2>6 DEF CreateJob, LocalInv, TypeOK
      <4>2. Inputs(t) = {} \/ \E m \in Inputs(t) : ~ Exists(m)
        <5>1. pc'[t] = "upsert"
          BY <3>1 DEF NodeFailed, TypeOK
        <5> QED BY <2>6, <3>1, <5>1 DEF CreateJob, TypeOK
      <4>3. \A m \in Upstream(at[t]) : m \in Nodes /\ m < at[t]
        BY DEF LocalInv, Upstream
      <4>4. InputTaken(at[t])
        BY <2>0, <4>1, <4>2, <4>3, InputsAreAll DEF InputTaken, Exists, NodesOf
      <4> QED BY <2>0, <2>6, <3>1, <4>4, NodeEndsOnce DEF CreateJob
    <3>2. CASE NodeFailed(t, "input") /\ Deleted
      <4>1. pc' = [pc EXCEPT ![t] = "crashed"] /\ UNCHANGED <<nodeRun, at, outputs, failed>>
        BY <3>2 DEF NodeFailed, NodeLost
      <4>2. NodesOf(t)'
        BY <2>0, <2>6, <4>1 DEF CreateJob, NodesOf, TypeOK, Nodes
      <4> QED BY <2>0, <2>6, <4>1, <4>2, MarkedOnce DEF CreateJob, Ended
    <3>3. CASE Goto(t, "job") /\ UNCHANGED <<nodeRun, at, outputs, failed>>
      <4>2. NodesOf(t)'
        BY <2>0, <2>6, <3>3 DEF CreateJob, NodesOf, TypeOK, Nodes
      <4> QED BY <2>0, <2>6, <3>3, <4>2, MarkedOnce DEF CreateJob, Running
    <3> QED BY <2>6, <3>1, <3>2, <3>3 DEF CreateJob
  <2>7. CASE JobCompletes(t)
    <3>1. output' = [output EXCEPT ![at[t]] = "live"] /\ output'[at[t]] = "live"
      BY <2>7 DEF JobCompletes, LocalInv, TypeOK
    <3> QED BY <2>0, <2>7, <3>1, NodeEndsOnce DEF JobCompletes
  <2>8. CASE JobFails(t)
    <3>1. /\ output' \in {output, [output EXCEPT ![at[t]] = "live"]}
          /\ \E c \in {"operation", "notification"} : NodeFailed(t, c)
      BY <2>8 DEF JobFails
    <3> QED BY <2>0, <2>8, <3>1, NodeEndsOnce DEF JobFails
  <2>9. CASE Finish(t)
    <3>1. NodesOf(t)'
      BY <2>0, <2>9 DEF Finish, NodesOf, TypeOK, Nodes
    <3>2. RunOf(t)'
      BY <2>9 DEF Finish, RunOf, TypeOK, Nodes
    <3> QED BY <2>0, <2>9, <3>1, <3>2, MarkedOnce DEF Finish, Ended
  <2>10. CASE Break(t)
    <3>1. NodesOf(t)'
      BY <2>0, <2>10 DEF Break, NodesOf, TypeOK, Nodes, rows
    <3> QED BY <2>0, <2>10, <3>1, MarkedOnce DEF Break, Ended, rows
  <2> QED BY <1>6, <2>1, <2>2, <2>3, <2>4, <2>5, <2>6, <2>7, <2>8, <2>9, <2>10
          DEF WorkerStep
<1>7. ASSUME NEW t \in Deliveries, Terminate(t) \/ Crash(t)
      PROVE  SoleDelivery'
  <2>0. /\ pc[t] # "unsent" /\ pc[t] # "done" /\ NodesOf(t)
        /\ pc' = [pc EXCEPT ![t] = "killed"]
        /\ UNCHANGED <<edges, source, supply, rows, at, outputs, failed>>
        /\ \A u \in Deliveries : pc[u] # "unsent" => u = t
    BY <1>7 DEF Terminate, Crash, DeliveredOnce, SoleDelivery, Alive, Running, Goto
  <2>1. NodesOf(t)'
    BY <2>0 DEF NodesOf, TypeOK, Nodes, rows
  <2> QED BY <2>0, <2>1, MarkedOnce DEF Ended, rows
<1>8. CASE UserStep
  <2>1. /\ UNCHANGED <<edges, source, nodeRun, locals>> /\ supply' \subseteq supply
        /\ run'.status \in {run.status, "cancelled", "deleted"}
    BY <1>8 DEF UserStep, DeleteSource, DeleteOutput, CancelJob, DeleteWorkflow, rows,
       TypeOK
  <2>2. \A n \in Nodes : output'[n] \in {output[n], "deleted"}
    BY <1>8 DEF UserStep, DeleteSource, DeleteOutput, CancelJob, DeleteWorkflow, rows,
       TypeOK
  <2> QED BY <1>2, <2>1, <2>2
<1>9. CASE UNCHANGED vars
  BY <1>2, <1>9 DEF vars, rows
<1> QED BY <1>1, <1>3, <1>4, <1>5, <1>6, <1>7, <1>8, <1>9 DEF Next, CreateRequest

LEMMA SentStays ==
  ASSUME TypeOK, [Next]_vars, NEW u \in Deliveries, pc[u] # "unsent"
  PROVE  pc'[u] # "unsent"
<1> USE DEF TypeOK, Goto
<1>1. CASE CreateRequest \/ LoseCreate
  BY <1>1 DEF CreateRequest, Delay, SaveTaskId, LoseCreate, locals
<1>2. ASSUME NEW t \in Deliveries, NEW v \in Deliveries, Redeliver(t, v)
      PROVE  pc'[u] # "unsent"
  BY <1>2 DEF Redeliver
<1>3. ASSUME NEW r \in CancelRequests, CancelRequest(r) \/ LoseCancel(r)
      PROVE  pc'[u] # "unsent"
  BY <1>3 DEF CancelRequest, ReadRun, Revoke, SaveCancelled, LoseCancel, locals
<1>4. ASSUME NEW t \in Deliveries, WorkerStep(t)
      PROVE  pc'[u] # "unsent"
  BY <1>4 DEF WorkerStep, Start, Upsert, MarkSkipped, MarkRunning, ExecSource, CreateJob,
     JobCompletes, JobFails, Finish, Break, NodeCompleted, NodeFailed, NodeLost
<1>5. ASSUME NEW t \in Deliveries, Terminate(t) \/ Crash(t)
      PROVE  pc'[u] # "unsent"
  BY <1>5 DEF Terminate, Crash
<1>6. CASE UserStep
  BY <1>6 DEF UserStep, DeleteSource, DeleteOutput, CancelJob, DeleteWorkflow, locals
<1>7. CASE UNCHANGED vars
  BY <1>7 DEF vars, locals
<1> QED BY <1>1, <1>2, <1>3, <1>4, <1>5, <1>6, <1>7 DEF Next

\* While the message was delivered once, the rows follow that delivery.
THEOREM OnceInvCorrect == Spec => []OnceInv
<1>1. Init => OnceInv
  BY DEF Init, OnceInv, SoleDelivery, InputFailureIsTheUsers, Row
<1>2. TypeOK /\ LocalInv /\ OnceInv /\ [Next]_vars => OnceInv'
  BY SentStays, SoleDeliveryStep DEF OnceInv, DeliveredOnce
<1> QED BY <1>1, <1>2, TypeCorrect, PTL DEF Spec

\* A completed run has completed nodes only; a failed one has a failed node and
\* none still open.
THEOREM NodesCorrect == Spec => [](DeliveredOnce => RunMatchesNodes)
<1>1. TypeOK /\ OnceInv /\ DeliveredOnce => RunMatchesNodes
  <2> SUFFICES ASSUME TypeOK, SoleDelivery, run.status \in {"completed", "failed"}
               PROVE  RunMatchesNodes
    BY DEF OnceInv, RunMatchesNodes
  <2>1. PICK t \in Deliveries : RunOf(t)
    BY DEF SoleDelivery
  <2>2. NodesOf(t) /\ \A n \in Nodes : n < at[t]
    BY <2>1, NAssumption DEF SoleDelivery, RunOf, Nodes, TypeOK
  <2> QED BY <2>1, <2>2 DEF RunMatchesNodes, RunOf, NodesOf, TypeOK
<1> QED BY <1>1, OnceInvCorrect, TypeCorrect, PTL

\* Only what the user deleted or left out makes a node fail for its input.
THEOREM InputFailureCorrect == Spec => [](DeliveredOnce => InputFailureIsTheUsers)
<1>1. OnceInv => (DeliveredOnce => InputFailureIsTheUsers)
  BY DEF OnceInv, SoleDelivery
<1> QED BY <1>1, OnceInvCorrect, PTL

-----------------------------------------------------------------------------
(* The executor implements DagExecution.                                   *)

\* The status DagExecution sees of a node.
Shown(n) ==
  IF nodeRun[n].status \in {"none", "pending"} THEN "waiting" ELSE nodeRun[n].status

\* A step that leaves the edges and what is shown of every node is a stutter.
LEMMA Stutter ==
  ASSUME UNCHANGED edges, \A n \in Nodes : Shown(n)' = Shown(n)
  PROVE  [D!Next]_<<edges, [n \in Nodes |->
            IF nodeRun[n].status \in {"none", "pending"} THEN "waiting"
            ELSE nodeRun[n].status]>>
  BY DEF Shown, Nodes

\* A step that gives one node its next status is a step of DagExecution.
LEMMA NodeStep ==
  ASSUME UNCHANGED edges, edges \subseteq Nodes \X Nodes, NEW n \in Nodes,
         \A m \in Nodes : m # n => Shown(m)' = Shown(m),
         \/ /\ Shown(n) = "waiting" /\ Shown(n)' = "running"
            /\ \A m \in Upstream(n) : Shown(m) = "completed"
         \/ Shown(n) = "running" /\ Shown(n)' \in {"completed", "failed"}
         \/ /\ Shown(n) = "waiting" /\ Shown(n)' = "skipped"
            /\ \E m \in Nodes : Shown(m) = "failed"
  PROVE  D!Next
<1> DEFINE node == [m \in Nodes |-> Shown(m)]
<1>1. node' = [node EXCEPT ![n] = Shown(n)']
  BY DEF Nodes
<1>2. \A m \in Upstream(n) : m \in Nodes
  BY DEF Upstream
<1>3. node = [m \in Nodes |->
                IF nodeRun[m].status \in {"none", "pending"} THEN "waiting"
                ELSE nodeRun[m].status]
  BY DEF Shown
<1> QED BY <1>1, <1>2, <1>3
        DEF D!Next, D!Run, D!Complete, D!Fail, D!Skip, D!Nodes, D!Upstream, Nodes,
            Upstream, Shown

\* The end of a node is a step of DagExecution, or the executor broke.
LEMMA EndStep ==
  ASSUME TypeOK, LocalInv, NEW t \in Deliveries, pc[t] \in {"exec", "job"}, NodesOf(t),
         UNCHANGED edges,
         NodeCompleted(t) \/ \E c : NodeFailed(t, c)
  PROVE  D!Next \/ UNCHANGED nodeRun
<1>1. at[t] \in Nodes /\ Shown(at[t]) = "running" /\ edges \subseteq Nodes \X Nodes
  BY DEF LocalInv, NodesOf, Shown, TypeOK
<1>2. CASE Deleted
  BY <1>2 DEF NodeCompleted, NodeFailed, NodeLost
<1>3. CASE ~Deleted
  <2>1. \A n \in Nodes : n = at[t] => nodeRun'[n].status \in {"completed", "failed"}
    BY <1>1, <1>3 DEF NodeCompleted, NodeFailed, TypeOK, NodeRunRow, Row
  <2>2. \A n \in Nodes : n # at[t] => nodeRun'[n] = nodeRun[n]
    BY <1>3 DEF NodeCompleted, NodeFailed, TypeOK
  <2>3. PICK n \in Nodes : n = at[t]
    BY <1>1
  <2>4. Shown(n)' \in {"completed", "failed"}
    BY <2>1, <2>3 DEF Shown
  <2>5. \A m \in Nodes : m # n => Shown(m)' = Shown(m)
    BY <2>2, <2>3 DEF Shown
  <2> QED BY <1>1, <2>3, <2>4, <2>5, NodeStep
<1> QED BY <1>2, <1>3

LEMMA DagStep ==
  ASSUME TypeOK, LocalInv, SoleDelivery, [Next]_vars
  PROVE  D!Next \/ (UNCHANGED edges /\ \A n \in Nodes : Shown(n)' = Shown(n))
<1> USE DEF Goto
<1>1. ASSUME UNCHANGED <<edges, nodeRun>>
      PROVE  UNCHANGED edges /\ \A n \in Nodes : Shown(n)' = Shown(n)
  BY <1>1 DEF Shown
<1>2. CASE CreateRequest \/ LoseCreate \/ UserStep \/ UNCHANGED vars
  BY <1>1, <1>2 DEF CreateRequest, Delay, SaveTaskId, LoseCreate, UserStep,
     DeleteSource, DeleteOutput, CancelJob, DeleteWorkflow, rows, vars
<1>3. CASE \E t, u \in Deliveries : Redeliver(t, u)
  BY <1>1, <1>3 DEF Redeliver, rows
<1>4. CASE \E r \in CancelRequests : CancelRequest(r) \/ LoseCancel(r)
  BY <1>1, <1>4 DEF CancelRequest, ReadRun, Revoke, SaveCancelled, LoseCancel, rows
<1>5. CASE \E t \in Deliveries : Terminate(t) \/ Crash(t)
  BY <1>1, <1>5 DEF Terminate, Crash, rows
<1>6. ASSUME NEW t \in Deliveries, WorkerStep(t)
      PROVE  D!Next \/ (UNCHANGED edges /\ \A n \in Nodes : Shown(n)' = Shown(n))
  <2>0. /\ NodesOf(t) /\ edges \subseteq Nodes \X Nodes
        /\ pc[t] \in {"mark", "exec", "job"} => at[t] \in Nodes
    BY <1>6 DEF SoleDelivery, LocalInv, TypeOK, WorkerStep, Start, Upsert, MarkSkipped,
       MarkRunning, ExecSource, CreateJob, JobCompletes, JobFails, Finish, Break
  <2>1. CASE Start(t) \/ Finish(t) \/ Break(t)
    BY <1>1, <2>1 DEF Start, Finish, Break, rows
  <2>2. CASE Upsert(t)
    BY <2>0, <2>2 DEF Upsert, NodesOf, Shown, TypeOK, NodeRunRow
  <2>3. CASE MarkSkipped(t)
    <3>1. PICK n \in Nodes : n = at[t]
      BY <2>0, <2>3 DEF MarkSkipped
    <3>2. \E m \in Nodes : Shown(m) = "failed"
      BY <2>0, <2>3 DEF MarkSkipped, NodesOf, Shown
    <3>3. Shown(n) = "waiting" /\ Shown(n)' = "skipped"
      BY <2>0, <2>3, <3>1 DEF MarkSkipped, NodesOf, Shown, TypeOK, NodeRunRow
    <3>4. \A m \in Nodes : m # n => Shown(m)' = Shown(m)
      BY <2>3, <3>1 DEF MarkSkipped, Shown, TypeOK
    <3>5. UNCHANGED edges
      BY <2>3 DEF MarkSkipped
    <3> QED BY <2>0, <3>2, <3>3, <3>4, <3>5, NodeStep
  <2>4. CASE MarkRunning(t)
    <3>1. PICK n \in Nodes : n = at[t]
      BY <2>0, <2>4 DEF MarkRunning
    <3>2. \A m \in Upstream(n) : Shown(m) = "completed"
      BY <2>0, <2>4, <3>1 DEF MarkRunning, NodesOf, Shown, LocalInv, Upstream
    <3>3. Shown(n) = "waiting" /\ Shown(n)' = "running"
      BY <2>0, <2>4, <3>1 DEF MarkRunning, NodesOf, Shown, TypeOK, NodeRunRow
    <3>4. \A m \in Nodes : m # n => Shown(m)' = Shown(m)
      BY <2>4, <3>1 DEF MarkRunning, Shown, TypeOK
    <3>5. UNCHANGED edges
      BY <2>4 DEF MarkRunning
    <3> QED BY <2>0, <3>2, <3>3, <3>4, <3>5, NodeStep
  <2>5. CASE ExecSource(t)
    <3>1. UNCHANGED edges /\ (NodeCompleted(t) \/ \E c : NodeFailed(t, c))
      BY <2>5 DEF ExecSource
    <3> QED BY <1>1, <2>0, <2>5, <3>1, EndStep DEF ExecSource
  <2>6. CASE CreateJob(t)
    <3>1. CASE NodeFailed(t, "input")
      BY <1>1, <2>0, <2>6, <3>1, EndStep DEF CreateJob
    <3>2. CASE UNCHANGED nodeRun
      BY <1>1, <2>6, <3>2 DEF CreateJob
    <3> QED BY <2>6, <3>1, <3>2 DEF CreateJob
  <2>7. CASE JobCompletes(t) \/ JobFails(t)
    <3>1. UNCHANGED edges /\ (NodeCompleted(t) \/ \E c : NodeFailed(t, c))
      BY <2>7 DEF JobCompletes, JobFails
    <3> QED BY <1>1, <2>0, <2>7, <3>1, EndStep DEF JobCompletes, JobFails
  <2> QED BY <1>6, <2>1, <2>2, <2>3, <2>4, <2>5, <2>6, <2>7 DEF WorkerStep
<1> QED BY <1>2, <1>3, <1>4, <1>5, <1>6 DEF Next

\* Unless its message is redelivered, a run does what DagExecution promises: a
\* node runs only after everything it takes its input from, ends once, and is
\* skipped only because some node failed.
THEOREM DagCorrect == Spec /\ []DeliveredOnce => ImplementsDag
<1>1. Init => D!Init
  BY DEF Init, D!Init, D!Nodes, Nodes, Row
<1>2. TypeOK /\ LocalInv /\ OnceInv /\ DeliveredOnce /\ [Next]_vars
        => [D!Next]_<<edges, [n \in Nodes |->
              IF nodeRun[n].status \in {"none", "pending"} THEN "waiting"
              ELSE nodeRun[n].status]>>
  BY DagStep, Stutter DEF OnceInv
<1> QED BY <1>1, <1>2, TypeCorrect, OnceInvCorrect, PTL DEF Spec, ImplementsDag, D!Spec

=============================================================================
