---------------------------- MODULE WorkflowRun ----------------------------
(***************************************************************************)
(* One run of a workflow: the request that submits it, the requests that   *)
(* cancel it, the deliveries of run_workflow that execute its graph with   *)
(* workflows/dag_executor.py, and the user, who deletes datasets, cancels  *)
(* the jobs of nodes, or deletes the workflow meanwhile.                   *)
(*                                                                         *)
(* Nodes are named by their place in the order _topological_sort returns,  *)
(* so every edge goes to a larger number (see module WorkflowDefinition).  *)
(* The definition is read once, when the task loads the run, and never     *)
(* again.                                                                  *)
(*                                                                         *)
(* execute_processing_job is one step here, with the outcomes module       *)
(* ProcessingJob shows it to have.  Status events are sent best effort and *)
(* change nothing, so _publish has no step of its own.                     *)
(***************************************************************************)
EXTENDS Integers

CONSTANTS
  N,               \* nodes of the graph
  Deliveries,      \* deliveries of the run_workflow message
  CancelRequests   \* DELETE requests for this run

ASSUME NAssumption == N \in Nat

VARIABLES
  edges,      \* the edges of the definition (fixed)
  source,     \* the nodes of type source (fixed)
  supply,     \* source datasets that still exist
  run,        \* the WorkflowRun row
  nodeRun,    \* the WorkflowNodeRun rows: status and cause of failure
  job,        \* the latest ProcessingJob row made for each node
  output,     \* the output dataset of each operation
  view,       \* where the submitting request is
  cancel,     \* where each cancelling request is
  revoked,    \* the revoke broadcast has been sent
  pc,         \* where each delivery is
  at,         \* the node each delivery is at
  outputs,    \* node_outputs of each delivery
  failed      \* the local flag of each delivery

rows == <<run, nodeRun, job, output>>
requests == <<view, cancel, revoked>>
locals == <<pc, at, outputs, failed>>
vars == <<edges, source, supply, rows, requests, locals>>

-----------------------------------------------------------------------------
Nodes == 1 .. N

TerminalRun == {"completed", "failed", "cancelled"}
Running == {"upsert", "mark", "exec", "job"}
Ended == {"done", "crashed", "killed"}
Alive == {"queued"} \cup Running

Row(status, cause) == [status |-> status, cause |-> cause]

Init ==
  /\ edges \in SUBSET {e \in Nodes \X Nodes : e[1] < e[2]}
  /\ source \in SUBSET Nodes
  /\ supply = source
  \* WorkflowRunListCreateView.create has inserted the row.
  /\ run = [status |-> "pending", taskId |-> "none"]
  /\ nodeRun = [n \in Nodes |-> Row("none", "none")]
  /\ job = [n \in Nodes |-> "none"]
  /\ output = [n \in Nodes |-> "none"]
  /\ view = "inserted"
  /\ cancel = [r \in CancelRequests |-> "idle"]
  /\ revoked = FALSE
  /\ pc = [t \in Deliveries |-> "unsent"]
  /\ at = [t \in Deliveries |-> 1]
  /\ outputs = [t \in Deliveries |-> {}]
  /\ failed = [t \in Deliveries |-> "no"]

Deleted == run.status = "deleted"

Goto(t, label) == pc' = [pc EXCEPT ![t] = label]

-----------------------------------------------------------------------------
(* The requests.                                                           *)

Delay(t) ==
  /\ view = "inserted" /\ pc[t] = "unsent"
  /\ view' = "sent"
  /\ Goto(t, "queued")
  /\ UNCHANGED <<edges, source, supply, rows, cancel, revoked, at, outputs, failed>>

\* save(update_fields) of a row that is gone raises.
SaveTaskId ==
  /\ view = "sent"
  /\ view' = "answered"
  /\ run' = IF Deleted THEN run ELSE [run EXCEPT !.taskId = "id"]
  /\ UNCHANGED <<edges, source, supply, nodeRun, job, output, cancel, revoked, locals>>

\* The broker is down, or the web process dies.
LoseCreate ==
  /\ view \in {"inserted", "sent"}
  /\ view' = IF view = "inserted" THEN "lost" ELSE "answered"
  /\ UNCHANGED <<edges, source, supply, rows, cancel, revoked, locals>>

Redeliver(t, u) ==
  /\ pc[t] = "queued" /\ pc[u] = "unsent"
  /\ Goto(u, "queued")
  /\ UNCHANGED <<edges, source, supply, rows, requests, at, outputs, failed>>

ReadRun(r) ==
  /\ cancel[r] = "idle"
  /\ ~Deleted
  /\ cancel' = [cancel EXCEPT ![r] =
       IF run.status \in TerminalRun THEN "refused"
       ELSE IF run.taskId # "none" THEN "revoke" ELSE "save"]
  /\ UNCHANGED <<edges, source, supply, rows, view, revoked, locals>>

Revoke(r) ==
  /\ cancel[r] = "revoke"
  /\ revoked' = TRUE
  /\ cancel' = [cancel EXCEPT ![r] = "save"]
  /\ UNCHANGED <<edges, source, supply, rows, view, locals>>

SaveCancelled(r) ==
  /\ cancel[r] = "save"
  /\ cancel' = [cancel EXCEPT ![r] = "cancelled"]
  /\ run' = IF Deleted THEN run ELSE [run EXCEPT !.status = "cancelled"]
  /\ UNCHANGED <<edges, source, supply, nodeRun, job, output, view, revoked, locals>>

LoseCancel(r) ==
  /\ cancel[r] \in {"revoke", "save"}
  /\ cancel' = [cancel EXCEPT ![r] = "lost"]
  /\ UNCHANGED <<edges, source, supply, rows, view, revoked, locals>>

-----------------------------------------------------------------------------
(* A delivery of run_workflow.                                             *)

Upstream(n) == {m \in Nodes : <<m, n>> \in edges}

\* A statement on rows that the deletion of the workflow took away raises, out
\* of the executor; the handler of the task then updates no row.
Break(t) ==
  /\ pc[t] \in {"upsert", "mark"}
  /\ Deleted
  /\ Goto(t, "crashed")
  /\ UNCHANGED <<edges, source, supply, rows, requests, at, outputs, failed>>

Start(t) ==
  /\ pc[t] = "queued"
  /\ run' = IF Deleted THEN run
            ELSE [run EXCEPT !.status = "running", !.taskId = "id"]
  /\ Goto(t, IF Deleted THEN "done" ELSE "upsert")
  /\ UNCHANGED <<edges, source, supply, nodeRun, job, output, requests, at, outputs,
                 failed>>

\* update_or_create resets the status of a row an earlier delivery left.
Upsert(t) ==
  /\ pc[t] = "upsert" /\ ~Deleted
  /\ at[t] \in Nodes
  /\ nodeRun' = [nodeRun EXCEPT ![at[t]].status = "pending"]
  /\ Goto(t, "mark")
  /\ UNCHANGED <<edges, source, supply, run, job, output, requests, at, outputs,
                 failed>>

MarkSkipped(t) ==
  /\ pc[t] = "mark" /\ ~Deleted
  /\ failed[t] = "yes"
  /\ nodeRun' = [nodeRun EXCEPT ![at[t]].status = "skipped"]
  /\ at' = [at EXCEPT ![t] = @ + 1]
  /\ Goto(t, "upsert")
  /\ UNCHANGED <<edges, source, supply, run, job, output, requests, outputs, failed>>

\* Mutant: nodes after a failure are run all the same.
MarkRunningAnyway(t) ==
  /\ pc[t] = "mark" /\ ~Deleted
  /\ nodeRun' = [nodeRun EXCEPT ![at[t]].status = "running"]
  /\ Goto(t, "exec")
  /\ UNCHANGED <<edges, source, supply, run, job, output, requests, at, outputs,
                 failed>>

MarkRunning(t) ==
  /\ pc[t] = "mark" /\ ~Deleted
  /\ failed[t] = "no"
  /\ nodeRun' = [nodeRun EXCEPT ![at[t]].status = "running"]
  /\ Goto(t, "exec")
  /\ UNCHANGED <<edges, source, supply, run, job, output, requests, at, outputs,
                 failed>>

\* Saving a node row that is gone raises, and so does the except clause.
NodeLost(t) == Goto(t, "crashed") /\ UNCHANGED <<nodeRun, at, outputs, failed>>

NodeCompleted(t) ==
  IF Deleted THEN NodeLost(t)
  ELSE /\ nodeRun' = [nodeRun EXCEPT ![at[t]].status = "completed"]
       /\ outputs' = [outputs EXCEPT ![t] = @ \cup {at[t]}]
       /\ at' = [at EXCEPT ![t] = @ + 1]
       /\ Goto(t, "upsert")
       /\ UNCHANGED failed

\* Mutant: the except clause forgets the flag.
NodeFailedUnflagged(t, cause) ==
  IF Deleted THEN NodeLost(t)
  ELSE /\ nodeRun' = [nodeRun EXCEPT ![at[t]] = Row("failed", cause)]
       /\ at' = [at EXCEPT ![t] = @ + 1]
       /\ Goto(t, "upsert")
       /\ UNCHANGED <<outputs, failed>>

\* The except clause of the node.
NodeFailed(t, cause) ==
  IF Deleted THEN NodeLost(t)
  ELSE /\ nodeRun' = [nodeRun EXCEPT ![at[t]] = Row("failed", cause)]
       /\ failed' = [failed EXCEPT ![t] = "yes"]
       /\ at' = [at EXCEPT ![t] = @ + 1]
       /\ Goto(t, "upsert")
       /\ UNCHANGED outputs

ExecSource(t) ==
  /\ pc[t] = "exec"
  /\ at[t] \in source
  /\ IF at[t] \in supply THEN NodeCompleted(t) ELSE NodeFailed(t, "input")
  /\ UNCHANGED <<edges, source, supply, run, job, output, requests>>

\* _resolve_inputs, by what has been put in node_outputs.
Inputs(t) == Upstream(at[t]) \cap outputs[t]

Exists(n) == IF n \in source THEN n \in supply ELSE output[n] = "live"

\* The job is inserted as processing, then its inputs are attached: that fails
\* when one of them was deleted, and the job row stays.
CreateJob(t) ==
  /\ pc[t] = "exec"
  /\ at[t] \notin source
  /\ IF Inputs(t) = {}
     THEN NodeFailed(t, "input") /\ UNCHANGED job
     ELSE /\ job' = [job EXCEPT ![at[t]] = "processing"]
          /\ IF ~Deleted /\ \A m \in Inputs(t) : Exists(m)
             THEN Goto(t, "job") /\ UNCHANGED <<nodeRun, at, outputs, failed>>
             ELSE NodeFailed(t, "input")
  /\ UNCHANGED <<edges, source, supply, run, output, requests>>

\* execute_processing_job and what follows it.  The executor looks at its own
\* copy of the job, not at the row another request may have changed.
JobCompletes(t) ==
  /\ pc[t] = "job"
  /\ job' = [job EXCEPT ![at[t]] = "completed"]
  /\ output' = [output EXCEPT ![at[t]] = "live"]
  /\ NodeCompleted(t)
  /\ UNCHANGED <<edges, source, supply, run, requests>>

\* The operation raises; or the last notification does, when the output is
\* there; or the first one, which is outside the try and leaves the row.
JobFails(t) ==
  /\ pc[t] = "job"
  /\ \/ /\ job' = [job EXCEPT ![at[t]] = "failed"]
        /\ UNCHANGED output
        /\ \E cause \in {"operation", "notification"} : NodeFailed(t, cause)
     \/ /\ job' = [job EXCEPT ![at[t]] = "failed"]
        /\ output' = [output EXCEPT ![at[t]] = "live"]
        /\ NodeFailed(t, "notification")
     \/ /\ UNCHANGED <<job, output>>
        /\ NodeFailed(t, "notification")
  /\ UNCHANGED <<edges, source, supply, run, requests>>

\* Mutant: the last status stays on the executor's copy of the run.
FinishUnsaved(t) ==
  /\ pc[t] = "upsert" /\ ~Deleted
  /\ at[t] \notin Nodes
  /\ Goto(t, "done")
  /\ UNCHANGED <<edges, source, supply, rows, requests, at, outputs, failed>>

Finish(t) ==
  /\ pc[t] = "upsert" /\ ~Deleted
  /\ at[t] \notin Nodes
  /\ run' = [run EXCEPT !.status =
               IF failed[t] = "yes" THEN "failed" ELSE "completed"]
  /\ Goto(t, "done")
  /\ UNCHANGED <<edges, source, supply, nodeRun, job, output, requests, at, outputs,
                 failed>>

Terminate(t) ==
  /\ revoked
  /\ pc[t] \in Alive
  /\ Goto(t, "killed")
  /\ UNCHANGED <<edges, source, supply, rows, requests, at, outputs, failed>>

Crash(t) ==
  /\ pc[t] \in Running
  /\ Goto(t, "killed")
  /\ UNCHANGED <<edges, source, supply, rows, requests, at, outputs, failed>>

-----------------------------------------------------------------------------
(* The user.                                                               *)

DeleteSource(n) ==
  /\ n \in supply
  /\ supply' = supply \ {n}
  /\ UNCHANGED <<edges, source, rows, requests, locals>>

DeleteOutput(n) ==
  /\ output[n] = "live"
  /\ output' = [output EXCEPT ![n] = "deleted"]
  /\ UNCHANGED <<edges, source, supply, run, nodeRun, job, requests, locals>>

\* ProcessingJobViewSet.destroy: the job of a node has no task id, so nothing is
\* revoked.
CancelJob(n) ==
  /\ job[n] = "processing"
  /\ job' = [job EXCEPT ![n] = "failed"]
  /\ UNCHANGED <<edges, source, supply, run, nodeRun, output, requests, locals>>

\* CASCADE takes the run and its node runs (nodeRun keeps what they last
\* showed); jobs and datasets stay.
DeleteWorkflow ==
  /\ ~Deleted
  /\ run' = [run EXCEPT !.status = "deleted"]
  /\ UNCHANGED <<edges, source, supply, nodeRun, job, output, requests, locals>>

-----------------------------------------------------------------------------
CreateRequest == (\E t \in Deliveries : Delay(t)) \/ SaveTaskId

CancelRequest(r) == ReadRun(r) \/ Revoke(r) \/ SaveCancelled(r)

WorkerStep(t) ==
  \/ Start(t) \/ Upsert(t) \/ MarkSkipped(t) \/ MarkRunning(t)
  \/ ExecSource(t) \/ CreateJob(t) \/ JobCompletes(t) \/ JobFails(t)
  \/ Finish(t) \/ Break(t)

UserStep ==
  \/ \E n \in Nodes : DeleteSource(n) \/ DeleteOutput(n) \/ CancelJob(n)
  \/ DeleteWorkflow

Next ==
  \/ CreateRequest \/ LoseCreate
  \/ \E t, u \in Deliveries : Redeliver(t, u)
  \/ \E r \in CancelRequests : CancelRequest(r) \/ LoseCancel(r)
  \/ \E t \in Deliveries : WorkerStep(t) \/ Terminate(t) \/ Crash(t)
  \/ UserStep

\* Requests run to their end and workers run what they were given; see
\* ProcessingJob.
Fairness ==
  /\ WF_vars(CreateRequest)
  /\ \A r \in CancelRequests : WF_vars(Revoke(r) \/ SaveCancelled(r))
  /\ \A t \in Deliveries : WF_vars(WorkerStep(t))

Spec == Init /\ [][Next]_vars

FairSpec == Spec /\ Fairness
-----------------------------------------------------------------------------
(* Properties.                                                             *)

NodeStatus == {"none", "pending", "running", "completed", "failed", "skipped"}
NodeRunRow == [status : NodeStatus,
               cause : {"none", "input", "operation", "notification"}]
RunStatus == {"pending", "running", "deleted"} \cup TerminalRun

TypeOK ==
  /\ edges \subseteq Nodes \X Nodes
  /\ source \subseteq Nodes /\ supply \subseteq source
  /\ run \in [status : RunStatus, taskId : {"none", "id"}]
  /\ nodeRun \in [Nodes -> NodeRunRow]
  /\ job \in [Nodes -> {"none", "processing", "completed", "failed"}]
  /\ output \in [Nodes -> {"none", "live", "deleted"}]
  /\ view \in {"inserted", "sent", "answered", "lost"}
  /\ cancel \in [CancelRequests ->
       {"idle", "revoke", "save", "cancelled", "refused", "lost"}]
  /\ revoked \in BOOLEAN
  /\ pc \in [Deliveries -> {"unsent"} \cup Alive \cup Ended]
  /\ at \in [Deliveries -> 1 .. N + 1]
  /\ outputs \in [Deliveries -> SUBSET Nodes]
  /\ failed \in [Deliveries -> {"no", "yes"}]

AtRest ==
  /\ view \in {"answered", "lost"}
  /\ \A t \in Deliveries : pc[t] \notin Alive
  /\ \A r \in CancelRequests : cancel[r] \notin {"revoke", "save"}

Killed == \E t \in Deliveries : pc[t] = "killed"

\* What the run says of itself and what its nodes say agree: a completed run has
\* completed nodes only, a failed one has a failed node and none still open
\* (dag_executor.py skips what comes after a failure instead of leaving it).
RunMatchesNodes ==
  /\ run.status = "completed" => \A n \in Nodes : nodeRun[n].status = "completed"
  /\ run.status = "failed" =>
       /\ \E n \in Nodes : nodeRun[n].status = "failed"
       /\ \A n \in Nodes : nodeRun[n].status \in {"completed", "failed", "skipped"}

\* A node never lacks an input because of the executor: only a dataset the user
\* deleted, or an operation drawn without inputs, makes it fail that way
\* (whatever follows a failure is skipped, so node_outputs has every upstream).
InputTaken(n) ==
  \/ n \in source \ supply
  \/ n \notin source /\ Upstream(n) = {}
  \/ \E m \in Upstream(n) : m \in source \ supply \/ output[m] = "deleted"

InputFailureIsTheUsers ==
  \A n \in Nodes : nodeRun[n] = Row("failed", "input") => InputTaken(n)

\* A run is left unfinished only when its message was never sent or its worker
\* process was killed: tasks.py:149, "Never leave a run orphaned in RUNNING if
\* the executor itself breaks".
OrphanedOnlyIfKilled ==
  AtRest /\ run.status \in {"pending", "running"} => view = "lost" \/ Killed

\* Without redelivery the executor implements the promise of DagExecution.
D == INSTANCE DagExecution WITH
       node <- [n \in Nodes |->
                  IF nodeRun[n].status \in {"none", "pending"} THEN "waiting"
                  ELSE nodeRun[n].status]

ImplementsDag == D!Spec

\* Every run ends, unless its message or its worker is lost.
RunSettles ==
  <>[](run.status \in TerminalRun \cup {"deleted"} \/ view = "lost" \/ Killed)

=============================================================================
