--------------------------- MODULE ProcessingJob ---------------------------
(***************************************************************************)
(* One geoprocessing job, from the POST that creates it to its last writer. *)
(*                                                                         *)
(* Four kinds of actors share the job row without a lock or a version:     *)
(*   - the request that creates it      (views/processing_views.py create) *)
(*   - the requests that cancel it      (views/processing_views.py destroy)*)
(*   - the Celery deliveries of its task (tasks.py run_processing_tool and *)
(*     workflows/job_executor.py execute_processing_job)                   *)
(*   - the user, who sees and may delete every dataset node the job makes  *)
(* Every save() names its columns (update_fields), so an action writes     *)
(* exactly the columns the code saves, from what the actor read before.    *)
(*                                                                         *)
(* Statements of the database succeed; what may fail is what the code runs *)
(* between them: the operation, the broker, the notification transport,    *)
(* the worker process.  An operation that succeeds yields some feature.    *)
(***************************************************************************)
EXTENDS Integers

CONSTANTS
  Deliveries,      \* deliveries of the job's Celery message; one is sent, the
                   \* others are redeliveries by the Redis transport
  CancelRequests,  \* DELETE requests for this job
  OpProgress,      \* the percentages the tool's operation reports
  PROGRESS_STEP,   \* progress.py: the throttle of the reporter
  NoDelivery       \* the null of output_dataset

ASSUME DeliveriesAssumption == NoDelivery \notin Deliveries
ASSUME ProgressAssumption ==
  OpProgress \subseteq 0 .. 99 /\ PROGRESS_STEP \in Nat \ {0}

VARIABLES
  job,       \* the ProcessingJob row
  view,      \* where the creating request is
  cancel,    \* where each cancelling request is
  revoked,   \* the revoke broadcast for the task id has been sent
  pc,        \* where each delivery is
  last,      \* ProgressReporter._last_reported of each delivery
  staging,   \* the "__processing_staging__" dataset of each delivery
  features,  \* where the features computed by each delivery are
  dataset,   \* the output dataset (node, dataset, tileset) of each delivery
  stored,    \* object processing/<job>/output.tif is in the bucket
  stream     \* the last terminal event published to the user

vars == <<job, view, cancel, revoked, pc, last, staging, features, dataset,
          stored, stream>>

-----------------------------------------------------------------------------
Status == {"pending", "processing", "completed", "failed"}
Terminal == {"completed", "failed"}

\* The columns of ProcessingJob the actors write.
\* "makes" stands for tool_name: what the tool registered by that name produces.
JobRow == [makes : {"vector", "raster"}, status : Status, progress : 0 .. 100,
           error : {"none", "cancelled", "operation", "notification"},
           completedAt : {"null", "now"}, taskId : {"none", "id"},
           output : Deliveries \cup {NoDelivery}]

\* A delivery: not sent; waiting in the broker or a prefetch buffer; running
\* (each value names the statement to run next); ended.
Running == {"report0", "begin", "op", "output", "complete", "announce",
            "fail", "failLate", "reportFail"}

Ended == {"done", "aborted", "killed"}
Alive == {"queued"} \cup Running

Init ==
  \* processing_views.create has inserted the row and its input datasets.
  /\ \E m \in {"vector", "raster"} :
       job = [makes |-> m, status |-> "pending", progress |-> 0, error |-> "none",
              completedAt |-> "null", taskId |-> "none", output |-> NoDelivery]
  /\ view = "inserted"
  /\ cancel = [r \in CancelRequests |-> "idle"]
  /\ revoked = FALSE
  /\ pc = [t \in Deliveries |-> "unsent"]
  /\ last = [t \in Deliveries |-> -PROGRESS_STEP]
  /\ staging = [t \in Deliveries |-> "none"]
  /\ features = [t \in Deliveries |-> "none"]
  /\ dataset = [t \in Deliveries |-> "absent"]
  /\ stored = FALSE
  /\ stream = "none"

-----------------------------------------------------------------------------
(* The creating request.                                                   *)

Delay(t) ==
  /\ view = "inserted"
  /\ pc[t] = "unsent"
  /\ view' = "sent"
  /\ pc' = [pc EXCEPT ![t] = "queued"]
  /\ UNCHANGED <<job, cancel, revoked, last, staging, features, dataset,
                 stored, stream>>

SaveTaskId ==
  /\ view = "sent"
  /\ view' = "answered"
  /\ job' = [job EXCEPT !.taskId = "id"]
  /\ UNCHANGED <<cancel, revoked, pc, last, staging, features, dataset,
                 stored, stream>>

\* delay() raises because the broker is down, or the web process dies.
LoseCreate ==
  /\ view \in {"inserted", "sent"}
  /\ view' = IF view = "inserted" THEN "lost" ELSE "answered"
  /\ UNCHANGED <<job, cancel, revoked, pc, last, staging, features, dataset,
                 stored, stream>>

\* A message that waits unacknowledged longer than the visibility timeout of
\* the Redis transport is delivered again (acks are early: a delivery that
\* started is never repeated).
Redeliver(t, u) ==
  /\ pc[t] = "queued"
  /\ pc[u] = "unsent"
  /\ pc' = [pc EXCEPT ![u] = "queued"]
  /\ UNCHANGED <<job, view, cancel, revoked, last, staging, features, dataset,
                 stored, stream>>

-----------------------------------------------------------------------------
(* A cancelling request: it decides on the row it read, and saves without  *)
(* reading again.                                                          *)

ReadJob(r) ==
  /\ cancel[r] = "idle"
  /\ cancel' = [cancel EXCEPT ![r] =
       IF job.status \in Terminal THEN "refused"
       ELSE IF job.taskId # "none" THEN "revoke" ELSE "save"]
  /\ UNCHANGED <<job, view, revoked, pc, last, staging, features, dataset,
                 stored, stream>>

Revoke(r) ==
  /\ cancel[r] = "revoke"
  /\ revoked' = TRUE
  /\ cancel' = [cancel EXCEPT ![r] = "save"]
  /\ UNCHANGED <<job, view, pc, last, staging, features, dataset, stored,
                 stream>>

SaveCancelled(r) ==
  /\ cancel[r] = "save"
  /\ job' = [job EXCEPT !.status = "failed", !.error = "cancelled"]
  /\ cancel' = [cancel EXCEPT ![r] = "cancelled"]
  /\ UNCHANGED <<view, revoked, pc, last, staging, features, dataset, stored,
                 stream>>

\* The broker refuses the broadcast, or the web process dies.
LoseCancel(r) ==
  /\ cancel[r] \in {"revoke", "save"}
  /\ cancel' = [cancel EXCEPT ![r] = "lost"]
  /\ UNCHANGED <<job, view, revoked, pc, last, staging, features, dataset,
                 stored, stream>>

-----------------------------------------------------------------------------
(* A delivery of run_processing_tool.                                      *)

Goto(t, label) == pc' = [pc EXCEPT ![t] = label]

Start(t) ==
  /\ pc[t] = "queued"
  /\ job' = [job EXCEPT !.status = "processing", !.taskId = "id"]
  /\ Goto(t, "report0")
  /\ UNCHANGED <<view, cancel, revoked, last, staging, features, dataset,
                 stored, stream>>

\* Mutant: reports are not throttled by what was reported before.
PassesAlways(t, p) == TRUE

\* ProgressReporter.report of a percentage p: throttled reports do nothing.
Passes(t, p) == p - last[t] >= PROGRESS_STEP \/ p = 100

\* reporter.report(0) is outside the try: if the notification raises, the
\* exception leaves the task and nothing more is written.
ReportStart(t) ==
  /\ pc[t] = "report0"
  /\ Passes(t, 0)
  /\ job' = [job EXCEPT !.progress = 0]
  /\ last' = [last EXCEPT ![t] = 0]
  /\ \E next \in {"begin", "aborted"} : Goto(t, next)
  /\ UNCHANGED <<view, cancel, revoked, staging, features, dataset, stored,
                 stream>>

\* The payload is built and the operation begins.  A tool with vector output
\* first creates its staging dataset, in a transaction of its own.
BeginOp(t) ==
  /\ pc[t] = "begin"
  /\ staging' = IF job.makes = "vector"
                THEN [staging EXCEPT ![t] = "live"] ELSE staging
  /\ Goto(t, "op")
  /\ UNCHANGED <<job, view, cancel, revoked, last, features, dataset, stored,
                 stream>>

\* A report of the operation; its notification may raise, inside the try.
Report(t, p) ==
  /\ pc[t] = "op"
  /\ Passes(t, p)
  /\ job' = [job EXCEPT !.progress = p]
  /\ last' = [last EXCEPT ![t] = p]
  /\ \E next \in {"op", "fail"} : Goto(t, next)
  /\ UNCHANGED <<view, cancel, revoked, staging, features, dataset, stored,
                 stream>>

\* Mutant: the raster is computed and not uploaded.
FinishOpNoUpload(t) ==
  /\ pc[t] = "op"
  /\ Goto(t, "output")
  /\ UNCHANGED <<job, view, cancel, revoked, last, staging, features, dataset,
                 stored, stream>>

\* bulk_create of the features; their foreign key fails when the staging dataset
\* has been deleted.
InsertFeatures(t) ==
  /\ job.makes = "vector"
  /\ staging[t] = "live"
  /\ features' = [features EXCEPT ![t] = "staging"]
  /\ UNCHANGED stored

\* The raster goes to the key of the job, the same for every delivery.
UploadRaster ==
  /\ job.makes = "raster"
  /\ stored' = TRUE
  /\ UNCHANGED features

\* The operation has computed its result and put it where the output will look.
FinishOp(t) ==
  /\ pc[t] = "op"
  /\ InsertFeatures(t) \/ UploadRaster
  /\ Goto(t, "output")
  /\ UNCHANGED <<job, view, cancel, revoked, last, staging, dataset, stream>>

\* Mutant: an exception of the operation is swallowed.
RaiseSwallowed(t) ==
  /\ pc[t] \in {"begin", "op", "output"}
  /\ Goto(t, "complete")
  /\ UNCHANGED <<job, view, cancel, revoked, last, staging, features, dataset,
                 stored, stream>>

\* The payload, an operation or the output transaction raises; the open
\* transaction rolls back, and what earlier statements committed stays.
Raise(t) ==
  /\ pc[t] \in {"begin", "op", "output"}
  /\ Goto(t, "fail")
  /\ UNCHANGED <<job, view, cancel, revoked, last, staging, features, dataset,
                 stored, stream>>

\* Mutant: deleting the staging dataset first cascades to its features.
MovedLate(f) == IF f = "staging" THEN "none" ELSE f

\* Feature.objects.filter(dataset=staging).update(dataset=output)
Moved(f) == IF f = "staging" THEN "output" ELSE f

\* One transaction: create node, dataset and tileset, move the features out of
\* the staging dataset, delete it, point the job at the output.
CreateOutputDataset(t) ==
  /\ pc[t] = "output"
  /\ dataset' = [dataset EXCEPT ![t] = "live"]
  /\ features' = [features EXCEPT ![t] = Moved(@)]
  /\ staging' = [staging EXCEPT ![t] = IF @ = "live" THEN "gone" ELSE @]
  /\ job' = [job EXCEPT !.output = t]
  /\ Goto(t, "complete")
  /\ UNCHANGED <<view, cancel, revoked, last, stored, stream>>

Complete(t) ==
  /\ pc[t] = "complete"
  /\ job' = [job EXCEPT !.status = "completed", !.completedAt = "now",
                        !.progress = 100]
  /\ Goto(t, "announce")
  /\ UNCHANGED <<view, cancel, revoked, last, staging, features, dataset,
                 stored, stream>>

\* reporter.complete is still inside the try.
Announce(t) ==
  /\ pc[t] = "announce"
  /\ job' = [job EXCEPT !.progress = 100]
  /\ \/ stream' = "complete" /\ Goto(t, "done")
     \/ UNCHANGED stream /\ Goto(t, "failLate")
  /\ UNCHANGED <<view, cancel, revoked, last, staging, features, dataset,
                 stored>>

\* Mutant: the except clause reports the failure and does not save it.
FailUnsaved(t) ==
  /\ pc[t] \in {"fail", "failLate"}
  /\ Goto(t, "reportFail")
  /\ UNCHANGED <<job, view, cancel, revoked, last, staging, features, dataset,
                 stored, stream>>

\* The except clause.
Fail(t) ==
  /\ pc[t] \in {"fail", "failLate"}
  /\ job' = [job EXCEPT !.status = "failed", !.completedAt = "now",
       !.error = IF pc[t] = "fail" THEN "operation" ELSE "notification"]
  /\ Goto(t, "reportFail")
  /\ UNCHANGED <<view, cancel, revoked, last, staging, features, dataset,
                 stored, stream>>

ReportFail(t) ==
  /\ pc[t] = "reportFail"
  /\ stream' \in {"failed", stream}
  /\ Goto(t, "done")
  /\ UNCHANGED <<job, view, cancel, revoked, last, staging, features, dataset,
                 stored>>

\* The worker obeys the broadcast, whenever it gets it: a queued delivery is
\* discarded, the process of a running one is killed.
Terminate(t) ==
  /\ revoked
  /\ pc[t] \in Alive
  /\ Goto(t, "killed")
  /\ UNCHANGED <<job, view, cancel, revoked, last, staging, features, dataset,
                 stored, stream>>

\* The worker process dies (out of memory, eviction of the pod).
Crash(t) ==
  /\ pc[t] \in Running
  /\ Goto(t, "killed")
  /\ UNCHANGED <<job, view, cancel, revoked, last, staging, features, dataset,
                 stored, stream>>

-----------------------------------------------------------------------------
(* The user deletes a node from the dataset tree.                          *)

DeleteStaging(t) ==
  /\ staging[t] = "live"
  /\ staging' = [staging EXCEPT ![t] = "gone"]
  /\ features' = [features EXCEPT ![t] = "withdrawn"]
  /\ UNCHANGED <<job, view, cancel, revoked, pc, last, dataset, stored, stream>>

\* SET_NULL clears the job's columns; the object is deleted after the commit,
\* and an error of the object store is only logged.
DeleteOutput(t) ==
  /\ dataset[t] = "live"
  /\ dataset' = [dataset EXCEPT ![t] = "deleted"]
  /\ features' = [features EXCEPT ![t] = "withdrawn"]
  /\ job' = IF job.output = t THEN [job EXCEPT !.output = NoDelivery] ELSE job
  /\ stored' \in {FALSE, stored}
  /\ UNCHANGED <<view, cancel, revoked, pc, last, staging, stream>>

-----------------------------------------------------------------------------
CreateRequest == (\E t \in Deliveries : Delay(t)) \/ SaveTaskId

CancelRequest(r) == ReadJob(r) \/ Revoke(r) \/ SaveCancelled(r)

WorkerStep(t) ==
  \/ Start(t) \/ ReportStart(t) \/ BeginOp(t) \/ FinishOp(t) \/ Raise(t)
  \/ \E p \in OpProgress : Report(t, p)
  \/ CreateOutputDataset(t) \/ Complete(t) \/ Announce(t)
  \/ Fail(t) \/ ReportFail(t)

Next ==
  \/ CreateRequest \/ LoseCreate
  \/ \E t, u \in Deliveries : Redeliver(t, u)
  \/ \E r \in CancelRequests : CancelRequest(r) \/ LoseCancel(r)
  \/ \E t \in Deliveries :
       WorkerStep(t) \/ Terminate(t) \/ Crash(t)
       \/ DeleteStaging(t) \/ DeleteOutput(t)

\* A web process runs its request to the end and a worker runs the deliveries
\* it has, unless they die; nothing makes a process die or a user click.
Fairness ==
  /\ WF_vars(CreateRequest)
  /\ \A r \in CancelRequests : WF_vars(Revoke(r) \/ SaveCancelled(r))
  /\ \A t \in Deliveries : WF_vars(WorkerStep(t))

Spec == Init /\ [][Next]_vars

FairSpec == Spec /\ Fairness
-----------------------------------------------------------------------------
(* Properties.                                                             *)

TypeOK ==
  /\ job \in JobRow
  /\ view \in {"inserted", "sent", "answered", "lost"}
  /\ cancel \in [CancelRequests ->
       {"idle", "revoke", "save", "cancelled", "refused", "lost"}]
  /\ revoked \in BOOLEAN
  /\ pc \in [Deliveries -> {"unsent"} \cup Alive \cup Ended]
  /\ last \in [Deliveries -> {-PROGRESS_STEP} \cup 0 .. 100]
  /\ staging \in [Deliveries -> {"none", "live", "gone"}]
  /\ features \in [Deliveries -> {"none", "staging", "output", "withdrawn"}]
  /\ dataset \in [Deliveries -> {"absent", "live", "deleted"}]
  /\ stored \in BOOLEAN
  /\ stream \in {"none", "complete", "failed"}

\* Nothing of the job is under way: no delivery, no half-answered request.
AtRest ==
  /\ view \in {"answered", "lost"}
  /\ \A t \in Deliveries : pc[t] \notin Alive
  /\ \A r \in CancelRequests : cancel[r] \notin {"revoke", "save"}

Killed == \E t \in Deliveries : pc[t] \in {"killed", "aborted"}

\* A job that reads "completed" did commit an output, whatever cancellations,
\* redeliveries, crashes and deletions came in between
\* (job_executor.py execute_processing_job saves the status last).
CompletedMeansProduced ==
  job.status = "completed" => \E t \in Deliveries : dataset[t] # "absent"

\* Nobody sees a vector output without its features: they moved with it, unless
\* the user himself deleted the staging dataset they were waiting in
\* (shared_operations.py CreateOutputDataset is one transaction).
PublishedWhole ==
  \A t \in Deliveries :
    job.makes = "vector" /\ dataset[t] = "live" =>
      features[t] \in {"output", "withdrawn"} /\ staging[t] = "gone"

\* The message of the job was delivered at most once.
DeliveredOnce ==
  \A t, u \in Deliveries : pc[t] # "unsent" /\ pc[u] # "unsent" => t = u

\* What a job left agrees with its row, for one delivery.  A raster output that
\* exists can be downloaded: the upload comes before the row, and only the
\* deletion of the output deletes the object.  A job that failed in its operation
\* shows no output.  (A redelivered job writes the same object under a second
\* output, and the deletion of either takes the object from both; the delivery
\* that fails writes the status over the output of the other.)
OutputMatchesJob ==
  DeliveredOnce =>
    /\ job.makes = "raster" => \A t \in Deliveries : dataset[t] = "live" => stored
    /\ job.status = "failed" /\ job.error = "operation" => job.output = NoDelivery

\* The only ways to leave a job unfinished for ever: the message was never
\* sent, or a delivery was killed or lost its first notification.  No order of
\* the writes of deliveries and cancellations does it.
StuckOnlyIfKilled ==
  AtRest /\ job.status \notin Terminal => view = "lost" \/ Killed

\* The progress a client polls never goes back (ProgressReporter is the only
\* writer besides the completion; a second delivery starts at 0 again).
ProgressNeverBack == [][DeliveredOnce => job'.progress >= job.progress]_vars

\* Every job ends up finished for good, unless its message or its worker was
\* lost.
JobSettles == <>[](job.status \in Terminal \/ view = "lost" \/ Killed)

-----------------------------------------------------------------------------
(* The inductive strengthening of CompletedMeansProduced, PublishedWhole and *)
(* StuckOnlyIfKilled.                                                        *)

\* Labels before the output transaction, and labels from which a delivery
\* still owes the job a terminal status.
BeforeOutput == {"unsent", "queued", "report0", "begin", "op", "output"}
Owing == {"report0", "begin", "op", "output", "complete", "fail", "failLate"}

\* A delivery's output exists after its transaction and not before, and the
\* features wait where the transaction will look for them.
OutputInv ==
  \A t \in Deliveries :
    /\ pc[t] \in BeforeOutput => dataset[t] = "absent"
    /\ pc[t] \in {"complete", "announce"} => dataset[t] # "absent"
    /\ job.makes = "vector" =>
         /\ pc[t] = "output" =>
              \/ staging[t] = "live" /\ features[t] = "staging"
              \/ staging[t] = "gone" /\ features[t] = "withdrawn"
         /\ dataset[t] = "live" =>
              features[t] \in {"output", "withdrawn"} /\ staging[t] = "gone"

\* An unfinished status is owed by somebody: a delivery on its way, or lost.
SettleInv ==
  /\ job.status = "processing" =>
       \E t \in Deliveries : pc[t] \in Owing \cup {"killed", "aborted"}
  /\ job.status = "pending" =>
       \A t \in Deliveries : pc[t] \in {"unsent", "queued", "killed"}
  /\ view \in {"sent", "answered"} => \E t \in Deliveries : pc[t] # "unsent"

IInv == TypeOK /\ OutputInv /\ CompletedMeansProduced /\ SettleInv

\* The strengthening of OutputMatchesJob and ProgressNeverBack.  While only one
\* delivery exists, the row shows what that delivery reported last, no output
\* before its transaction, and "operation" only when the transaction is past.
SoleDelivery ==
  /\ (\A t \in Deliveries : pc[t] = "unsent") =>
       job.progress = 0 /\ job.output = NoDelivery
  /\ \A t \in Deliveries :
       /\ pc[t] \in {"queued", "report0"} => job.progress = 0
       /\ pc[t] \in {"begin", "op"} => job.progress = last[t]
       /\ pc[t] \in (BeforeOutput \ {"unsent"}) \cup {"fail"} =>
            job.output = NoDelivery
       /\ job.makes = "raster" /\ (pc[t] = "output" \/ dataset[t] = "live") =>
            stored
  /\ job.error = "operation" =>
       /\ job.output = NoDelivery
       /\ \E t \in Deliveries : pc[t] \in {"reportFail", "done", "killed"}

OnceInv == DeliveredOnce => SoleDelivery

=============================================================================
