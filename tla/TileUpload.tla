----------------------------- MODULE TileUpload -----------------------------
(***************************************************************************)
(* A raster from its upload to its tiles: services.py, the dataset views,  *)
(* the signal that starts the conversion (signals.py) and the Celery task  *)
(* that writes the tileset (tasks.py generate_cog_task).                   *)
(*                                                                         *)
(* DatasetNodeViewSet.create and destroy run in one database transaction;  *)
(* what they do to the object storage and to the broker is not undone with *)
(* it, and is seen by the workers before the commit.  "lock" holds the     *)
(* request whose uncommitted transaction has written the dataset row; the  *)
(* value it wrote is told by where the request is.                         *)
(*                                                                         *)
(* What may fail: the storage, the broker, the notification transport, a   *)
(* commit, the web process and the worker process.                         *)
(***************************************************************************)
EXTENDS Naturals

CONSTANTS
  Completes,   \* POST ?multipart=complete requests, the client's retries
  Deliveries,  \* deliveries of the conversion message; one is sent
  MAX_RETRIES  \* tasks.py: max_retries of generate_cog_task

ASSUME RetriesAssumption == MAX_RETRIES \in Nat
ASSUME CompletesAssumption ==
  Completes \cap {"create", "abort", "destroy", "free"} = {}

VARIABLES
  row,      \* committed status of the Dataset row
  lock,     \* the request that has written the row and not committed yet
  req,      \* where each request is
  object,   \* datasets/<id>/file.tif is in the bucket
  upload,   \* the multipart upload of that key in the storage
  tileset,  \* status of the TileSet row
  tile,     \* tilesets/<id>/processed.tif is in the bucket
  pc,       \* where each delivery of generate_cog_task is
  tries     \* Celery's retries count of each delivery

store == <<object, upload, tile>>
work == <<pc, tries>>
vars == <<row, lock, req, store, tileset, work>>

-----------------------------------------------------------------------------
Requests == Completes \cup {"create", "abort", "destroy"}
Free == "free"

\* Requests whose transaction deletes the row while they hold the lock.
Deleting == lock \in {"abort", "destroy"}
Gone == row \in {"absent", "deleted"}

\* A delivery runs after it read the dataset; each value names what is next.
Running == {"upsert", "download", "convert", "publish", "metadata", "notify",
            "fail", "retry"}

Alive == {"queued"} \cup Running
\* How a delivery ends: converted; no such dataset; an exception outside the
\* try; retries used up; the broker refused the retry; the process died.
Ended == {"done", "skipped", "raised", "gaveUp", "refused", "killed"}

Init ==
  /\ lock = Free
  /\ object = FALSE /\ tile = FALSE
  /\ tileset = "none"
  /\ pc = [t \in Deliveries |-> "unsent"]
  /\ tries = [t \in Deliveries |-> 0]
  /\ \/ \* the file comes with the request
        /\ row = "absent" /\ upload = "none"
        /\ req = [r \in Requests |->
                    IF r \in {"create", "destroy"} THEN "idle" ELSE "unused"]
     \/ \* init_multipart_upload has committed, the parts are in the storage
        /\ row = "pending" /\ upload = "open"
        /\ req = [r \in Requests |-> IF r = "create" THEN "unused" ELSE "idle"]

Answer(r, how) == req' = [req EXCEPT ![r] = how]

\* Mutant: the status is read after the save, so it never changes
TriggersLate(old) == old = "uploaded" /\ tileset \notin {"processing", "ready"}

\* trigger_dataset_processing: the post_save of a dataset whose status becomes
\* uploaded.  old is the status pre_save read.
Triggers(old) == old # "uploaded" /\ tileset \notin {"processing", "ready"}
Send(old) ==
  IF Triggers(old)
  THEN \E t \in Deliveries : /\ \A u \in Deliveries : pc[u] = "unsent"
                             /\ pc' = [pc EXCEPT ![t] = "queued"]
  ELSE pc' = pc

-----------------------------------------------------------------------------
(* The file in the request: DatasetCreateService.create_dataset_with_file. *)

\* The row is inserted, not committed; the object is put.
PutObject ==
  /\ req["create"] = "idle"
  /\ object' = TRUE
  /\ lock' = "create"
  /\ Answer("create", "put")
  /\ UNCHANGED <<row, upload, tileset, tile, work>>

SaveCreated ==
  /\ req["create"] = "put"
  /\ Send("pending")
  /\ Answer("create", "saved")
  /\ UNCHANGED <<row, lock, store, tileset, tries>>

-----------------------------------------------------------------------------
(* MultipartUploadService.complete_multipart_upload                        *)

\* The storage refuses a second completion, and one after an abort.
CompleteUpload(r) ==
  /\ r \in Completes /\ req[r] = "idle"
  /\ \/ /\ upload = "open"
        /\ upload' = "completed"
        /\ object' = TRUE
        /\ Answer(r, "completed")
     \/ \* refused, or the storage is down
        /\ Answer(r, "refused")
        /\ UNCHANGED <<upload, object>>
  /\ UNCHANGED <<row, lock, tile, tileset, work>>

LookUp(r) ==
  /\ req[r] = "completed"
  /\ \/ /\ ~Gone /\ object
        /\ Answer(r, "found")
     \/ \* LookupError, or get_object_info raised
        Answer(r, "refused")
  /\ UNCHANGED <<row, lock, store, tileset, work>>

SaveUploaded(r) ==
  /\ req[r] = "found"
  /\ lock = Free
  /\ IF Gone
     THEN Answer(r, "refused") /\ UNCHANGED <<lock, pc>>
     ELSE /\ lock' = r
          /\ \/ Send(row) /\ Answer(r, "saved")
             \/ \* delay raises: the view catches it and the save stays
                Triggers(row) /\ pc' = pc /\ Answer(r, "savedUnsent")
  /\ UNCHANGED <<row, store, tileset, tries>>

-----------------------------------------------------------------------------
(* MultipartUploadService.abort_multipart_upload                           *)

\* Mutant: a storage error is ignored
AbortRegardless ==
  /\ req["abort"] = "idle"
  /\ upload' = IF upload = "open" THEN "aborted" ELSE upload
  /\ Answer("abort", "aborted")
  /\ UNCHANGED <<row, lock, object, tile, tileset, work>>

AbortUpload ==
  /\ req["abort"] = "idle"
  /\ \/ /\ upload = "open"
        /\ upload' = "aborted"
        /\ Answer("abort", "aborted")
     \/ Answer("abort", "refused") /\ upload' = upload
  /\ UNCHANGED <<row, lock, object, tile, tileset, work>>

DeleteAborted ==
  /\ req["abort"] = "aborted"
  /\ lock = Free
  /\ IF Gone THEN Answer("abort", "answered") /\ lock' = lock
             ELSE Answer("abort", "deleted") /\ lock' = "abort"
  /\ UNCHANGED <<row, store, tileset, work>>

-----------------------------------------------------------------------------
(* DatasetNodeViewSet.destroy: the user deletes the node or its folder.    *)

\* Mutant: the object is deleted at once instead of on commit
DestroyEager ==
  /\ req["destroy"] = "idle"
  /\ lock = Free /\ ~Gone
  /\ lock' = "destroy"
  /\ object' = FALSE
  /\ Answer("destroy", "deleted")
  /\ UNCHANGED <<row, upload, tile, tileset, work>>

Destroy ==
  /\ req["destroy"] = "idle"
  /\ lock = Free /\ ~Gone
  /\ lock' = "destroy"
  /\ Answer("destroy", "deleted")
  /\ UNCHANGED <<row, store, tileset, work>>

\* on_commit; a storage error is only logged.
DeleteObject ==
  /\ req["destroy"] = "committed"
  /\ object' \in {FALSE, object}
  /\ Answer("destroy", "answered")
  /\ UNCHANGED <<row, lock, upload, tile, tileset, work>>

-----------------------------------------------------------------------------
(* The end of a request's transaction.                                     *)

Commit(r) ==
  /\ lock = r /\ req[r] \in {"saved", "savedUnsent", "deleted"}
  /\ lock' = Free
  /\ row' = IF Deleting THEN "deleted" ELSE "uploaded"
  /\ tileset' = IF Deleting THEN "none" ELSE tileset
  /\ Answer(r, IF r = "destroy" THEN "committed"
               ELSE IF req[r] = "savedUnsent" THEN "unsent" ELSE "answered")
  /\ UNCHANGED <<store, work>>

\* The commit fails, or the web process dies: what the transaction wrote is
\* undone, what it asked of the storage and the broker is not.
Lose(r) ==
  /\ req[r] \notin {"idle", "unused", "answered", "unsent", "refused",
                  "lost"}
  /\ Answer(r, "lost")
  /\ lock' = IF lock = r THEN Free ELSE lock
  /\ UNCHANGED <<row, store, tileset, work>>

-----------------------------------------------------------------------------
(* generate_cog_task                                                       *)

Goto(t, label) == pc' = [pc EXCEPT ![t] = label]

\* A message that waits longer than the visibility timeout is sent again.
Redeliver(t, u) ==
  /\ pc[t] = "queued" /\ pc[u] = "unsent"
  /\ Goto(u, "queued")
  /\ tries' = [tries EXCEPT ![u] = tries[t]]
  /\ UNCHANGED <<row, lock, req, store, tileset>>

\* Dataset.objects.get sees committed rows only; no dataset, no retry.
Start(t) ==
  /\ pc[t] = "queued"
  /\ Goto(t, IF Gone THEN "skipped" ELSE "upsert")
  /\ UNCHANGED <<row, lock, req, store, tileset, tries>>

\* update_or_create runs before the try.
Upsert(t) ==
  /\ pc[t] = "upsert" /\ ~Deleting
  /\ IF Gone THEN Goto(t, "raised") /\ tileset' = tileset
             ELSE Goto(t, "download") /\ tileset' = "processing"
  /\ UNCHANGED <<row, lock, req, store, tries>>

Download(t) ==
  /\ pc[t] = "download"
  /\ \/ object /\ Goto(t, "convert")
     \/ Goto(t, "fail")
  /\ UNCHANGED <<row, lock, req, store, tileset, tries>>

\* GenerateCOG, and Upload of the tiled file.
Convert(t) ==
  /\ pc[t] = "convert"
  /\ \/ tile' = TRUE /\ Goto(t, "publish")
     \/ tile' = tile /\ Goto(t, "fail")
  /\ UNCHANGED <<row, lock, req, object, upload, tileset, tries>>

\* UpdateTileSet saves the whole tileset row.
Publish(t) ==
  /\ pc[t] = "publish" /\ ~Deleting
  /\ IF tileset = "none" THEN Goto(t, "fail") /\ tileset' = tileset
                         ELSE Goto(t, "metadata") /\ tileset' = "ready"
  /\ UNCHANGED <<row, lock, req, store, tries>>

\* It writes the dataset's metadata behind a request's lock.
SaveMetadata(t) ==
  /\ pc[t] = "metadata" /\ lock = Free
  /\ Goto(t, IF Gone THEN "fail" ELSE "notify")
  /\ UNCHANGED <<row, lock, req, store, tileset, tries>>

\* send_notification inserts a row and publishes to Redis, inside the try.
Notify(t) ==
  /\ pc[t] = "notify"
  /\ \/ Goto(t, "done")
     \/ Goto(t, "fail")
  /\ UNCHANGED <<row, lock, req, store, tileset, tries>>

\* Mutant: the failure is logged and not saved
FailUnsaved(t) ==
  /\ pc[t] = "fail" /\ ~Deleting
  /\ Goto(t, IF tileset = "none" THEN "raised" ELSE "retry")
  /\ UNCHANGED <<row, lock, req, store, tileset, tries>>

\* The save of a deleted row raises again, out of the except clause.
Fail(t) ==
  /\ pc[t] = "fail" /\ ~Deleting
  /\ IF tileset = "none" THEN Goto(t, "raised") /\ tileset' = tileset
                         ELSE Goto(t, "retry") /\ tileset' = "failed"
  /\ UNCHANGED <<row, lock, req, store, tries>>

\* Mutant: the retries are never counted
RetryForever(t) ==
  /\ pc[t] = "retry" /\ Goto(t, "queued")
  /\ UNCHANGED <<row, lock, req, store, tileset, tries>>

Retry(t) ==
  /\ pc[t] = "retry"
  /\ IF tries[t] < MAX_RETRIES
     THEN \/ Goto(t, "queued") /\ tries' = [tries EXCEPT ![t] = @ + 1]
          \/ Goto(t, "refused") /\ tries' = tries
     ELSE Goto(t, "gaveUp") /\ tries' = tries
  /\ UNCHANGED <<row, lock, req, store, tileset>>

\* Acknowledged when it started: the message is lost with its process.
Crash(t) ==
  /\ pc[t] \in Running
  /\ Goto(t, "killed")
  /\ UNCHANGED <<row, lock, req, store, tileset, tries>>

-----------------------------------------------------------------------------
RequestStep ==
  \/ PutObject \/ SaveCreated \/ AbortUpload \/ DeleteAborted
  \/ Destroy \/ DeleteObject
  \/ \E r \in Completes : CompleteUpload(r) \/ LookUp(r) \/ SaveUploaded(r)
  \/ \E r \in Requests : Commit(r)

WorkerStep(t) ==
  \/ Start(t) \/ Upsert(t) \/ Download(t) \/ Convert(t) \/ Publish(t)
  \/ SaveMetadata(t) \/ Notify(t) \/ Fail(t) \/ Retry(t)

Next ==
  \/ RequestStep
  \/ \E r \in Requests : Lose(r)
  \/ \E t \in Deliveries : WorkerStep(t) \/ Crash(t)
  \/ \E t, u \in Deliveries : Redeliver(t, u)

Spec == Init /\ [][Next]_vars

\* A worker takes what is queued and goes on; a transaction that wrote ends.
Fairness ==
  /\ \A t \in Deliveries : WF_vars(WorkerStep(t))
  /\ \A r \in Requests : WF_vars(Commit(r) \/ (lock = r /\ Lose(r)))

FairSpec == Spec /\ Fairness

-----------------------------------------------------------------------------
TypeOK ==
  /\ row \in {"absent", "pending", "uploaded", "deleted"}
  /\ lock \in Requests \cup {Free}
  /\ req \in [Requests -> {"unused", "idle", "put", "completed", "found",
                          "aborted", "saved", "savedUnsent", "deleted",
                          "committed", "answered", "unsent", "refused", "lost"}]
  /\ object \in BOOLEAN /\ tile \in BOOLEAN
  /\ upload \in {"none", "open", "completed", "aborted"}
  /\ tileset \in {"none", "processing", "ready", "failed"}
  /\ pc \in [Deliveries -> {"unsent"} \cup Alive \cup Ended]
  /\ tries \in [Deliveries -> 0 .. MAX_RETRIES]

\* What is offered can be read, whatever failed, was delivered twice or was
\* deleted on the way: the tile file of a ready tileset (DatasetTileView.get),
\* and the object of an uploaded dataset, which a deletion touches only after
\* it is committed.
ServedFilesExist ==
  /\ tileset = "ready" => tile
  /\ row = "uploaded" => object

\* An upload is completed or aborted, whichever request the storage took
\* first: what was aborted leaves no object, no uploaded row and no tileset.
AbortIsFinal ==
  req["abort"] \in {"aborted", "deleted", "answered"} =>
    ~object /\ row # "uploaded" /\ tileset = "none"

Quiet == \A t \in Deliveries : pc[t] \in Ended \cup {"unsent"}

\* A tileset shown as processing is being processed, or its worker was killed
\* after it took the message; one that stays failed has used up its retries, or
\* the retry was lost with the broker or the worker.
StatusIsOwned ==
  /\ tileset = "processing" =>
       \E t \in Deliveries :
         pc[t] \in {"download", "convert", "publish", "fail", "killed"}
  /\ tileset = "failed" /\ Quiet =>
       \E t \in Deliveries : pc[t] \in {"gaveUp", "refused", "killed"}

\* An uploaded raster stays without a tileset only when the task came before
\* the commit, died, or could not be sent while the save went through.
UntiledForAReason ==
  row = "uploaded" /\ tileset = "none" /\ Quiet =>
    \/ \E t \in Deliveries : pc[t] \in {"skipped", "killed"}
    \/ \E r \in Completes : req[r] = "unsent"

\* Every message ends: it is retried a bounded number of times, and never
\* waits for ever for the row of a request.
ConversionEnds == \A t \in Deliveries : pc[t] = "queued" ~> pc[t] \in Ended

\* signals.py:137 "Trigger background processing tasks when a dataset is
\* successfully uploaded.": without a crash or a refusal of the broker.
UploadedIsProcessed ==
  /\ row = "uploaded" /\ Quiet
  /\ \A t \in Deliveries : pc[t] # "killed"
  /\ \A r \in Completes : req[r] # "unsent"
  => tileset # "none"
=============================================================================
