--------------------------- MODULE DocumentIngest ---------------------------
(***************************************************************************)
(* One PDF of a user, from its upload to the search that the agents use:   *)
(* DocumentViewSet (web_gis_app/views/document_views.py), the Celery task  *)
(* process_document_task (shared/rag/tasks.py) and retrieve_chunks.        *)
(*                                                                         *)
(* Every statement commits by itself.  The chunks of a document are        *)
(* inserted by one bulk_create, in one transaction; chunks counts how      *)
(* often the whole set is in the table.                                    *)
(*                                                                         *)
(* What may fail: the storage, the broker, the embedding service, the      *)
(* notification, the web process and the worker process.                   *)
(***************************************************************************)
EXTENDS Naturals, ObjectStorage

CONSTANTS
  Messages,         \* deliveries of the task's message; one is sent
  DocumentRetries   \* tasks.py: max_retries of process_document_task

ASSUME DocumentRetriesAssumption == DocumentRetries \in Nat

VARIABLES
  document,  \* the Document row: status and cloud_storage_path
  chunks,    \* copies of the document's chunks in the table
  bucket,    \* the keys in the object storage
  posting,   \* where POST /documents/ is
  removal,   \* where DELETE is, and the path it read
  patch,     \* where PATCH is, and the row it read
  task       \* each delivery: where it is, the path it read, Celery's retries

docVars == <<document, chunks, bucket, posting, removal, patch, task>>

-----------------------------------------------------------------------------
Key == "documents/id/file.pdf"
NoPath == "empty"

NoDocument == [status |-> "absent", path |-> NoPath]

DocumentGone == document.status \in {"absent", "deleted"}

\* save(update_fields=["status"]), of a row that is there.
SetStatus(s) == document' = [document EXCEPT !.status = s]

DocInit ==
  /\ document = NoDocument
  /\ chunks = 0
  /\ bucket = {}
  /\ posting = "idle"
  /\ removal = [at |-> "idle", path |-> NoPath]
  /\ patch = [at |-> "idle", row |-> NoDocument]
  /\ task = [m \in Messages |-> [at |-> "unsent", path |-> NoPath, tries |-> 0]]

-----------------------------------------------------------------------------
(* DocumentViewSet.create.  A file that is missing, too large or not a PDF *)
(* is refused before anything is written.                                  *)

InsertDocument ==
  /\ posting = "idle"
  /\ posting' \in {"inserted", "refused"}
  /\ IF posting' = "inserted" THEN SetStatus("pending") ELSE document' = document
  /\ UNCHANGED <<chunks, bucket, removal, patch, task>>

UploadFile ==
  /\ posting = "inserted"
  /\ \/ bucket' = UploadObject(bucket, Key) /\ posting' = "uploaded"
     \/ bucket' \in UploadRaised(bucket, Key) /\ posting' = "except"
  /\ UNCHANGED <<document, chunks, removal, patch, task>>

\* A row that is gone raises.
SavePath ==
  /\ posting = "uploaded"
  /\ document' = IF DocumentGone THEN document ELSE [document EXCEPT !.path = Key]
  /\ posting' = IF DocumentGone THEN "except" ELSE "saved"
  /\ UNCHANGED <<chunks, bucket, removal, patch, task>>

\* The except clause; its own save of a row that is gone raises again.
FailUpload ==
  /\ posting = "except"
  /\ IF DocumentGone THEN document' = document ELSE SetStatus("failed")
  /\ posting' = "refused"
  /\ UNCHANGED <<chunks, bucket, removal, patch, task>>

\* delay, outside the try.
SendMessage ==
  /\ posting = "saved"
  /\ \/ \E m \in Messages :
          /\ task' = [task EXCEPT ![m].at = "queued"]
          /\ posting' = "answered"
     \/ posting' = "unsent" /\ task' = task
  /\ UNCHANGED <<document, chunks, bucket, removal, patch>>

LosePost ==
  /\ posting \in {"inserted", "uploaded", "except", "saved"}
  /\ posting' = "lost"
  /\ UNCHANGED <<document, chunks, bucket, removal, patch, task>>

-----------------------------------------------------------------------------
(* DocumentViewSet.destroy                                                 *)

RemovalTo(label) == removal' = [removal EXCEPT !.at = label]

ReadForRemoval ==
  /\ removal.at = "idle" /\ ~DocumentGone
  /\ removal' = [at |-> "chunks", path |-> document.path]
  /\ UNCHANGED <<document, chunks, bucket, posting, patch, task>>

DeleteChunks ==
  /\ removal.at = "chunks"
  /\ chunks' = 0
  /\ RemovalTo("row")
  /\ UNCHANGED <<document, bucket, posting, patch, task>>

\* Chunks that were inserted in between go with the row.
DeleteDocument ==
  /\ removal.at = "row"
  /\ SetStatus("deleted")
  /\ chunks' = 0
  /\ RemovalTo(IF removal.path = NoPath THEN "answered" ELSE "object")
  /\ UNCHANGED <<bucket, posting, patch, task>>

\* Best effort: an exception is logged.
DeleteFile ==
  /\ removal.at = "object"
  /\ \/ bucket' = DeleteObject(bucket, removal.path) /\ RemovalTo("answered")
     \/ bucket' \in DeleteRaised(bucket, removal.path) /\ RemovalTo("leftBehind")
  /\ UNCHANGED <<document, chunks, posting, patch, task>>

LoseRemoval ==
  /\ removal.at \in {"chunks", "row", "object"}
  /\ RemovalTo("lost")
  /\ UNCHANGED <<document, chunks, bucket, posting, patch, task>>

-----------------------------------------------------------------------------
(* PUT and PATCH, inherited by BaseModelViewSet.  Every field of           *)
(* DocumentSerializer is read-only, but the row is saved all the same: all *)
(* columns as they were read.                                              *)

ReadForPatch ==
  /\ patch.at = "idle" /\ ~DocumentGone
  /\ patch' = [at |-> "save", row |-> document]
  /\ UNCHANGED <<document, chunks, bucket, posting, removal, task>>

\* save() of a row that is gone inserts it again.
SavePatch ==
  /\ patch.at = "save"
  /\ document' = patch.row
  /\ patch' = [at |-> IF DocumentGone THEN "revived" ELSE "done", row |-> NoDocument]
  /\ UNCHANGED <<chunks, bucket, posting, removal, task>>

-----------------------------------------------------------------------------
(* process_document_task                                                   *)

TaskTo(m, label) == task' = [task EXCEPT ![m].at = label]

RedeliverMessage(m, n) ==
  /\ task[m].at = "queued" /\ task[n].at = "unsent"
  /\ task' = [task EXCEPT ![n] = task[m]]
  /\ UNCHANGED <<document, chunks, bucket, posting, removal, patch>>

LoadDocument(m) ==
  /\ task[m].at = "queued"
  /\ task' = [task EXCEPT ![m] = [at |-> IF DocumentGone THEN "skipped" ELSE "mark",
                                  path |-> document.path, tries |-> @.tries]]
  /\ UNCHANGED <<document, chunks, bucket, posting, removal, patch>>

\* Before the try: a row that is gone ends the task, without a retry.
MarkProcessing(m) ==
  /\ task[m].at = "mark"
  /\ IF DocumentGone THEN document' = document ELSE SetStatus("processing")
  /\ TaskTo(m, IF DocumentGone THEN "raised" ELSE "download")
  /\ UNCHANGED <<chunks, bucket, posting, removal, patch>>

DownloadFile(m) ==
  /\ task[m].at = "download"
  /\ \/ CanDownload(bucket, task[m].path) /\ TaskTo(m, "convert")
     \/ TaskTo(m, "except")
  /\ UNCHANGED <<document, chunks, bucket, posting, removal, patch>>

\* Mutant: a document without text is taken for one without chunks.
ConvertEmpty(m) ==
  /\ task[m].at = "convert"
  /\ \/ TaskTo(m, "insert")
     \/ TaskTo(m, "ready")
     \/ TaskTo(m, "except")
  /\ UNCHANGED <<document, chunks, bucket, posting, removal, patch>>

\* The text is extracted, split and embedded; no text is a ValueError.
ConvertAndEmbed(m) ==
  /\ task[m].at = "convert"
  /\ \/ TaskTo(m, "insert")
     \/ TaskTo(m, "except")
  /\ UNCHANGED <<document, chunks, bucket, posting, removal, patch>>

\* The foreign key refuses chunks of a row that is gone.
InsertChunks(m) ==
  /\ task[m].at = "insert"
  /\ chunks' = IF DocumentGone THEN chunks ELSE chunks + 1
  /\ TaskTo(m, IF DocumentGone THEN "except" ELSE "ready")
  /\ UNCHANGED <<document, bucket, posting, removal, patch>>

SaveReady(m) ==
  /\ task[m].at = "ready"
  /\ IF DocumentGone THEN document' = document ELSE SetStatus("ready")
  /\ TaskTo(m, IF DocumentGone THEN "except" ELSE "notify")
  /\ UNCHANGED <<chunks, bucket, posting, removal, patch>>

\* Inside the try: a notification that fails fails the document.
NotifyProcessed(m) ==
  /\ task[m].at = "notify"
  /\ \/ TaskTo(m, "done")
     \/ TaskTo(m, "except")
  /\ UNCHANGED <<document, chunks, bucket, posting, removal, patch>>

\* filter().update() of a row that is gone does nothing.
FailDocument(m) ==
  /\ task[m].at = "except"
  /\ IF DocumentGone THEN document' = document ELSE SetStatus("failed")
  /\ TaskTo(m, "retry")
  /\ UNCHANGED <<chunks, bucket, posting, removal, patch>>

RetryDocument(m) ==
  /\ task[m].at = "retry"
  /\ \/ /\ task[m].tries < DocumentRetries
        /\ task' = [task EXCEPT ![m].at = "queued", ![m].tries = @ + 1]
     \/ TaskTo(m, "gaveUp")
  /\ UNCHANGED <<document, chunks, bucket, posting, removal, patch>>

Working == {"mark", "download", "convert", "insert", "ready", "notify", "except",
            "retry"}

\* Acknowledged when it started: the message is lost with its process.
KillTask(m) ==
  /\ task[m].at \in Working
  /\ TaskTo(m, "killed")
  /\ UNCHANGED <<document, chunks, bucket, posting, removal, patch>>

-----------------------------------------------------------------------------
DocRequest ==
  \/ InsertDocument \/ UploadFile \/ SavePath \/ FailUpload \/ SendMessage
  \/ LosePost
  \/ ReadForRemoval \/ DeleteChunks \/ DeleteDocument \/ DeleteFile
  \/ LoseRemoval
  \/ ReadForPatch \/ SavePatch

DocTask(m) ==
  \/ LoadDocument(m) \/ MarkProcessing(m) \/ DownloadFile(m)
  \/ ConvertAndEmbed(m) \/ InsertChunks(m) \/ SaveReady(m)
  \/ NotifyProcessed(m) \/ FailDocument(m) \/ RetryDocument(m) \/ KillTask(m)

DocNext ==
  \/ DocRequest
  \/ \E m \in Messages : DocTask(m)
  \/ \E m, n \in Messages : RedeliverMessage(m, n)

DocSpec == DocInit /\ [][DocNext]_docVars

-----------------------------------------------------------------------------
\* retrieve_chunks looks at the chunks of ready documents only.
Retrievable == IF document.status = "ready" THEN chunks ELSE 0

Repeated ==
  \/ \E m \in Messages : task[m].tries > 0
  \/ \E m, n \in Messages : m # n /\ task[m].at # "unsent" /\ task[n].at # "unsent"

\* What a search can return of a document is the whole document and, unless its
\* task was retried or delivered twice, once: also while it is deleted, patched
\* and processed at the same time.  A deleted document leaves no chunks, and its
\* file only when the deletion failed or began before the path was saved.
DocumentWholeOnce ==
  /\ document.status = "ready" =>
       \/ Retrievable > 0
       \/ removal.at \in {"row", "lost"} \/ patch.at = "revived"
  /\ Retrievable > 1 => Repeated
  /\ document.status = "deleted" =>
       /\ chunks = 0
       /\ removal.at = "answered" /\ Key \in bucket => removal.path = NoPath
=============================================================================
