-------------------------- MODULE TileUpload_proofs --------------------------
(* Proofs about TileUpload, for any number of completion requests, of deliveries
   and of retries.  RequestInv says what each request may have done when, LockInv
   what the uncommitted transaction stands on, and WorkInv how far the deliveries
   can be for the rows that are there. *)

EXTENDS TileUpload, TLAPS

\* Where each kind of request can be.
RequestInv ==
  /\ req["create"] \in {"unused", "idle", "put", "saved", "answered", "lost"}
  /\ req["abort"] \in
       {"unused", "idle", "aborted", "deleted", "answered", "refused", "lost"}
  /\ req["destroy"] \in {"idle", "deleted", "committed", "answered", "lost"}
  /\ \A r \in Completes :
       req[r] \in {"unused", "idle", "completed", "found", "saved", "savedUnsent",
                   "answered", "unsent", "refused", "lost"}
  \* A file comes with the request or in parts.
  /\ req["create"] # "unused" => \A r \in Completes \cup {"abort"} : req[r] = "unused"
  /\ upload = "none" => req["create"] # "unused"
  \* Until its completion an upload has left nothing.
  /\ upload \in {"open", "aborted"} =>
       \A r \in Completes : req[r] \in {"unused", "idle", "refused", "lost"}
  /\ req["abort"] \in {"aborted", "deleted", "answered"} => upload = "aborted"

\* The transaction that has written the row, and what it found.
LockInv ==
  /\ \A r \in Requests : req[r] \in {"saved", "savedUnsent", "deleted"} => lock = r
  /\ lock # Free => req[lock] \in {"put", "saved", "savedUnsent", "deleted"}
  /\ req["create"] = "idle" => row = "absent" /\ lock = Free
  /\ req["create"] = "put" => lock = "create"
  /\ lock = "create" => row = "absent" /\ object
  /\ lock \in Completes => ~Gone /\ object
  /\ lock \in {"abort", "destroy"} => ~Gone
  /\ row = "absent" => req["create"] # "unused"
  \* The object outlives the row.
  /\ req["destroy"] \in {"committed", "answered"} => row = "deleted"
  /\ \A r \in Completes : req[r] = "found" => object \/ row = "deleted"
  /\ row = "uploaded" => object
  /\ upload \in {"open", "aborted"} => ~object /\ row \in {"pending", "deleted"}

\* How far the deliveries are: none past its update_or_create without a tileset,
\* unless the dataset was deleted meanwhile.
WorkInv ==
  /\ upload \in {"open", "aborted"} => \A t \in Deliveries : pc[t] = "unsent"
  /\ row = "absent" => \A t \in Deliveries : pc[t] \in {"unsent", "queued", "skipped"}
  /\ tileset = "none" /\ row # "deleted" =>
       \A t \in Deliveries : pc[t] \in {"unsent", "queued", "upsert", "skipped", "killed"}
  /\ tileset # "none" => ~Gone /\ \E t \in Deliveries : pc[t] # "unsent"
  /\ row = "uploaded" \/ (\E r \in Requests : req[r] = "saved") =>
       \/ \E t \in Deliveries : pc[t] # "unsent"
       \/ \E r \in Completes : req[r] = "unsent"

\* The tile file comes before the status that shows it.
TileInv ==
  /\ tileset = "ready" => tile
  /\ \A t \in Deliveries : pc[t] = "publish" => tile

\* Who will write the next status of the tileset.
OwnerInv ==
  /\ tileset = "processing" =>
       \E t \in Deliveries :
         pc[t] \in {"download", "convert", "publish", "fail", "killed"}
  /\ tileset = "failed" =>
       \E t \in Deliveries :
         pc[t] \in {"retry", "queued", "upsert", "gaveUp", "refused", "killed"}

IInv == TypeOK /\ RequestInv /\ LockInv /\ WorkInv /\ TileInv /\ OwnerInv

LEMMA TypeStep ==
  ASSUME TypeOK, [Next]_vars
  PROVE  TypeOK'
<1> USE CompletesAssumption, RetriesAssumption DEF TypeOK, Requests, Free, Answer, Send, Goto, store, work, Running, Ended, Alive
<1>1. CASE RequestStep
  <2>1. CASE PutObject
    BY <2>1 DEF PutObject
  <2>2. CASE SaveCreated
    BY <2>2 DEF SaveCreated
  <2>3. CASE AbortUpload
    BY <2>3 DEF AbortUpload
  <2>4. CASE DeleteAborted
    BY <2>4 DEF DeleteAborted
  <2>5. CASE Destroy
    BY <2>5 DEF Destroy
  <2>6. CASE DeleteObject
    BY ZenonT(60), <2>6 DEF DeleteObject
  <2>7. ASSUME NEW r \in Completes, CompleteUpload(r) \/ LookUp(r) \/ SaveUploaded(r)
        PROVE  TypeOK'
    <3>1. CASE CompleteUpload(r)
      <4>1. /\ upload' \in {upload, "completed"} /\ object' \in {object, TRUE}
            /\ req' \in {[req EXCEPT ![r] = "completed"], [req EXCEPT ![r] = "refused"]}
        BY <3>1 DEF CompleteUpload
      <4>2. r \in Requests
        OBVIOUS
      <4>3. req' \in [Requests -> {"unused", "idle", "put", "completed", "found",
                          "aborted", "saved", "savedUnsent", "deleted",
                          "committed", "answered", "unsent", "refused", "lost"}]
        BY <4>1, <4>2
      <4>4. UNCHANGED <<row, lock, tile, tileset, pc, tries>>
        BY <3>1 DEF CompleteUpload
      <4> QED BY ZenonT(60), <4>1, <4>3, <4>4
    <3>2. CASE LookUp(r)
      BY <3>2 DEF LookUp
    <3>3. CASE SaveUploaded(r)
      BY <3>3 DEF SaveUploaded
    <3> QED BY <2>7, <3>1, <3>2, <3>3
  <2>8. ASSUME NEW r \in Requests, Commit(r) PROVE TypeOK'
    BY <2>8 DEF Commit
  <2> QED BY <1>1, <2>1, <2>2, <2>3, <2>4, <2>5, <2>6, <2>7, <2>8 DEF RequestStep
<1>2. ASSUME NEW r \in Requests, Lose(r) PROVE TypeOK'
  BY <1>2 DEF Lose
<1>3. ASSUME NEW t \in Deliveries, WorkerStep(t) \/ Crash(t)
      PROVE  TypeOK'
  <2>1. CASE Start(t)
    BY <2>1 DEF Start
  <2>2. CASE Upsert(t)
    BY <2>2 DEF Upsert
  <2>3. CASE Download(t)
    BY <2>3 DEF Download
  <2>4. CASE Convert(t)
    BY ZenonT(60), <2>4 DEF Convert
  <2>5. CASE Publish(t)
    BY <2>5 DEF Publish
  <2>6. CASE SaveMetadata(t)
    BY <2>6 DEF SaveMetadata
  <2>7. CASE Notify(t)
    BY <2>7 DEF Notify
  <2>8. CASE Fail(t)
    BY <2>8 DEF Fail
  <2>9. CASE Retry(t)
    BY <2>9 DEF Retry
  <2>10. CASE Crash(t)
    BY <2>10 DEF Crash
  <2> QED BY <1>3, <2>1, <2>2, <2>3, <2>4, <2>5, <2>6, <2>7, <2>8, <2>9, <2>10 DEF WorkerStep
<1>4. ASSUME NEW t \in Deliveries, NEW u \in Deliveries, Redeliver(t, u)
      PROVE  TypeOK'
  BY <1>4 DEF Redeliver
<1>5. CASE UNCHANGED vars
  BY <1>5 DEF vars, work
<1> QED BY <1>1, <1>2, <1>3, <1>4, <1>5 DEF Next

LEMMA RequestInvStep ==
  ASSUME TypeOK, RequestInv, LockInv, [Next]_vars
  PROVE  RequestInv'
<1> USE CompletesAssumption, RetriesAssumption DEF TypeOK, RequestInv, Requests, Free, Answer, store
<1>1. CASE RequestStep
  <2>1. CASE PutObject
    BY <2>1 DEF PutObject
  <2>2. CASE SaveCreated
    BY <2>2 DEF SaveCreated
  <2>3. CASE AbortUpload
    BY <2>3 DEF AbortUpload
  <2>4. CASE DeleteAborted
    BY <2>4 DEF DeleteAborted
  <2>5. CASE Destroy
    BY <2>5 DEF Destroy
  <2>6. CASE DeleteObject
    BY <2>6 DEF DeleteObject
  <2>7. ASSUME NEW r \in Completes, CompleteUpload(r) \/ LookUp(r) \/ SaveUploaded(r)
        PROVE  RequestInv'
    <3>1. CASE CompleteUpload(r)
      BY <3>1 DEF CompleteUpload
    <3>2. CASE LookUp(r)
      BY <3>2 DEF LookUp
    <3>3. CASE SaveUploaded(r)
      BY <3>3 DEF SaveUploaded
    <3> QED BY <2>7, <3>1, <3>2, <3>3
  <2>8. ASSUME NEW r \in Requests, Commit(r) PROVE RequestInv'
    BY <2>8 DEF Commit, Deleting, LockInv
  <2> QED BY <1>1, <2>1, <2>2, <2>3, <2>4, <2>5, <2>6, <2>7, <2>8 DEF RequestStep
<1>2. ASSUME NEW r \in Requests, Lose(r) PROVE RequestInv'
  BY <1>2 DEF Lose
<1>3. ASSUME NEW t \in Deliveries, WorkerStep(t) \/ Crash(t)
      PROVE  RequestInv'
  <2>1. UNCHANGED <<req, upload>>
    BY <1>3 DEF WorkerStep, Start, Upsert, Download, Convert, Publish, SaveMetadata, Notify, Fail, Retry, Crash, store
  <2> QED BY <2>1
<1>4. ASSUME NEW t \in Deliveries, NEW u \in Deliveries, Redeliver(t, u)
      PROVE  RequestInv'
  BY <1>4 DEF Redeliver
<1>5. CASE UNCHANGED vars
  BY <1>5 DEF vars, work
<1> QED BY <1>1, <1>2, <1>3, <1>4, <1>5 DEF Next

LEMMA LockInvStep ==
  ASSUME TypeOK, RequestInv, LockInv, [Next]_vars
  PROVE  LockInv'
<1> USE CompletesAssumption, RetriesAssumption DEF TypeOK, RequestInv, LockInv, Gone, Requests, Free, Answer, store
<1>1. CASE RequestStep
  <2>1. CASE PutObject
    BY <2>1 DEF PutObject
  <2>2. CASE SaveCreated
    BY <2>2 DEF SaveCreated
  <2>3. CASE AbortUpload
    BY <2>3 DEF AbortUpload
  <2>4. CASE DeleteAborted
    BY <2>4 DEF DeleteAborted
  <2>5. CASE Destroy
    BY <2>5 DEF Destroy
  <2>6. CASE DeleteObject
    <3>1. row = "deleted" /\ lock = Free
      BY <2>6 DEF DeleteObject
    <3>2. /\ object' \in {FALSE, object} /\ UNCHANGED <<row, lock, upload>>
          /\ req' = [req EXCEPT !["destroy"] = "answered"]
      BY <2>6 DEF DeleteObject
    <3>3. \A r \in Requests : req'[r] = IF r = "destroy" THEN "answered" ELSE req[r]
      BY <3>2
    <3>4. upload \in {"open", "aborted"} => ~object'
      BY <3>2
    <3> QED BY <3>1, <3>2, <3>3, <3>4
  <2>7. ASSUME NEW r \in Completes, CompleteUpload(r) \/ LookUp(r) \/ SaveUploaded(r)
        PROVE  LockInv'
    <3>1. CASE CompleteUpload(r)
      BY <3>1 DEF CompleteUpload
    <3>2. CASE LookUp(r)
      BY <3>2 DEF LookUp
    <3>3. CASE SaveUploaded(r)
      BY <3>3 DEF SaveUploaded
    <3> QED BY <2>7, <3>1, <3>2, <3>3
  <2>8. ASSUME NEW r \in Requests, Commit(r) PROVE LockInv'
    BY <2>8 DEF Commit, Deleting
  <2> QED BY <1>1, <2>1, <2>2, <2>3, <2>4, <2>5, <2>6, <2>7, <2>8 DEF RequestStep
<1>2. ASSUME NEW r \in Requests, Lose(r) PROVE LockInv'
  BY <1>2 DEF Lose
<1>3. ASSUME NEW t \in Deliveries, WorkerStep(t) \/ Crash(t)
      PROVE  LockInv'
  <2>1. UNCHANGED <<row, lock, req, object, upload>>
    BY <1>3 DEF WorkerStep, Start, Upsert, Download, Convert, Publish, SaveMetadata, Notify, Fail, Retry, Crash, store
  <2> QED BY <2>1
<1>4. ASSUME NEW t \in Deliveries, NEW u \in Deliveries, Redeliver(t, u)
      PROVE  LockInv'
  BY <1>4 DEF Redeliver
<1>5. CASE UNCHANGED vars
  BY <1>5 DEF vars, work
<1> QED BY <1>1, <1>2, <1>3, <1>4, <1>5 DEF Next

LEMMA WorkInvStep ==
  ASSUME TypeOK, RequestInv, LockInv, WorkInv, [Next]_vars
  PROVE  WorkInv'
<1> USE CompletesAssumption, RetriesAssumption DEF TypeOK, WorkInv, Gone, Requests, Free, Answer, store, work, Goto, Running
<1>1. CASE RequestStep
  <2>1. CASE PutObject
    BY <2>1 DEF PutObject, RequestInv, LockInv
  <2>2. CASE SaveCreated
    BY <2>2 DEF SaveCreated, Send, Triggers, RequestInv, LockInv
  <2>3. CASE AbortUpload
    BY <2>3 DEF AbortUpload
  <2>4. CASE DeleteAborted
    BY <2>4 DEF DeleteAborted
  <2>5. CASE Destroy
    BY <2>5 DEF Destroy
  <2>6. CASE DeleteObject
    BY <2>6 DEF DeleteObject
  <2>7. ASSUME NEW r \in Completes, CompleteUpload(r) \/ LookUp(r) \/ SaveUploaded(r)
        PROVE  WorkInv'
    <3>1. CASE CompleteUpload(r)
      BY <3>1 DEF CompleteUpload
    <3>2. CASE LookUp(r)
      BY <3>2 DEF LookUp
    <3>3. CASE SaveUploaded(r)
      BY <3>3 DEF SaveUploaded, Send, Triggers, RequestInv, LockInv
    <3> QED BY <2>7, <3>1, <3>2, <3>3
  <2>8. ASSUME NEW r \in Requests, Commit(r) PROVE WorkInv'
    BY <2>8 DEF Commit, Deleting, LockInv, RequestInv
  <2> QED BY <1>1, <2>1, <2>2, <2>3, <2>4, <2>5, <2>6, <2>7, <2>8 DEF RequestStep
<1>2. ASSUME NEW r \in Requests, Lose(r) PROVE WorkInv'
  BY <1>2 DEF Lose
<1>3. ASSUME NEW t \in Deliveries, WorkerStep(t) \/ Crash(t)
      PROVE  WorkInv'
  <2>1. CASE Start(t)
    BY <2>1 DEF Start, RequestInv, LockInv
  <2>2. CASE Upsert(t)
    BY <2>2 DEF Upsert, Deleting
  <2>3. CASE Download(t)
    BY <2>3 DEF Download
  <2>4. CASE Convert(t)
    BY <2>4 DEF Convert
  <2>5. CASE Publish(t)
    BY <2>5 DEF Publish
  <2>6. CASE SaveMetadata(t)
    BY <2>6 DEF SaveMetadata
  <2>7. CASE Notify(t)
    BY <2>7 DEF Notify
  <2>8. CASE Fail(t)
    BY <2>8 DEF Fail
  <2>9. CASE Retry(t)
    BY <2>9 DEF Retry
  <2>10. CASE Crash(t)
    BY <2>10 DEF Crash
  <2> QED BY <1>3, <2>1, <2>2, <2>3, <2>4, <2>5, <2>6, <2>7, <2>8, <2>9, <2>10 DEF WorkerStep
<1>4. ASSUME NEW t \in Deliveries, NEW u \in Deliveries, Redeliver(t, u)
      PROVE  WorkInv'
  BY <1>4 DEF Redeliver
<1>5. CASE UNCHANGED vars
  BY <1>5 DEF vars, work
<1> QED BY <1>1, <1>2, <1>3, <1>4, <1>5 DEF Next

LEMMA TileInvStep ==
  ASSUME TypeOK, TileInv, [Next]_vars
  PROVE  TileInv'
<1> USE CompletesAssumption, RetriesAssumption DEF TypeOK, TileInv, Requests, Free, Answer, store, work, Goto
<1>1. CASE RequestStep
  <2>1. CASE PutObject
    BY <2>1 DEF PutObject
  <2>2. CASE SaveCreated
    BY <2>2 DEF SaveCreated, Send
  <2>3. CASE AbortUpload
    BY <2>3 DEF AbortUpload
  <2>4. CASE DeleteAborted
    BY <2>4 DEF DeleteAborted
  <2>5. CASE Destroy
    BY <2>5 DEF Destroy
  <2>6. CASE DeleteObject
    BY <2>6 DEF DeleteObject
  <2>7. ASSUME NEW r \in Completes, CompleteUpload(r) \/ LookUp(r) \/ SaveUploaded(r)
        PROVE  TileInv'
    <3>1. CASE CompleteUpload(r)
      BY <3>1 DEF CompleteUpload
    <3>2. CASE LookUp(r)
      BY <3>2 DEF LookUp
    <3>3. CASE SaveUploaded(r)
      BY <3>3 DEF SaveUploaded, Send
    <3> QED BY <2>7, <3>1, <3>2, <3>3
  <2>8. ASSUME NEW r \in Requests, Commit(r) PROVE TileInv'
    BY <2>8 DEF Commit
  <2> QED BY <1>1, <2>1, <2>2, <2>3, <2>4, <2>5, <2>6, <2>7, <2>8 DEF RequestStep
<1>2. ASSUME NEW r \in Requests, Lose(r) PROVE TileInv'
  BY <1>2 DEF Lose
<1>3. ASSUME NEW t \in Deliveries, WorkerStep(t) \/ Crash(t)
      PROVE  TileInv'
  <2>1. CASE Start(t)
    BY <2>1 DEF Start
  <2>2. CASE Upsert(t)
    BY <2>2 DEF Upsert
  <2>3. CASE Download(t)
    BY <2>3 DEF Download
  <2>4. CASE Convert(t)
    BY <2>4 DEF Convert
  <2>5. CASE Publish(t)
    BY <2>5 DEF Publish
  <2>6. CASE SaveMetadata(t)
    BY <2>6 DEF SaveMetadata
  <2>7. CASE Notify(t)
    BY <2>7 DEF Notify
  <2>8. CASE Fail(t)
    BY <2>8 DEF Fail
  <2>9. CASE Retry(t)
    BY <2>9 DEF Retry
  <2>10. CASE Crash(t)
    BY <2>10 DEF Crash
  <2> QED BY <1>3, <2>1, <2>2, <2>3, <2>4, <2>5, <2>6, <2>7, <2>8, <2>9, <2>10 DEF WorkerStep
<1>4. ASSUME NEW t \in Deliveries, NEW u \in Deliveries, Redeliver(t, u)
      PROVE  TileInv'
  BY <1>4 DEF Redeliver
<1>5. CASE UNCHANGED vars
  BY <1>5 DEF vars, work
<1> QED BY <1>1, <1>2, <1>3, <1>4, <1>5 DEF Next

LEMMA OwnerInvStep ==
  ASSUME TypeOK, WorkInv, OwnerInv, [Next]_vars
  PROVE  OwnerInv'
<1> USE CompletesAssumption, RetriesAssumption DEF TypeOK, OwnerInv, Requests, Free, Answer, store, work, Goto, Running
<1>1. CASE RequestStep
  <2>1. CASE PutObject
    BY <2>1 DEF PutObject
  <2>2. CASE SaveCreated
    BY <2>2 DEF SaveCreated, Send
  <2>3. CASE AbortUpload
    BY <2>3 DEF AbortUpload
  <2>4. CASE DeleteAborted
    BY <2>4 DEF DeleteAborted
  <2>5. CASE Destroy
    BY <2>5 DEF Destroy
  <2>6. CASE DeleteObject
    BY <2>6 DEF DeleteObject
  <2>7. ASSUME NEW r \in Completes, CompleteUpload(r) \/ LookUp(r) \/ SaveUploaded(r)
        PROVE  OwnerInv'
    <3>1. CASE CompleteUpload(r)
      BY <3>1 DEF CompleteUpload
    <3>2. CASE LookUp(r)
      BY <3>2 DEF LookUp
    <3>3. CASE SaveUploaded(r)
      BY <3>3 DEF SaveUploaded, Send
    <3> QED BY <2>7, <3>1, <3>2, <3>3
  <2>8. ASSUME NEW r \in Requests, Commit(r) PROVE OwnerInv'
    BY <2>8 DEF Commit
  <2> QED BY <1>1, <2>1, <2>2, <2>3, <2>4, <2>5, <2>6, <2>7, <2>8 DEF RequestStep
<1>2. ASSUME NEW r \in Requests, Lose(r) PROVE OwnerInv'
  BY <1>2 DEF Lose
<1>3. ASSUME NEW t \in Deliveries, WorkerStep(t) \/ Crash(t)
      PROVE  OwnerInv'
  <2>1. CASE Start(t)
    BY <2>1 DEF Start, WorkInv, Gone
  <2>2. CASE Upsert(t)
    BY <2>2 DEF Upsert, WorkInv, Gone
  <2>3. CASE Download(t)
    BY <2>3 DEF Download
  <2>4. CASE Convert(t)
    BY <2>4 DEF Convert
  <2>5. CASE Publish(t)
    BY <2>5 DEF Publish
  <2>6. CASE SaveMetadata(t)
    BY <2>6 DEF SaveMetadata
  <2>7. CASE Notify(t)
    BY <2>7 DEF Notify
  <2>8. CASE Fail(t)
    BY <2>8 DEF Fail
  <2>9. CASE Retry(t)
    BY <2>9 DEF Retry
  <2>10. CASE Crash(t)
    BY <2>10 DEF Crash
  <2> QED BY <1>3, <2>1, <2>2, <2>3, <2>4, <2>5, <2>6, <2>7, <2>8, <2>9, <2>10 DEF WorkerStep
<1>4. ASSUME NEW t \in Deliveries, NEW u \in Deliveries, Redeliver(t, u)
      PROVE  OwnerInv'
  BY <1>4 DEF Redeliver
<1>5. CASE UNCHANGED vars
  BY <1>5 DEF vars, work
<1> QED BY <1>1, <1>2, <1>3, <1>4, <1>5 DEF Next

\* Files, rows, deliveries and requests stay in step through every step of the
\* upload, the abort, the deletion and the tiling.
THEOREM IInvCorrect == Spec => []IInv
<1>1. Init => IInv
  <2> SUFFICES ASSUME Init PROVE IInv
    OBVIOUS
  <2> USE CompletesAssumption, RetriesAssumption DEF Init, Requests, Free
  <2>1. TypeOK
    <3>1. tries \in [Deliveries -> 0 .. MAX_RETRIES]
      OBVIOUS
    <3>2. pc \in [Deliveries -> {"unsent"} \cup Alive \cup Ended]
      OBVIOUS
    <3>3. CASE row = "absent"
      BY <3>1, <3>2, <3>3 DEF TypeOK
    <3>4. CASE row = "pending"
      BY <3>1, <3>2, <3>4 DEF TypeOK
    <3> QED BY <3>1, <3>2, <3>3, <3>4
  <2>2. RequestInv            BY DEF RequestInv
  <2>3. LockInv               BY DEF LockInv, Gone
  <2>4. WorkInv               BY DEF WorkInv, Gone
  <2>5. TileInv /\ OwnerInv   BY DEF TileInv, OwnerInv
  <2> QED BY <2>1, <2>2, <2>3, <2>4, <2>5 DEF IInv
<1>2. IInv /\ [Next]_vars => IInv'
  BY TypeStep, RequestInvStep, LockInvStep, WorkInvStep, TileInvStep, OwnerInvStep
     DEF IInv
<1> QED BY <1>1, <1>2, PTL DEF Spec

\* The tile file of a ready tileset and the object of an uploaded dataset can be
\* read, whatever failed, was delivered twice or was deleted on the way.
THEOREM ServedCorrect == Spec => []ServedFilesExist
<1>1. IInv => ServedFilesExist
  BY DEF IInv, TileInv, LockInv, ServedFilesExist
<1> QED BY <1>1, IInvCorrect, PTL

\* What was aborted leaves no object, no uploaded row and no tileset.
THEOREM AbortCorrect == Spec => []AbortIsFinal
<1>1. IInv => AbortIsFinal
  BY DEF IInv, RequestInv, LockInv, WorkInv, AbortIsFinal, Gone
<1> QED BY <1>1, IInvCorrect, PTL

\* A tileset that is processing or failed has a delivery that will change it, or
\* one that shows why none will.
THEOREM OwnedCorrect == Spec => []StatusIsOwned
<1>1. IInv => StatusIsOwned
  BY DEF IInv, OwnerInv, StatusIsOwned, Quiet, Ended
<1> QED BY <1>1, IInvCorrect, PTL

\* An uploaded raster stays untiled only when its task came before the commit,
\* died, or could not be sent.
THEOREM UntiledCorrect == Spec => []UntiledForAReason
<1>1. IInv => UntiledForAReason
  BY DEF IInv, WorkInv, UntiledForAReason, Quiet, Ended
<1> QED BY <1>1, IInvCorrect, PTL

=============================================================================
