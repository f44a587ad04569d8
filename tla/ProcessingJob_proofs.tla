------------------------ MODULE ProcessingJob_proofs ------------------------
(* Proofs about ProcessingJob, for any number of deliveries and of cancelling
   requests.  OutputInv follows one delivery's result through its steps;
   SettleInv says who still owes the job its last status. *)

EXTENDS ProcessingJob, TLAPS

LEMMA ConstantFacts ==
  /\ PROGRESS_STEP \in Nat \ {0} /\ OpProgress \subseteq 0 .. 99
  /\ NoDelivery \notin Deliveries
  BY DeliveriesAssumption, ProgressAssumption

LEMMA CompletedRow ==
  ASSUME NEW j \in JobRow
  PROVE  [j EXCEPT !.status = "completed", !.completedAt = "now",
                   !.progress = 100] \in JobRow
<1>1. [j EXCEPT !.status = "completed"] \in JobRow
  BY DEF JobRow, Status
<1>2. [[j EXCEPT !.status = "completed"] EXCEPT !.completedAt = "now"] \in JobRow
  BY <1>1 DEF JobRow
<1>3. \A k \in JobRow : [k EXCEPT !.progress = 100] \in JobRow
  BY DEF JobRow
<1> QED BY <1>2, <1>3

LEMMA FailedRow ==
  ASSUME NEW j \in JobRow, NEW e \in {"operation", "notification"}
  PROVE  [j EXCEPT !.status = "failed", !.completedAt = "now",
                   !.error = e] \in JobRow
<1>1. [j EXCEPT !.status = "failed"] \in JobRow
  BY DEF JobRow, Status
<1>2. [[j EXCEPT !.status = "failed"] EXCEPT !.completedAt = "now"] \in JobRow
  BY <1>1 DEF JobRow
<1>3. \A k \in JobRow : [k EXCEPT !.error = e] \in JobRow
  BY DEF JobRow
<1> QED BY <1>2, <1>3

\* The variables of the model always have values of their types
\* (the columns and statuses of the job, its datasets, its requests).
THEOREM TypeCorrect == Spec => []TypeOK
<1>1. Init => TypeOK
  <2> SUFFICES ASSUME Init PROVE TypeOK
    OBVIOUS
  <2>1. last \in [Deliveries -> {-PROGRESS_STEP} \cup 0 .. 100]
    BY Zenon DEF Init
  <2>2. job \in JobRow
    BY DEF Init, JobRow, Status
  <2>3. stored \in BOOLEAN /\ revoked \in BOOLEAN
    BY DEF Init
  <2> QED BY <2>1, <2>2, <2>3 DEF Init, TypeOK
<1>2. TypeOK /\ [Next]_vars => TypeOK'
  <2> SUFFICES ASSUME TypeOK, [Next]_vars PROVE TypeOK'
    OBVIOUS
  <2> USE ConstantFacts DEF TypeOK, JobRow, Status, Alive, Running, Ended, Goto
  <2>1. CASE CreateRequest
    BY <2>1 DEF CreateRequest, Delay, SaveTaskId
  <2>2. CASE LoseCreate
    BY <2>2 DEF LoseCreate
  <2>3. ASSUME NEW t \in Deliveries, NEW u \in Deliveries, Redeliver(t, u)
        PROVE  TypeOK'
    BY <2>3 DEF Redeliver
  <2>4. ASSUME NEW r \in CancelRequests, CancelRequest(r) \/ LoseCancel(r)
        PROVE  TypeOK'
    <3>1. CASE ReadJob(r)        BY <3>1 DEF ReadJob
    <3>2. CASE Revoke(r)         BY <3>2 DEF Revoke
    <3>3. CASE SaveCancelled(r)  BY <3>3 DEF SaveCancelled
    <3>4. CASE LoseCancel(r)     BY <3>4 DEF LoseCancel
    <3> QED BY <2>4, <3>1, <3>2, <3>3, <3>4 DEF CancelRequest
  <2>5. ASSUME NEW t \in Deliveries, WorkerStep(t)
        PROVE  TypeOK'
    <3>1. CASE Start(t)          BY <3>1 DEF Start
    <3>2. CASE ReportStart(t)    BY <3>2 DEF ReportStart
    <3>3. CASE BeginOp(t)        BY <3>3 DEF BeginOp
    <3>4. CASE FinishOp(t)
      <4>1. /\ features' \in {features, [features EXCEPT ![t] = "staging"]}
            /\ stored' \in BOOLEAN
        BY <3>4 DEF FinishOp, InsertFeatures, UploadRaster
      <4> QED BY <3>4, <4>1 DEF FinishOp, InsertFeatures, UploadRaster
    <3>5. CASE Raise(t)          BY <3>5 DEF Raise
    <3>6. ASSUME NEW p \in OpProgress, Report(t, p) PROVE TypeOK'
      <4>1. p \in 0 .. 100
        OBVIOUS
      <4>2. job' = [job EXCEPT !.progress = p] /\ last' = [last EXCEPT ![t] = p]
            /\ pc' \in {[pc EXCEPT ![t] = "op"], [pc EXCEPT ![t] = "fail"]}
            /\ UNCHANGED <<view, cancel, revoked, staging, features, dataset,
                           stored, stream>>
        BY <3>6 DEF Report
      <4> QED BY <4>1, <4>2
    <3>7. CASE CreateOutputDataset(t)
      BY <3>7 DEF CreateOutputDataset, Moved
    <3>8. CASE Complete(t)
      <4>1. job' \in JobRow
        BY ZenonT(60), <3>8, CompletedRow DEF Complete
      <4> QED BY <3>8, <4>1 DEF Complete
    <3>9. CASE Announce(t)       BY <3>9 DEF Announce
    <3>10. CASE Fail(t)
      <4> DEFINE e == IF pc[t] = "fail" THEN "operation" ELSE "notification"
      <4>1. job' \in JobRow
        <5>1. e \in {"operation", "notification"} /\ job \in JobRow
          OBVIOUS
        <5>2. job' = [job EXCEPT !.status = "failed", !.completedAt = "now",
                                 !.error = e]
          BY <3>10 DEF Fail
        <5> HIDE DEF e, TypeOK, JobRow
        <5> QED BY <5>1, <5>2, FailedRow
      <4> QED BY <3>10, <4>1 DEF Fail
    <3>11. CASE ReportFail(t)    BY <3>11 DEF ReportFail
    <3> QED BY <2>5, <3>1, <3>2, <3>3, <3>4, <3>5, <3>6, <3>7, <3>8, <3>9,
               <3>10, <3>11 DEF WorkerStep
  <2>6. ASSUME NEW t \in Deliveries, Terminate(t) \/ Crash(t)
        PROVE  TypeOK'
    BY <2>6 DEF Terminate, Crash
  <2>7. ASSUME NEW t \in Deliveries, DeleteStaging(t) \/ DeleteOutput(t)
        PROVE  TypeOK'
    <3>1. CASE DeleteStaging(t)  BY <3>1 DEF DeleteStaging
    <3>2. CASE DeleteOutput(t)
      <4>1. job' \in {job, [job EXCEPT !.output = NoDelivery]}
        BY <3>2 DEF DeleteOutput
      <4> QED BY <3>2, <4>1 DEF DeleteOutput
    <3> QED BY <2>7, <3>1, <3>2
  <2>8. CASE UNCHANGED vars
    BY <2>8 DEF vars
  <2> QED BY <2>1, <2>2, <2>3, <2>4, <2>5, <2>6, <2>7, <2>8 DEF Next
<1> QED BY <1>1, <1>2, PTL DEF Spec

-----------------------------------------------------------------------------
LEMMA OutputInvStep ==
  ASSUME TypeOK, OutputInv, CompletedMeansProduced, [Next]_vars
  PROVE  OutputInv' /\ CompletedMeansProduced'
<1> USE DEF TypeOK, OutputInv, CompletedMeansProduced, BeforeOutput, Goto
<1>1. CASE CreateRequest
  <2>1. ASSUME NEW t \in Deliveries, Delay(t)
        PROVE  OutputInv' /\ CompletedMeansProduced'
    BY <2>1 DEF Delay
  <2>2. CASE SaveTaskId  BY <2>2 DEF SaveTaskId, JobRow
  <2> QED BY <1>1, <2>1, <2>2 DEF CreateRequest
<1>2. CASE LoseCreate
  BY <1>2 DEF LoseCreate
<1>3. ASSUME NEW t \in Deliveries, NEW u \in Deliveries, Redeliver(t, u)
      PROVE  OutputInv' /\ CompletedMeansProduced'
  BY <1>3 DEF Redeliver
<1>4. ASSUME NEW r \in CancelRequests, CancelRequest(r) \/ LoseCancel(r)
      PROVE  OutputInv' /\ CompletedMeansProduced'
  <2>1. /\ UNCHANGED <<pc, staging, features, dataset>>
        /\ job'.makes = job.makes
        /\ job'.status = job.status \/ job'.status = "failed"
    BY <1>4 DEF CancelRequest, LoseCancel, ReadJob, Revoke, SaveCancelled, JobRow
  <2> QED BY <2>1
<1>5. ASSUME NEW t \in Deliveries, WorkerStep(t)
      PROVE  OutputInv' /\ CompletedMeansProduced'
  <2>1. CASE Start(t)        BY <2>1 DEF Start, JobRow
  <2>2. CASE ReportStart(t)  BY <2>2 DEF ReportStart, JobRow
  <2>3. CASE BeginOp(t)      BY <2>3 DEF BeginOp
  <2>4. CASE FinishOp(t)     BY <2>4 DEF FinishOp, InsertFeatures, UploadRaster
  <2>5. CASE Raise(t)        BY <2>5 DEF Raise
  <2>6. ASSUME NEW p \in OpProgress, Report(t, p)
        PROVE  OutputInv' /\ CompletedMeansProduced'
    BY <2>6 DEF Report, JobRow
  <2>7. CASE CreateOutputDataset(t)
    BY <2>7 DEF CreateOutputDataset, Moved, JobRow
  <2>8. CASE Complete(t)     BY <2>8 DEF Complete
  <2>9. CASE Announce(t)     BY <2>9 DEF Announce, JobRow
  <2>10. CASE Fail(t)        BY <2>10 DEF Fail, JobRow
  <2>11. CASE ReportFail(t)  BY <2>11 DEF ReportFail
  <2> QED BY <1>5, <2>1, <2>2, <2>3, <2>4, <2>5, <2>6, <2>7, <2>8, <2>9,
             <2>10, <2>11 DEF WorkerStep
<1>6. ASSUME NEW t \in Deliveries, Terminate(t) \/ Crash(t)
      PROVE  OutputInv' /\ CompletedMeansProduced'
  BY <1>6 DEF Terminate, Crash
<1>7. ASSUME NEW t \in Deliveries, DeleteStaging(t) \/ DeleteOutput(t)
      PROVE  OutputInv' /\ CompletedMeansProduced'
  <2>1. CASE DeleteStaging(t)  BY <2>1 DEF DeleteStaging
  <2>2. CASE DeleteOutput(t)
    <3>1. job'.status = job.status
      BY <2>2 DEF DeleteOutput, JobRow
    <3> QED BY <2>2, <3>1 DEF DeleteOutput
  <2> QED BY <1>7, <2>1, <2>2
<1>8. CASE UNCHANGED vars
  BY <1>8 DEF vars
<1> QED BY <1>1, <1>2, <1>3, <1>4, <1>5, <1>6, <1>7, <1>8 DEF Next

LEMMA SettleInvStep ==
  ASSUME TypeOK, SettleInv, [Next]_vars
  PROVE  SettleInv'
<1> USE DEF TypeOK, SettleInv, Owing, Goto
<1>1. CASE CreateRequest
  <2>1. ASSUME NEW t \in Deliveries, Delay(t) PROVE SettleInv'
    BY <2>1 DEF Delay
  <2>2. CASE SaveTaskId  BY <2>2 DEF SaveTaskId, JobRow
  <2> QED BY <1>1, <2>1, <2>2 DEF CreateRequest
<1>2. CASE LoseCreate
  BY <1>2 DEF LoseCreate
<1>3. ASSUME NEW t \in Deliveries, NEW u \in Deliveries, Redeliver(t, u)
      PROVE  SettleInv'
  BY <1>3 DEF Redeliver
<1>4. ASSUME NEW r \in CancelRequests, CancelRequest(r) \/ LoseCancel(r)
      PROVE  SettleInv'
  <2>1. UNCHANGED <<pc, view>> /\ (job'.status = job.status \/ job'.status = "failed")
    BY <1>4 DEF CancelRequest, LoseCancel, ReadJob, Revoke, SaveCancelled, JobRow
  <2> QED BY <2>1
<1>5. ASSUME NEW t \in Deliveries, WorkerStep(t)
      PROVE  SettleInv'
  <2>1. CASE Start(t)        BY <2>1 DEF Start, JobRow
  <2>2. CASE ReportStart(t)  BY <2>2 DEF ReportStart, JobRow
  <2>3. CASE BeginOp(t)      BY <2>3 DEF BeginOp
  <2>4. CASE FinishOp(t)     BY <2>4 DEF FinishOp, InsertFeatures, UploadRaster
  <2>5. CASE Raise(t)        BY <2>5 DEF Raise
  <2>6. ASSUME NEW p \in OpProgress, Report(t, p) PROVE SettleInv'
    BY <2>6 DEF Report, JobRow
  <2>7. CASE CreateOutputDataset(t)
    BY <2>7 DEF CreateOutputDataset, Moved, JobRow
  <2>8. CASE Complete(t)     BY <2>8 DEF Complete, JobRow
  <2>9. CASE Announce(t)     BY <2>9 DEF Announce, JobRow
  <2>10. CASE Fail(t)        BY <2>10 DEF Fail, JobRow
  <2>11. CASE ReportFail(t)  BY <2>11 DEF ReportFail
  <2> QED BY <1>5, <2>1, <2>2, <2>3, <2>4, <2>5, <2>6, <2>7, <2>8, <2>9,
             <2>10, <2>11 DEF WorkerStep
<1>6. ASSUME NEW t \in Deliveries, Terminate(t) \/ Crash(t)
      PROVE  SettleInv'
  BY <1>6 DEF Terminate, Crash, Alive, Running
<1>7. ASSUME NEW t \in Deliveries, DeleteStaging(t) \/ DeleteOutput(t)
      PROVE  SettleInv'
  <2>1. UNCHANGED <<pc, view>> /\ job'.status = job.status
    BY ZenonT(60), <1>7 DEF DeleteStaging, DeleteOutput, JobRow
  <2> QED BY <2>1
<1>8. CASE UNCHANGED vars
  BY <1>8 DEF vars
<1> QED BY <1>1, <1>2, <1>3, <1>4, <1>5, <1>6, <1>7, <1>8 DEF Next

\* IInv is inductive: each part only needs the type invariant and itself.
THEOREM IInvCorrect == Spec => []IInv
<1>1. Init => OutputInv /\ CompletedMeansProduced /\ SettleInv
  BY DEF Init, OutputInv, CompletedMeansProduced, SettleInv, BeforeOutput
<1>2. TypeOK /\ OutputInv /\ CompletedMeansProduced /\ SettleInv /\ [Next]_vars
        => (OutputInv /\ CompletedMeansProduced /\ SettleInv)'
  BY OutputInvStep, SettleInvStep
<1> QED BY <1>1, <1>2, TypeCorrect, PTL DEF Spec, IInv

\* A job that reads "completed" did commit an output: the status is saved after
\* the output transaction, whatever the other actors do meanwhile.
THEOREM CompletedCorrect == Spec => []CompletedMeansProduced
  BY IInvCorrect, PTL DEF IInv

\* A vector output that exists has its features, or the user deleted them.
THEOREM PublishedCorrect == Spec => []PublishedWhole
<1>1. IInv => PublishedWhole
  BY DEF IInv, OutputInv, PublishedWhole
<1> QED BY <1>1, IInvCorrect, PTL

\* At rest, a job is unfinished only if its message was never sent, or a
\* delivery was killed or lost its first notification.
THEOREM StuckCorrect == Spec => []StuckOnlyIfKilled
<1>1. IInv => StuckOnlyIfKilled
  <2> SUFFICES ASSUME IInv, AtRest, job.status \notin Terminal, view # "lost"
               PROVE  Killed
    BY DEF StuckOnlyIfKilled
  <2>1. job.status \in {"processing", "pending"}
    BY DEF IInv, TypeOK, JobRow, Status, Terminal
  <2>2. CASE job.status = "processing"
    BY <2>2 DEF IInv, SettleInv, AtRest, Killed, Alive, Running, Owing
  <2>3. CASE job.status = "pending"
    <3>1. PICK t \in Deliveries : pc[t] # "unsent"
      BY DEF IInv, SettleInv, AtRest
    <3> QED BY <2>3, <3>1 DEF IInv, SettleInv, AtRest, Killed, Alive
  <2> QED BY <2>1, <2>2, <2>3
<1> QED BY <1>1, IInvCorrect, PTL

-----------------------------------------------------------------------------
\* A delivery that was sent is never unsent again.
LEMMA SentStays ==
  ASSUME TypeOK, [Next]_vars, NEW u \in Deliveries, pc[u] # "unsent"
  PROVE  pc'[u] # "unsent"
<1> USE DEF TypeOK, Goto
<1>1. CASE CreateRequest
  BY <1>1 DEF CreateRequest, Delay, SaveTaskId
<1>2. CASE LoseCreate
  BY <1>2 DEF LoseCreate
<1>3. ASSUME NEW t \in Deliveries, NEW v \in Deliveries, Redeliver(t, v)
      PROVE  pc'[u] # "unsent"
  BY <1>3 DEF Redeliver
<1>4. ASSUME NEW r \in CancelRequests, CancelRequest(r) \/ LoseCancel(r)
      PROVE  pc'[u] # "unsent"
  BY <1>4 DEF CancelRequest, LoseCancel, ReadJob, Revoke, SaveCancelled
<1>5. ASSUME NEW t \in Deliveries, WorkerStep(t)
      PROVE  pc'[u] # "unsent"
  BY <1>5 DEF WorkerStep, Start, ReportStart, BeginOp, FinishOp, Raise, Report,
              CreateOutputDataset, Complete, Announce, Fail, ReportFail
<1>6. ASSUME NEW t \in Deliveries,
             Terminate(t) \/ Crash(t) \/ DeleteStaging(t) \/ DeleteOutput(t)
      PROVE  pc'[u] # "unsent"
  BY <1>6 DEF Terminate, Crash, DeleteStaging, DeleteOutput
<1>7. CASE UNCHANGED vars
  BY <1>7 DEF vars
<1> QED BY <1>1, <1>2, <1>3, <1>4, <1>5, <1>6, <1>7 DEF Next

LEMMA SoleDeliveryStep ==
  ASSUME TypeOK, OutputInv, DeliveredOnce, DeliveredOnce', SoleDelivery,
         [Next]_vars
  PROVE  SoleDelivery'
<1> USE DEF TypeOK, SoleDelivery, BeforeOutput, Goto
<1>1. CASE CreateRequest
  <2>1. ASSUME NEW t \in Deliveries, Delay(t) PROVE SoleDelivery'
    BY <2>1 DEF Delay, DeliveredOnce
  <2>2. CASE SaveTaskId  BY <2>2 DEF SaveTaskId, JobRow
  <2> QED BY <1>1, <2>1, <2>2 DEF CreateRequest
<1>2. CASE LoseCreate
  BY <1>2 DEF LoseCreate
<1>3. ASSUME NEW t \in Deliveries, NEW u \in Deliveries, Redeliver(t, u)
      PROVE  SoleDelivery'
  BY <1>3 DEF Redeliver, DeliveredOnce
<1>4. ASSUME NEW r \in CancelRequests, CancelRequest(r) \/ LoseCancel(r)
      PROVE  SoleDelivery'
  <2>1. /\ UNCHANGED <<pc, last, dataset, stored, job.progress, job.output, job.makes>>
        /\ job'.error = job.error \/ job'.error = "cancelled"
    BY <1>4 DEF CancelRequest, LoseCancel, ReadJob, Revoke, SaveCancelled, JobRow
  <2> QED BY <2>1
<1>5. ASSUME NEW t \in Deliveries, WorkerStep(t)
      PROVE  SoleDelivery'
  <2>0. \A u \in Deliveries : pc[u] # "unsent" => u = t
    BY <1>5 DEF DeliveredOnce, WorkerStep, Start, ReportStart, BeginOp, FinishOp,
       Raise, Report, CreateOutputDataset, Complete, Announce, Fail, ReportFail
  <2>1. CASE Start(t)        BY <2>0, <2>1 DEF Start, JobRow
  <2>2. CASE ReportStart(t)  BY <2>0, <2>2 DEF ReportStart, JobRow
  <2>3. CASE BeginOp(t)      BY <2>0, <2>3 DEF BeginOp
  <2>4. CASE FinishOp(t)
    BY <2>0, <2>4 DEF FinishOp, InsertFeatures, UploadRaster, OutputInv
  <2>5. CASE Raise(t)        BY <2>0, <2>5 DEF Raise
  <2>6. ASSUME NEW p \in OpProgress, Report(t, p)
        PROVE  SoleDelivery'
    BY <2>0, <2>6 DEF Report, JobRow
  <2>7. CASE CreateOutputDataset(t)
    BY <2>0, <2>7 DEF CreateOutputDataset, JobRow
  <2>8. CASE Complete(t)     BY <2>0, <2>8 DEF Complete, JobRow
  <2>9. CASE Announce(t)     BY <2>0, <2>9 DEF Announce, JobRow
  <2>10. CASE Fail(t)        BY <2>0, <2>10 DEF Fail, JobRow
  <2>11. CASE ReportFail(t)  BY <2>0, <2>11 DEF ReportFail
  <2> QED BY <1>5, <2>1, <2>2, <2>3, <2>4, <2>5, <2>6, <2>7, <2>8, <2>9,
             <2>10, <2>11 DEF WorkerStep
<1>6. ASSUME NEW t \in Deliveries, Terminate(t) \/ Crash(t)
      PROVE  SoleDelivery'
  BY <1>6 DEF Terminate, Crash, Alive, Running
<1>7. ASSUME NEW t \in Deliveries, DeleteStaging(t) \/ DeleteOutput(t)
      PROVE  SoleDelivery'
  <2>1. CASE DeleteStaging(t)  BY <2>1 DEF DeleteStaging
  <2>2. CASE DeleteOutput(t)
    <3>1. \A u \in Deliveries : pc[u] # "unsent" => u = t
      BY <2>2 DEF DeleteOutput, OutputInv, DeliveredOnce
    <3>2. job' \in {job, [job EXCEPT !.output = NoDelivery]}
      BY <2>2 DEF DeleteOutput
    <3> QED BY <2>2, <3>1, <3>2 DEF DeleteOutput, OutputInv, JobRow
  <2> QED BY <1>7, <2>1, <2>2
<1>8. CASE UNCHANGED vars
  BY <1>8 DEF vars
<1> QED BY <1>1, <1>2, <1>3, <1>4, <1>5, <1>6, <1>7, <1>8 DEF Next

\* With one delivery, the row follows that delivery's statements.
THEOREM OnceInvCorrect == Spec => []OnceInv
<1>1. Init => OnceInv
  BY DEF Init, OnceInv, SoleDelivery, BeforeOutput
<1>2. TypeOK /\ OutputInv /\ OnceInv /\ [Next]_vars => OnceInv'
  BY SentStays, SoleDeliveryStep DEF OnceInv, DeliveredOnce
<1> QED BY <1>1, <1>2, IInvCorrect, PTL DEF Spec, IInv

\* A raster output that exists can be downloaded, and a job that failed in its
\* operation shows no output, while the message was delivered once.
THEOREM OutputMatchesCorrect == Spec => []OutputMatchesJob
<1>1. OnceInv => OutputMatchesJob
  BY DEF OnceInv, SoleDelivery, OutputMatchesJob
<1> QED BY <1>1, OnceInvCorrect, PTL

\* The percentage a client polls never goes back, while the message was
\* delivered once: the throttle of the reporter, then the completion.
THEOREM ProgressCorrect == Spec => ProgressNeverBack
<1>1. ASSUME TypeOK, OnceInv, [Next]_vars, DeliveredOnce
      PROVE  job'.progress >= job.progress
  <2> USE DEF TypeOK, JobRow
  <2>0. SoleDelivery /\ job.progress \in 0 .. 100
    BY <1>1 DEF OnceInv
  <2>1. CASE CreateRequest \/ LoseCreate \/ UNCHANGED vars
    BY <1>1, <2>0, <2>1 DEF CreateRequest, Delay, SaveTaskId, LoseCreate, vars
  <2>2. ASSUME NEW t \in Deliveries, NEW u \in Deliveries, Redeliver(t, u)
        PROVE  job'.progress >= job.progress
    BY <1>1, <2>0, <2>2 DEF Redeliver
  <2>3. ASSUME NEW r \in CancelRequests, CancelRequest(r) \/ LoseCancel(r)
        PROVE  job'.progress >= job.progress
    <3>1. job'.progress = job.progress
      BY <1>1, <2>3 DEF CancelRequest, LoseCancel, ReadJob, Revoke, SaveCancelled
    <3> QED BY <2>0, <3>1
  <2>4. ASSUME NEW t \in Deliveries, WorkerStep(t)
        PROVE  job'.progress >= job.progress
    <3>1. CASE ReportStart(t)
      BY <1>1, <2>0, <3>1 DEF ReportStart, SoleDelivery
    <3>2. ASSUME NEW p \in OpProgress, Report(t, p)
          PROVE  job'.progress >= job.progress
      <4>1. p \in 0 .. 99 /\ p - last[t] >= PROGRESS_STEP /\ PROGRESS_STEP \in Nat
        BY <3>2, ConstantFacts DEF Report, Passes
      <4>2. job.progress = last[t] /\ job'.progress = p
        BY <1>1, <2>0, <3>2 DEF Report, SoleDelivery
      <4> QED BY <4>1, <4>2, <2>0
    <3>3. CASE Complete(t) \/ Announce(t)
      <4>1. job'.progress = 100
        BY <1>1, <3>3 DEF Complete, Announce
      <4> QED BY <2>0, <4>1
    <3>4. CASE Start(t) \/ BeginOp(t) \/ FinishOp(t) \/ Raise(t)
               \/ CreateOutputDataset(t) \/ Fail(t) \/ ReportFail(t)
      <4>1. job'.progress = job.progress
        BY <1>1, <3>4 DEF Start, BeginOp, FinishOp, Raise, CreateOutputDataset,
           Fail, ReportFail
      <4> QED BY <2>0, <4>1
    <3> QED BY <2>4, <3>1, <3>2, <3>3, <3>4 DEF WorkerStep
  <2>5. ASSUME NEW t \in Deliveries,
               Terminate(t) \/ Crash(t) \/ DeleteStaging(t) \/ DeleteOutput(t)
        PROVE  job'.progress >= job.progress
    <3>1. job'.progress = job.progress
      BY ZenonT(60), <1>1, <2>5 DEF Terminate, Crash, DeleteStaging, DeleteOutput
    <3> QED BY <2>0, <3>1
  <2> QED BY <1>1, <2>1, <2>2, <2>3, <2>4, <2>5 DEF Next
<1>2. TypeOK /\ OnceInv /\ [Next]_vars
        => [DeliveredOnce => job'.progress >= job.progress]_vars
  BY <1>1
<1> QED BY <1>2, TypeCorrect, OnceInvCorrect, PTL DEF Spec, ProgressNeverBack

=============================================================================
