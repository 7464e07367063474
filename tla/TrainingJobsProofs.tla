------------------------- MODULE TrainingJobsProofs -------------------------
(***************************************************************************)
(* Proofs about TrainingJobs, for any jobs, tenants, keys, limits and       *)
(* times.  The last part is about whose a job is and about what its record  *)
(* says of the remote job behind it: which reservation made it, when a      *)
(* remote job may run behind a finished record, and why a poller that was   *)
(* never restarted outlasts the remote job.                                 *)
(***************************************************************************)
EXTENDS TrainingJobs, FiniteSetTheorems, TLAPS

USE DEF durable, process, thread, WorkerOnly

(* The records the code builds are records.                                 *)
LEMMA RecordTypes ==
  /\ NoRow \in Record
  /\ \A t \in Tenants \cup {None} : Queued(t) \in Record
  /\ \A job \in Record :
       /\ \A reason \in Reasons : Failed(job, reason) \in Record
       /\ Recorded(job) \in Record
       /\ Finalizing(job) \in Record
       /\ \A s \in ActiveStatuses \cup TERMINAL_STATES :
             [job EXCEPT !.status = s] \in Record
  BY DEF NoRow, Queued, Failed, Recorded, Finalizing, Record, Reasons,
         ActiveStatuses, TERMINAL_STATES

(* The provider's initial state of a job is a RemoteJob.                    *)
LEMMA NoRemoteType == NoRemote \in RemoteJob
  BY DEF NoRemote, RemoteJob

(* The worker's writes keep the variables they touch well-typed.            *)
LEMMA PutType ==
  ASSUME TypeOK, NEW j \in Jobs, NEW job \in Record, Put(j, job)
  PROVE  row' \in [Jobs -> Record]
  BY DEF TypeOK, Put

(* A worker's new place and local record are well-typed.                    *)
LEMMA GoType ==
  ASSUME TypeOK, NEW j \in Jobs, NEW step \in WorkerSteps, NEW job \in Record,
         Go(j, step, job)
  PROVE  pc' \in [Jobs -> WorkerSteps] /\ copy' \in [Jobs -> Record]
  BY DEF TypeOK, Go

(* A worker that returns leaves its variables well-typed.                   *)
LEMMA ReturnType ==
  ASSUME TypeOK, NEW j \in Jobs, Return(j)
  PROVE  /\ pc' \in [Jobs -> WorkerSteps] /\ copy' \in [Jobs -> Record]
         /\ left' \in [Jobs -> Nat \cup {-1}]
         /\ tries' \in [Jobs -> 0..FinalizeAttempts]
<1>1. Go(j, "idle", NoRow) /\ "idle" \in WorkerSteps
  BY DEF Return, WorkerSteps
<1>2. pc' \in [Jobs -> WorkerSteps] /\ copy' \in [Jobs -> Record]
  BY <1>1, GoType, RecordTypes
<1>3. left' \in [Jobs -> Nat \cup {-1}] /\ tries' \in [Jobs -> 0..FinalizeAttempts]
  BY LimitsAssumption DEF Return, TypeOK
<1> QED BY <1>2, <1>3

(* So does one that fails its job and returns.                              *)
LEMMA FailAndReturnType ==
  ASSUME TypeOK, NEW j \in Jobs, NEW reason \in Reasons, FailAndReturn(j, reason)
  PROVE  /\ row' \in [Jobs -> Record]
         /\ pc' \in [Jobs -> WorkerSteps] /\ copy' \in [Jobs -> Record]
         /\ left' \in [Jobs -> Nat \cup {-1}]
         /\ tries' \in [Jobs -> 0..FinalizeAttempts]
<1>1. copy[j] \in Record
  BY DEF TypeOK
<1>2. Failed(copy[j], reason) \in Record
  BY <1>1, RecordTypes
<1> QED BY <1>2, PutType, ReturnType DEF FailAndReturn

(* Every record is well-typed after any step of any actor.                  *)
LEMMA TypeStep == TypeOK /\ [Next]_vars => TypeOK'
<1> SUFFICES ASSUME TypeOK, [Next]_vars PROVE TypeOK'
  OBVIOUS
<1> USE LimitsAssumption, TimesAssumption
<1>0. \A j \in Jobs : copy[j] \in Record /\ row[j] \in Record
                      /\ row[j].tenant \in Tenants \cup {None}
  BY DEF TypeOK, Record
<1>1. ASSUME NEW t \in Tenants, NEW k \in Keys, NEW j \in Jobs, Reserve(t, k, j)
      PROVE  TypeOK'
  <2>1. row' \in [Jobs -> Record]
    BY <1>1, PutType, RecordTypes DEF Reserve
  <2> QED BY <1>1, <2>1 DEF Reserve, TypeOK
<1>2. ASSUME NEW j \in Jobs, AgeOut(j) PROVE TypeOK'
  BY <1>2 DEF AgeOut, TypeOK
<1>3. ASSUME NEW j \in Jobs, SnapshotInputs(j) PROVE TypeOK'
  <2>1. Failed(Queued(row[j].tenant), "input-publication") \in Record
    BY <1>0, RecordTypes DEF Reasons
  <2>2. row' \in [Jobs -> Record]
    BY <1>3, <2>1, PutType DEF SnapshotInputs, TypeOK
  <2> QED BY <1>3, <2>2 DEF SnapshotInputs, TypeOK
<1>4. ASSUME NEW j \in Jobs, Launch(j) PROVE TypeOK'
  <2>1. pc' \in [Jobs -> WorkerSteps] /\ copy' \in [Jobs -> Record]
    BY <1>4, <1>0, GoType, RecordTypes DEF Launch, WorkerSteps, TypeOK
  <2> QED BY <1>4, <2>1 DEF Launch, TypeOK
<1>5. ASSUME NEW j \in Jobs, Submit(j) PROVE TypeOK'
  <2>1. CASE FailAndReturn(j, "submission") /\ UNCHANGED remote
    BY <1>5, <2>1, FailAndReturnType DEF Submit, TypeOK, Reasons
  <2>2. ASSUME NEW step \in {"record", "refused"}, Go(j, step, copy[j]),
               remote' = [remote EXCEPT ![j].state = "pending",
                                        ![j].left = RemoteLife,
                                        ![j].creates = @ + 1],
               UNCHANGED <<row, left, tries>>
        PROVE TypeOK'
    <3>1. pc' \in [Jobs -> WorkerSteps] /\ copy' \in [Jobs -> Record]
      BY <2>2, <1>0, GoType DEF WorkerSteps
    <3>2. remote' \in [Jobs -> RemoteJob]
      BY <2>2 DEF TypeOK, RemoteJob, RemoteLive
    <3> QED BY <1>5, <2>2, <3>1, <3>2 DEF Submit, TypeOK
  <2> QED BY <1>5, <2>1, <2>2 DEF Submit
<1>6. ASSUME NEW j \in Jobs, SubmissionRefused(j) PROVE TypeOK'
  BY <1>6, FailAndReturnType DEF SubmissionRefused, TypeOK, Reasons
<1>7. ASSUME NEW j \in Jobs, RecordRemoteId(j) PROVE TypeOK'
  <2>1. row' \in [Jobs -> Record]
    BY <1>7, <1>0, RecordTypes, PutType DEF RecordRemoteId
  <2>2. pc' \in [Jobs -> WorkerSteps] /\ copy' \in [Jobs -> Record]
    BY <1>7, <1>0, RecordTypes, GoType DEF RecordRemoteId, WorkerSteps
  <2>3. left' \in [Jobs -> Nat \cup {-1}]
    BY <1>7 DEF RecordRemoteId, Deadline, TypeOK
  <2> QED BY <1>7, <2>1, <2>2, <2>3 DEF RecordRemoteId, TypeOK
<1>8. ASSUME NEW j \in Jobs, CheckDeadline(j) PROVE TypeOK'
  <2>1. CASE FailAndReturn(j, "timeout")
    BY <1>8, <2>1, FailAndReturnType DEF CheckDeadline, TypeOK, Reasons
  <2>2. CASE Go(j, "read", copy[j]) /\ UNCHANGED <<row, left, tries>>
    BY <1>8, <2>2, <1>0, GoType DEF CheckDeadline, TypeOK, WorkerSteps
  <2> QED BY <1>8, <2>1, <2>2 DEF CheckDeadline
<1>9. ASSUME NEW j \in Jobs, ReadState(j) PROVE TypeOK'
  <2> DEFINE status == MapState(remote[j].state)
             job    == [copy[j] EXCEPT !.status = status]
             ending == Finalizing(copy[j])
  <2>1. CASE Go(j, "check", copy[j]) /\ UNCHANGED <<row, tries>>
    BY <1>9, <2>1, <1>0, GoType DEF ReadState, TypeOK, WorkerSteps
  <2>2. CASE /\ Put(j, ending) /\ Go(j, "finalize", ending)
             /\ tries' = [tries EXCEPT ![j] = FinalizeAttempts]
    <3>1. ending \in Record
      BY <1>0, RecordTypes
    <3>2. row' \in [Jobs -> Record] /\ pc' \in [Jobs -> WorkerSteps]
          /\ copy' \in [Jobs -> Record]
      BY <2>2, <3>1, PutType, GoType DEF WorkerSteps
    <3>3. tries' \in [Jobs -> 0..FinalizeAttempts]
      BY <2>2 DEF TypeOK
    <3>4. UNCHANGED <<requests, recent, manifest, process, left, remote, crashes>>
      BY <1>9 DEF ReadState
    <3> QED BY <3>2, <3>3, <3>4 DEF TypeOK
  <2>3. CASE /\ status \notin {"unknown", "completed"}
             /\ Put(j, job)
             /\ Go(j, IF status = "failed" THEN "explain" ELSE "check", job)
             /\ UNCHANGED tries
    <3>1. status \in ActiveStatuses \cup TERMINAL_STATES
      BY <2>3 DEF MapState, ActiveStatuses, TERMINAL_STATES
    <3>2. job \in Record
      BY <3>1, <1>0, RecordTypes
    <3>3. (IF status = "failed" THEN "explain" ELSE "check") \in WorkerSteps
      BY DEF WorkerSteps
    <3>4. row' \in [Jobs -> Record] /\ pc' \in [Jobs -> WorkerSteps]
          /\ copy' \in [Jobs -> Record]
      BY <2>3, <3>2, <3>3, PutType, GoType
    <3> QED BY <1>9, <2>3, <3>4 DEF ReadState, TypeOK
  <2> QED BY <1>9, <2>1, <2>2, <2>3 DEF ReadState
<1>10. ASSUME NEW j \in Jobs, ExplainFailure(j) PROVE TypeOK'
  BY <1>10, FailAndReturnType DEF ExplainFailure, TypeOK, Reasons
<1>11. ASSUME NEW j \in Jobs, FinalizeAttempt(j) PROVE TypeOK'
  <2>1. CASE /\ FailAndReturn(j, "finalization") \/ FailAndReturn(j, "artifact_validation")
             /\ UNCHANGED manifest
    BY <1>11, <2>1, FailAndReturnType DEF FinalizeAttempt, TypeOK, Reasons
  <2>2. CASE /\ tries[j] > 0
             /\ tries' = [tries EXCEPT ![j] = @ - 1]
             /\ UNCHANGED <<row, manifest, pc, copy, left>>
    BY <1>11, <2>2 DEF FinalizeAttempt, TypeOK
  <2>3. CASE /\ manifest' = manifest \cup {j}
             /\ Go(j, "seal", copy[j])
             /\ UNCHANGED <<row, left, tries>>
    BY <1>11, <2>3, <1>0, GoType DEF FinalizeAttempt, TypeOK, WorkerSteps
  <2> QED BY <1>11, <2>1, <2>2, <2>3 DEF FinalizeAttempt
<1>12. ASSUME NEW j \in Jobs, Seal(j) PROVE TypeOK'
  <2>1. [copy[j] EXCEPT !.status = "completed"] \in Record
    BY <1>0, RecordTypes DEF TERMINAL_STATES
  <2> QED BY <1>12, <2>1, PutType, ReturnType DEF Seal, TypeOK
<1>13. CASE Crash
  BY <1>13, RecordTypes DEF Crash, TypeOK, WorkerSteps
<1>14. CASE Restart
  BY <1>14 DEF Restart, list_active, TypeOK
<1>15. ASSUME NEW j \in Jobs, ResumeJob(j) PROVE TypeOK'
  <2>1. CASE ResumeUnsubmitted(j)
    <3>1. Failed(row[j], "interrupted") \in Record
      BY <1>0, RecordTypes DEF Reasons
    <3> QED BY <1>15, <2>1, <3>1, PutType DEF ResumeJob, ResumeUnsubmitted, TypeOK
  <2>2. CASE /\ Go(j, "check", row[j])
             /\ left' = [left EXCEPT ![j] = Margin]
             /\ UNCHANGED row
    <3>1. pc' \in [Jobs -> WorkerSteps] /\ copy' \in [Jobs -> Record]
      BY <2>2, <1>0, GoType DEF WorkerSteps
    <3> QED BY <1>15, <2>2, <3>1 DEF ResumeJob, TypeOK
  <2> QED BY <1>15, <2>1, <2>2 DEF ResumeJob
<1>16. CASE Booted
  BY <1>16 DEF Booted, TypeOK
<1>17. ASSUME NEW j \in Jobs, RemoteProgress(j) PROVE TypeOK'
  <2>1. remote' \in [Jobs -> RemoteJob]
    BY <1>17 DEF RemoteProgress, RemoteJob, RemoteLive, RemoteEnded, TypeOK
  <2> QED BY <1>17, <2>1 DEF RemoteProgress, TypeOK
<1>18. ASSUME NEW j \in Jobs, RemoteEnd(j) PROVE TypeOK'
  <2>1. remote' \in [Jobs -> RemoteJob]
    BY <1>18 DEF RemoteEnd, RemoteJob, RemoteLive, RemoteEnded, TypeOK
  <2> QED BY <1>18, <2>1 DEF RemoteEnd, TypeOK
<1>19. CASE Tick
  <2>1. remote' \in [Jobs -> RemoteJob]
    <3>1. ASSUME NEW r \in RemoteJob
          PROVE  [r EXCEPT !.left = Max0(@ - 1)] \in RemoteJob
      BY DEF Max0, RemoteJob
    <3> QED BY <1>19, <3>1 DEF Tick, TypeOK
  <2>2. left' \in [Jobs -> Nat \cup {-1}]
    <3>1. ASSUME NEW n \in Nat \cup {-1}
          PROVE  (IF n < 0 THEN n ELSE n - 1) \in Nat \cup {-1}
      OBVIOUS
    <3> QED BY <1>19, <3>1 DEF Tick, TypeOK
  <2> QED BY <1>19, <2>1, <2>2 DEF Tick, TypeOK
<1>20. CASE UNCHANGED vars
  BY <1>20 DEF vars, TypeOK
<1> QED
  BY <1>1, <1>2, <1>3, <1>4, <1>5, <1>6, <1>7, <1>8, <1>9, <1>10, <1>11, <1>12,
     <1>13, <1>14, <1>15, <1>16, <1>17, <1>18, <1>19, <1>20
     DEF Next, Handler, Worker, Startup

(* TypeOK holds in every reachable state, for every value of the constants. *)
THEOREM Typing == Spec => []TypeOK
<1>1. Init => TypeOK
  BY RecordTypes, NoRemoteType, LimitsAssumption DEF Init, TypeOK, WorkerSteps
<1> QED BY <1>1, TypeStep, PTL DEF Spec
-----------------------------------------------------------------------------
(* The inductive invariant.  It says of every job who is in charge of it    *)
(* (nobody, the request thread, the worker, the startup scan) and what the  *)
(* stored record, the local copy and the provider's job look like then.     *)

(* Before and while the request thread has the job, nothing else exists.    *)
RequestInv(j) ==
  /\ row[j].status = "none" => row[j] = NoRow /\ handler[j] = "idle" /\ pc[j] = "idle"
  /\ row[j].status = "none" => remote[j].creates = 0
  /\ handler[j] # "idle" => /\ server = "serving"
                            /\ pc[j] = "idle"
                            /\ row[j] = Queued(row[j].tenant)
                            /\ remote[j].creates = 0

(* The worker's copy is the record, and its place tells the record's phase. *)
WorkerInv(j) ==
  /\ pc[j] # "idle" => /\ server # "down"
                       /\ copy[j] = row[j]
                       /\ row[j].why = "none"
  /\ pc[j] \in {"build", "record", "refused"} => row[j].status = "queued" /\ ~row[j].remote
  /\ pc[j] = "build" => row[j] = Queued(row[j].tenant) /\ remote[j].creates = 0
  /\ pc[j] \in {"record", "refused"} => remote[j].creates = 1
  /\ pc[j] \in {"check", "read"} => row[j].remote /\ IsActive(row[j])
  /\ pc[j] = "explain" => row[j].remote /\ row[j].status = "failed"
  /\ pc[j] \in {"finalize", "seal"} =>
        /\ row[j].remote
        /\ row[j].status = "finalizing"
        /\ remote[j].state = "succeeded"
  /\ pc[j] = "seal" => j \in manifest /\ remote[j].artifacts = "valid"

ScanInv(j) == j \in bootQueue => /\ server = "booting"
                                 /\ pc[j] = "idle"
                                 /\ IsActive(row[j])

RecordInv(j) ==
  /\ IsActive(row[j]) => row[j].why = "none"
  /\ row[j].remote => remote[j].creates = 1
  /\ remote[j].creates <= 1
  /\ row[j].status = "training" => remote[j].state # "pending"
  /\ row[j].status = "finalizing" => remote[j].state = "succeeded"
  /\ row[j].status = "completed" =>
        /\ j \in manifest
        /\ remote[j].state = "succeeded"
        /\ remote[j].artifacts = "valid"

OwnerInv(j) == IsActive(row[j]) => \/ server = "down"
                                  \/ j \in bootQueue
                                  \/ handler[j] # "idle"
                                  \/ pc[j] # "idle"

JobInv(j) == RequestInv(j) /\ WorkerInv(j) /\ ScanInv(j) /\ RecordInv(j) /\ OwnerInv(j)

IInv == TypeOK /\ \A j \in Jobs : JobInv(j)

(* What the helpers change in a record.                                     *)
LEMMA FailedFields ==
  ASSUME NEW job \in Record, NEW reason
  PROVE  /\ Failed(job, reason).status = "failed"
         /\ Failed(job, reason).remote = job.remote
         /\ Failed(job, reason).why = reason
  BY DEF Record, Failed

(* Storing the remote id sets the status and the id, and nothing else.      *)
LEMMA RecordedFields ==
  ASSUME NEW job \in Record
  PROVE  /\ Recorded(job).status = "starting"
         /\ Recorded(job).remote = TRUE
         /\ Recorded(job).why = job.why
  BY DEF Record, Recorded

(* The fields of a record that does not exist, or was just reserved.        *)
LEMMA NewRecordFields ==
  /\ NoRow.status = "none" /\ NoRow.remote = FALSE /\ NoRow.why = "none"
  /\ \A t : /\ Queued(t).status = "queued"
            /\ Queued(t).remote = FALSE
            /\ Queued(t).why = "none"
            /\ Queued(t).tenant = t
  BY DEF NoRow, Queued

(* A step that leaves a job's variables alone keeps its invariant.          *)
LEMMA Frame ==
  ASSUME NEW i \in Jobs, JobInv(i),
         row'[i] = row[i], handler'[i] = handler[i], pc'[i] = pc[i],
         copy'[i] = copy[i], server' = server,
         remote[i].state = "succeeded" => remote'[i].state = "succeeded",
         remote'[i].state = "pending" => remote[i].state = "pending",
         remote[i].artifacts = "valid" => remote'[i].artifacts = "valid",
         remote'[i].creates = remote[i].creates,
         i \in bootQueue' <=> i \in bootQueue,
         i \in manifest => i \in manifest'
  PROVE  JobInv(i)'
  BY DEF JobInv, RequestInv, WorkerInv, ScanInv, RecordInv, OwnerInv, IsActive

(* What the worker's writes leave at the job.                               *)
LEMMA PutAt ==
  ASSUME TypeOK, NEW j \in Jobs, NEW job, Put(j, job)
  PROVE  row'[j] = job
  BY DEF Put, TypeOK

(* The worker's new place and local record are the ones given.              *)
LEMMA GoAt ==
  ASSUME TypeOK, NEW j \in Jobs, NEW step, NEW job, Go(j, step, job)
  PROVE  pc'[j] = step /\ copy'[j] = job
  BY DEF Go, TypeOK

(* A job with a worker is in no other hands.                                *)
LEMMA WorkerAlone ==
  ASSUME NEW j \in Jobs, JobInv(j), pc[j] # "idle"
  PROVE  /\ handler[j] = "idle" /\ j \notin bootQueue /\ server # "down"
         /\ copy[j] = row[j] /\ row[j].why = "none" /\ row[j].status # "none"
  BY DEF JobInv, RequestInv, WorkerInv, ScanInv

(* The worker gives a job up: the record is final and nobody holds the job. *)
LEMMA FailStep ==
  ASSUME TypeOK, NEW j \in Jobs, JobInv(j), pc[j] # "idle",
         NEW reason \in Reasons, FailAndReturn(j, reason),
         UNCHANGED <<handler, bootQueue, server, remote>>
  PROVE  JobInv(j)'
<1>1. row'[j] = Failed(row[j], reason) /\ pc'[j] = "idle"
  BY WorkerAlone, PutAt, GoAt DEF FailAndReturn, Return
<1>2. /\ row'[j].status = "failed"
      /\ row'[j].remote = row[j].remote
  BY <1>1, FailedFields DEF TypeOK
<1>3. RecordInv(j)'
  BY <1>2 DEF RecordInv, JobInv, IsActive, ActiveStatuses
<1> QED BY <1>1, <1>2, <1>3, WorkerAlone
        DEF JobInv, RequestInv, WorkerInv, ScanInv, OwnerInv, IsActive,
            ActiveStatuses

(* Every step of every actor keeps the invariant of every job.              *)
LEMMA JobStep == IInv /\ [Next]_vars => \A i \in Jobs : JobInv(i)'
<1> SUFFICES ASSUME IInv, [Next]_vars PROVE \A i \in Jobs : JobInv(i)'
  OBVIOUS
<1>0. /\ TypeOK
      /\ \A j \in Jobs : JobInv(j) /\ copy[j] \in Record /\ row[j] \in Record
  BY DEF IInv, TypeOK
<1>1. ASSUME NEW t \in Tenants, NEW k \in Keys, NEW j \in Jobs, Reserve(t, k, j)
      PROVE  \A i \in Jobs : JobInv(i)'
  <2>1. ASSUME NEW i \in Jobs, i # j PROVE JobInv(i)'
    BY <1>1, <2>1, <1>0, Frame DEF Reserve, Put, TypeOK
  <2>2. JobInv(j)'
    BY <1>1, <1>0, NewRecordFields
    DEF Reserve, Put, TypeOK, IsActive, ActiveStatuses, JobInv, RequestInv,
        WorkerInv, ScanInv, RecordInv, OwnerInv
  <2> QED BY <2>1, <2>2
<1>2. ASSUME NEW j \in Jobs, AgeOut(j)
      PROVE  \A i \in Jobs : JobInv(i)'
  <2>1. ASSUME NEW i \in Jobs, i # j PROVE JobInv(i)'
    BY <1>2, <2>1, <1>0, Frame DEF AgeOut, TypeOK
  <2>2. JobInv(j)'
    BY <1>2, <1>0, NewRecordFields
    DEF AgeOut, TypeOK, IsActive, ActiveStatuses, JobInv, RequestInv, WorkerInv,
        ScanInv, RecordInv, OwnerInv
  <2> QED BY <2>1, <2>2
<1>3. ASSUME NEW j \in Jobs, SnapshotInputs(j)
      PROVE  \A i \in Jobs : JobInv(i)'
  <2>1. ASSUME NEW i \in Jobs, i # j PROVE JobInv(i)'
    BY <1>3, <2>1, <1>0, Frame DEF SnapshotInputs, Put, TypeOK
  <2>2. JobInv(j)'
    <3> DEFINE new == Failed(Queued(row[j].tenant), "input-publication")
    <3>1. CASE handler'[j] = "launch" /\ UNCHANGED row
      BY <1>3, <3>1, <1>0
      DEF SnapshotInputs, JobInv, RequestInv, WorkerInv, ScanInv, RecordInv,
          OwnerInv, IsActive, ActiveStatuses
    <3>2. CASE row'[j] = new /\ handler'[j] = "idle"
      <4>1. new.status = "failed" /\ ~new.remote
        <5>1. Queued(row[j].tenant) \in Record
          BY <1>0, RecordTypes DEF Record
        <5> QED BY <5>1, FailedFields, NewRecordFields
      <4>2. pc[j] = "idle" /\ j \notin bootQueue /\ remote[j].creates <= 1
        BY <1>3, <1>0 DEF SnapshotInputs, JobInv, RequestInv, ScanInv, RecordInv
      <4>3. UNCHANGED <<pc, bootQueue, remote>>
        BY <1>3 DEF SnapshotInputs
      <4> HIDE DEF new
      <4> QED BY <3>2, <4>1, <4>2, <4>3
              DEF SnapshotInputs, JobInv, RequestInv, WorkerInv, ScanInv,
                  RecordInv, OwnerInv, IsActive, ActiveStatuses
    <3> HIDE DEF new
    <3>3. Put(j, new) => row'[j] = new
      BY <1>0, PutAt
    <3>4. \A h : handler' = [handler EXCEPT ![j] = h] => handler'[j] = h
      BY <1>0 DEF TypeOK
    <3> USE DEF new
    <3> QED BY <1>3, <3>1, <3>2, <3>3, <3>4 DEF SnapshotInputs
  <2> QED BY <2>1, <2>2
<1>4. ASSUME NEW j \in Jobs, Launch(j)
      PROVE  \A i \in Jobs : JobInv(i)'
  <2>1. ASSUME NEW i \in Jobs, i # j PROVE JobInv(i)'
    BY <1>4, <2>1, <1>0, Frame DEF Launch, Go, TypeOK
  <2>2. JobInv(j)'
    BY <1>4, <1>0, NewRecordFields
    DEF Launch, Go, TypeOK, IsActive, ActiveStatuses, JobInv, RequestInv,
        WorkerInv, ScanInv, RecordInv, OwnerInv
  <2> QED BY <2>1, <2>2
<1>5. ASSUME NEW j \in Jobs, Submit(j)
      PROVE  \A i \in Jobs : JobInv(i)'
  <2>1. ASSUME NEW i \in Jobs, i # j PROVE JobInv(i)'
    BY <1>5, <2>1, <1>0, Frame DEF Submit, FailAndReturn, Return, Put, Go, TypeOK
  <2>2. JobInv(j)'
    <3>1. CASE FailAndReturn(j, "submission") /\ UNCHANGED remote
      BY <1>5, <3>1, <1>0, FailStep DEF Submit, Reasons
    <3>2. ASSUME NEW step \in {"record", "refused"}, Go(j, step, copy[j]),
                 remote'[j].creates = remote[j].creates + 1, UNCHANGED row
          PROVE  JobInv(j)'
      <4>1. pc'[j] = step /\ copy'[j] = copy[j]
        BY <3>2, <1>0, GoAt
      <4>2. pc[j] = "build" /\ UNCHANGED <<handler, bootQueue, server, manifest>>
        BY <1>5 DEF Submit
      <4>3. /\ handler[j] = "idle" /\ j \notin bootQueue /\ server # "down"
            /\ copy[j] = row[j] /\ row[j].why = "none"
            /\ row[j].status = "queued" /\ ~row[j].remote
            /\ remote'[j].creates = 1
        BY <4>2, <3>2, <1>0, WorkerAlone DEF JobInv, WorkerInv
      <4> QED BY <3>2, <4>1, <4>2, <4>3
              DEF JobInv, RequestInv, WorkerInv, ScanInv, RecordInv, OwnerInv,
                  IsActive, ActiveStatuses
    <3>3. ASSUME remote' = [remote EXCEPT ![j].state = "pending",
                                          ![j].left = RemoteLife,
                                          ![j].creates = @ + 1]
          PROVE  remote'[j].creates = remote[j].creates + 1
      <4>1. remote[j] \in RemoteJob
        BY <1>0 DEF TypeOK
      <4> QED BY <3>3, <4>1, <1>0 DEF TypeOK, RemoteJob
    <3> QED BY <1>5, <3>1, <3>2, <3>3 DEF Submit
  <2> QED BY <2>1, <2>2
<1>6. ASSUME NEW j \in Jobs, SubmissionRefused(j)
      PROVE  \A i \in Jobs : JobInv(i)'
  <2>1. ASSUME NEW i \in Jobs, i # j PROVE JobInv(i)'
    BY <1>6, <2>1, <1>0, Frame
    DEF SubmissionRefused, FailAndReturn, Return, Put, Go, TypeOK
  <2>2. JobInv(j)'
    BY <1>6, <1>0, FailStep DEF SubmissionRefused, Reasons
  <2> QED BY <2>1, <2>2
<1>7. ASSUME NEW j \in Jobs, RecordRemoteId(j)
      PROVE  \A i \in Jobs : JobInv(i)'
  <2>1. ASSUME NEW i \in Jobs, i # j PROVE JobInv(i)'
    BY <1>7, <2>1, <1>0, Frame DEF RecordRemoteId, Put, Go, TypeOK
  <2>2. JobInv(j)'
    <3>1. row'[j] = Recorded(row[j]) /\ copy'[j] = row'[j] /\ pc'[j] = "check"
      BY <1>7, <1>0, WorkerAlone, PutAt, GoAt DEF RecordRemoteId
    <3>2. row'[j].status = "starting" /\ row'[j].remote /\ row'[j].why = row[j].why
      BY <3>1, <1>0, RecordedFields
    <3> QED BY <1>7, <3>1, <3>2, <1>0
            DEF RecordRemoteId, JobInv, RequestInv, WorkerInv, ScanInv,
                RecordInv, OwnerInv, IsActive, ActiveStatuses
  <2> QED BY <2>1, <2>2
<1>8. ASSUME NEW j \in Jobs, CheckDeadline(j)
      PROVE  \A i \in Jobs : JobInv(i)'
  <2>1. ASSUME NEW i \in Jobs, i # j PROVE JobInv(i)'
    BY <1>8, <2>1, <1>0, Frame
    DEF CheckDeadline, FailAndReturn, Return, Put, Go, TypeOK
  <2>2. JobInv(j)'
    <3>1. CASE FailAndReturn(j, "timeout")
      BY <1>8, <3>1, <1>0, FailStep DEF CheckDeadline, Reasons
    <3>2. CASE Go(j, "read", copy[j]) /\ UNCHANGED row
      <4>1. pc'[j] = "read" /\ copy'[j] = copy[j]
        BY <3>2, <1>0, GoAt
      <4> QED BY <1>8, <3>2, <4>1, <1>0
              DEF CheckDeadline, JobInv, RequestInv, WorkerInv, ScanInv,
                  RecordInv, OwnerInv, IsActive, ActiveStatuses
    <3> QED BY <1>8, <3>1, <3>2 DEF CheckDeadline
  <2> QED BY <2>1, <2>2
<1>9. ASSUME NEW j \in Jobs, ReadState(j)
      PROVE  \A i \in Jobs : JobInv(i)'
  <2>1. ASSUME NEW i \in Jobs, i # j PROVE JobInv(i)'
    BY <1>9, <2>1, <1>0, Frame DEF ReadState, MapState, Put, Go, TypeOK
  <2>2. JobInv(j)'
    <3> DEFINE status == MapState(remote[j].state)
               job    == [copy[j] EXCEPT !.status = status]
               ending == Finalizing(copy[j])
    <3>0. /\ row[j].remote /\ copy[j] = row[j] /\ row[j].why = "none"
          /\ UNCHANGED <<handler, bootQueue, server, manifest, remote>>
      BY <1>9, <1>0 DEF ReadState, JobInv, WorkerInv
    <3>1. CASE Go(j, "check", copy[j]) /\ UNCHANGED row
      <4>1. pc'[j] = "check" /\ copy'[j] = copy[j]
        BY <3>1, <1>0, GoAt
      <4> QED BY <1>9, <3>0, <3>1, <4>1, <1>0
              DEF ReadState, JobInv, RequestInv, WorkerInv, ScanInv, RecordInv,
                  OwnerInv, IsActive, ActiveStatuses
    <3>2. CASE status = "completed" /\ Put(j, ending) /\ Go(j, "finalize", ending)
      <4>1. pc'[j] = "finalize" /\ copy'[j] = ending /\ row'[j] = ending
        BY <3>2, <1>0, PutAt, GoAt
      <4>2. /\ ending.status = "finalizing"
            /\ ending.remote = row[j].remote /\ ending.why = row[j].why
        BY <3>0, <1>0 DEF Finalizing, Record
      <4>3. remote[j].state = "succeeded"
        BY <3>2 DEF MapState
      <4> HIDE DEF ending, status
      <4> QED BY <1>9, <3>0, <4>1, <4>2, <4>3, <1>0, WorkerAlone
              DEF ReadState, JobInv, RequestInv, WorkerInv, ScanInv, RecordInv,
                  OwnerInv, IsActive, ActiveStatuses
    <3>3. CASE /\ status \notin {"unknown", "completed"}
               /\ Put(j, job)
               /\ Go(j, IF status = "failed" THEN "explain" ELSE "check", job)
      <4>1. /\ pc'[j] = IF status = "failed" THEN "explain" ELSE "check"
            /\ copy'[j] = job /\ row'[j] = job
        BY <3>3, <1>0, PutAt, GoAt
      <4>2. job.status = status /\ job.remote = row[j].remote /\ job.why = row[j].why
        BY <3>0, <1>0 DEF Record
      <4>3. /\ status \in {"starting", "training", "failed"}
            /\ status = "training" => remote[j].state = "running"
        BY <3>3 DEF MapState
      <4> HIDE DEF job, status
      <4> QED BY <1>9, <3>0, <4>1, <4>2, <4>3, <1>0, WorkerAlone
              DEF ReadState, JobInv, RequestInv, WorkerInv, ScanInv, RecordInv,
                  OwnerInv, IsActive, ActiveStatuses
    <3> QED BY <1>9, <3>1, <3>2, <3>3 DEF ReadState
  <2> QED BY <2>1, <2>2
<1>10. ASSUME NEW j \in Jobs, ExplainFailure(j)
      PROVE  \A i \in Jobs : JobInv(i)'
  <2>1. ASSUME NEW i \in Jobs, i # j PROVE JobInv(i)'
    BY <1>10, <2>1, <1>0, Frame
    DEF ExplainFailure, FailAndReturn, Return, Put, Go, TypeOK
  <2>2. JobInv(j)'
    BY <1>10, <1>0, FailStep DEF ExplainFailure, Reasons
  <2> QED BY <2>1, <2>2
<1>11. ASSUME NEW j \in Jobs, FinalizeAttempt(j)
      PROVE  \A i \in Jobs : JobInv(i)'
  <2>1. ASSUME NEW i \in Jobs, i # j PROVE JobInv(i)'
    BY <1>11, <2>1, <1>0, Frame
    DEF FinalizeAttempt, Readable, FailAndReturn, Return, Put, Go, TypeOK
  <2>2. JobInv(j)'
    <3>1. CASE FailAndReturn(j, "finalization") \/ FailAndReturn(j, "artifact_validation")
      BY <1>11, <3>1, <1>0, FailStep DEF FinalizeAttempt, Reasons
    <3>2. CASE UNCHANGED <<row, manifest, pc, copy>>
      BY <1>11, <3>2, <1>0, Frame DEF FinalizeAttempt
    <3>3. CASE /\ remote[j].artifacts = "valid"
               /\ manifest' = manifest \cup {j}
               /\ Go(j, "seal", copy[j])
               /\ UNCHANGED row
      <4>1. pc'[j] = "seal" /\ copy'[j] = copy[j]
        BY <3>3, <1>0, GoAt
      <4> QED BY <1>11, <3>3, <4>1, <1>0
              DEF FinalizeAttempt, JobInv, RequestInv, WorkerInv, ScanInv,
                  RecordInv, OwnerInv, IsActive, ActiveStatuses
    <3> QED BY <1>11, <3>1, <3>2, <3>3 DEF FinalizeAttempt, Readable
  <2> QED BY <2>1, <2>2
<1>12. ASSUME NEW j \in Jobs, Seal(j)
      PROVE  \A i \in Jobs : JobInv(i)'
  <2>1. ASSUME NEW i \in Jobs, i # j PROVE JobInv(i)'
    BY <1>12, <2>1, <1>0, Frame DEF Seal, Return, Put, Go, TypeOK
  <2>2. JobInv(j)'
    BY <1>12, <1>0, NewRecordFields
    DEF Seal, Return, Put, Go, TypeOK, IsActive, ActiveStatuses, JobInv,
        RequestInv, WorkerInv, ScanInv, RecordInv, OwnerInv
  <2> QED BY <2>1, <2>2
<1>13. ASSUME NEW j \in Jobs, ResumeJob(j)
      PROVE  \A i \in Jobs : JobInv(i)'
  <2>1. ASSUME NEW i \in Jobs, i # j PROVE JobInv(i)'
    BY <1>13, <2>1, <1>0, Frame DEF ResumeJob, ResumeUnsubmitted, Put, Go, TypeOK
  <2>2. JobInv(j)'
    <3>0. /\ handler[j] = "idle" /\ pc[j] = "idle" /\ IsActive(row[j])
          /\ j \notin bootQueue'
          /\ UNCHANGED <<handler, server, manifest, remote>>
      BY <1>13, <1>0 DEF ResumeJob, JobInv, ScanInv, RequestInv
    <3>1. CASE ResumeUnsubmitted(j)
      <4>1. row'[j] = Failed(row[j], "interrupted") /\ UNCHANGED pc
        BY <3>1, <1>0, PutAt DEF ResumeUnsubmitted
      <4>2. row'[j].status = "failed" /\ row'[j].remote = row[j].remote
        BY <4>1, <1>0, FailedFields
      <4> QED BY <3>0, <4>1, <4>2, <1>0
              DEF JobInv, RequestInv, WorkerInv, ScanInv, RecordInv, OwnerInv,
                  IsActive, ActiveStatuses
    <3>2. CASE row[j].remote /\ Go(j, "check", row[j]) /\ UNCHANGED row
      <4>1. pc'[j] = "check" /\ copy'[j] = row[j]
        BY <3>2, <1>0, GoAt
      <4> QED BY <1>13, <3>0, <3>2, <4>1, <1>0
              DEF ResumeJob, JobInv, RequestInv, WorkerInv, ScanInv, RecordInv,
                  OwnerInv, IsActive, ActiveStatuses
    <3> QED BY <1>13, <3>1, <3>2 DEF ResumeJob
  <2> QED BY <2>1, <2>2
<1>14. CASE Crash
  BY <1>14, <1>0
  DEF Crash, TypeOK, IsActive, JobInv, RequestInv, WorkerInv, ScanInv,
      RecordInv, OwnerInv
<1>15. CASE Restart
  BY <1>15, <1>0
  DEF Restart, list_active, TypeOK, IsActive, JobInv, RequestInv, WorkerInv,
      ScanInv, RecordInv, OwnerInv
<1>16. CASE Booted
  BY <1>16, <1>0
  DEF Booted, TypeOK, IsActive, JobInv, RequestInv, WorkerInv, ScanInv,
      RecordInv, OwnerInv
<1>17. ASSUME NEW j \in Jobs, RemoteProgress(j)
      PROVE  \A i \in Jobs : JobInv(i)'
  BY <1>17, <1>0, Frame DEF RemoteProgress, TypeOK, RemoteJob
<1>18. ASSUME NEW j \in Jobs, RemoteEnd(j)
      PROVE  \A i \in Jobs : JobInv(i)'
  <2> SUFFICES ASSUME NEW i \in Jobs PROVE JobInv(i)'
    OBVIOUS
  <2>1. remote[i] \in RemoteJob /\ remote[j] \in RemoteJob
    BY <1>0 DEF TypeOK
  <2>2. /\ remote[i].state = "succeeded" => remote'[i].state = "succeeded"
        /\ remote'[i].state = "pending" => remote[i].state = "pending"
        /\ remote[i].artifacts = "valid" => remote'[i].artifacts = "valid"
        /\ remote'[i].creates = remote[i].creates
    <3>1. CASE i # j
      BY <1>18, <1>0, <3>1 DEF RemoteEnd, TypeOK
    <3>2. CASE i = j
      BY <1>18, <1>0, <2>1, <3>2 DEF RemoteEnd, TypeOK, RemoteJob, RemoteLive
    <3> QED BY <3>1, <3>2
  <2> QED BY <1>18, <1>0, <2>2, Frame DEF RemoteEnd
<1>19. CASE Tick
  BY <1>19, <1>0, Frame DEF Tick, TypeOK, RemoteJob
<1>20. CASE UNCHANGED vars
  BY <1>20, <1>0, Frame DEF vars
<1> QED
  BY <1>1, <1>2, <1>3, <1>4, <1>5, <1>6, <1>7, <1>8, <1>9, <1>10, <1>11, <1>12,
     <1>13, <1>14, <1>15, <1>16, <1>17, <1>18, <1>19, <1>20
     DEF Next, Handler, Worker, Startup
-----------------------------------------------------------------------------
(* Before the first request every job satisfies the invariant.              *)
LEMMA InvInit == Init => IInv
<1> SUFFICES ASSUME Init PROVE IInv
  OBVIOUS
<1>1. TypeOK
  BY RecordTypes, NoRemoteType, LimitsAssumption DEF Init, TypeOK, WorkerSteps
<1>2. ASSUME NEW j \in Jobs PROVE JobInv(j)
  BY NewRecordFields DEF Init, NoRemote, JobInv, RequestInv, WorkerInv, ScanInv,
     RecordInv, OwnerInv, IsActive, ActiveStatuses
<1> QED BY <1>1, <1>2 DEF IInv

(* The inductive invariant holds in every reachable state: whoever holds a  *)
(* job (request thread, worker, startup scan) knows what its record, remote *)
(* job and manifest may be.                                                 *)
THEOREM Invariance == Spec => []IInv
<1>1. IInv /\ [Next]_vars => IInv'
  BY TypeStep, JobStep DEF IInv
<1> QED BY InvInit, <1>1, PTL DEF Spec

(* Every unfinished job is in somebody's hands: the invariant that no job   *)
(* is stuck, whatever the numbers of jobs, tenants and process stops.       *)
THEOREM Ownership == Spec => []ActiveRowOwned
<1>1. IInv => ActiveRowOwned
  BY DEF IInv, JobInv, OwnerInv, ScanInv, ActiveRowOwned
<1> QED BY Invariance, <1>1, PTL

(* A worker never overwrites a record it has not seen.                      *)
THEOREM SingleWriter == Spec => []WorkerCopyCurrent
<1>1. IInv => WorkerCopyCurrent
  BY DEF IInv, JobInv, WorkerInv, WorkerCopyCurrent
<1> QED BY Invariance, <1>1, PTL

(* "completed" is only ever reported behind the artifact gate.              *)
THEOREM CompletionGate == Spec => []CompletedIsGated
<1>1. IInv => CompletedIsGated
  BY DEF IInv, JobInv, RecordInv, CompletedIsGated
<1> QED BY Invariance, <1>1, PTL

(* No restart creates a second remote job.                                  *)
THEOREM OneSubmission == Spec => []SubmittedOnce
<1>1. IInv => SubmittedOnce
  BY DEF IInv, JobInv, RecordInv, SubmittedOnce
<1> QED BY Invariance, <1>1, PTL
-----------------------------------------------------------------------------
(* Who may write a record, and what a write may do to it.                   *)
Born(j)  == \E t \in Tenants, k \in Keys : Reserve(t, k, j)
Moved(j) == /\ IsActive(row[j])
            /\ row'[j].tenant = row[j].tenant
            /\ row'[j].status \in ActiveStatuses \cup TERMINAL_STATES
Explained(j) == /\ row[j].status = "failed" /\ row[j].why = "none"
                /\ row'[j].status = "failed"
                /\ row'[j].tenant = row[j].tenant
                /\ row'[j].remote = row[j].remote

(* A worker that gives up changes the status of its record, not its owner   *)
(* or remote id.                                                            *)
LEMMA FailWrite ==
  ASSUME IInv, NEW j \in Jobs, pc[j] # "idle", NEW reason, FailAndReturn(j, reason)
  PROVE  /\ row' = [row EXCEPT ![j] = row'[j]]
         /\ row'[j].status = "failed"
         /\ row'[j].tenant = row[j].tenant
         /\ row'[j].remote = row[j].remote
<1>1. copy[j] = row[j] /\ row[j] \in Record /\ row \in [Jobs -> Record]
  BY DEF IInv, JobInv, WorkerInv, TypeOK
<1> QED BY <1>1 DEF FailAndReturn, Put, Failed, Record

(* Every step writes at most one record: a reservation creates it, it is    *)
(* moved while unfinished, or a failure is given its reason.                *)
LEMMA RowWrites ==
  ASSUME IInv, [Next]_vars
  PROVE  \/ UNCHANGED row
         \/ \E j \in Jobs : /\ row' = [row EXCEPT ![j] = row'[j]]
                            /\ Born(j) \/ Moved(j) \/ Explained(j)
<1> DEFINE Written(j) == /\ row' = [row EXCEPT ![j] = row'[j]]
                         /\ Born(j) \/ Moved(j) \/ Explained(j)
           Goal == UNCHANGED row \/ \E j \in Jobs : Written(j)
<1> SUFFICES Goal
  OBVIOUS
<1>0. \A j \in Jobs : JobInv(j) /\ copy[j] \in Record /\ row[j] \in Record
  BY DEF IInv, TypeOK
<1>a. row \in [Jobs -> Record]
  BY DEF IInv, TypeOK
<1>b. ASSUME NEW j \in Jobs, NEW job, Put(j, job)
      PROVE  row' = [row EXCEPT ![j] = row'[j]] /\ row'[j] = job
  BY <1>a, <1>b DEF Put
<1>1. ASSUME NEW t \in Tenants, NEW k \in Keys, NEW j \in Jobs, Reserve(t, k, j)
      PROVE  Goal
  <2>1. Written(j)
    BY <1>1, <1>b DEF Reserve, Born
  <2> QED BY <2>1
<1>2. ASSUME NEW j \in Jobs, SnapshotInputs(j) PROVE Goal
  <2>1. CASE UNCHANGED row
    BY <2>1
  <2>2. CASE Put(j, Failed(Queued(row[j].tenant), "input-publication"))
    <3> DEFINE t == row[j].tenant
    <3>1. row[j] = Queued(t) /\ Queued(t) \in Record
      BY <1>2, <1>0 DEF SnapshotInputs, JobInv, RequestInv
    <3>2. row'[j] = Failed(Queued(t), "input-publication")
      BY <1>b, <2>2
    <3>3. /\ IsActive(row[j]) /\ row'[j].tenant = row[j].tenant
          /\ row'[j].status = "failed"
      BY <3>1, <3>2, <1>0 DEF Queued, Failed, Record, IsActive, ActiveStatuses
    <3>4. Written(j)
      BY <3>3, <1>b, <2>2 DEF Moved, TERMINAL_STATES
    <3> QED BY <3>4
  <2> QED BY <1>2, <2>1, <2>2 DEF SnapshotInputs
<1>3. ASSUME NEW j \in Jobs, NEW reason, FailAndReturn(j, reason),
             pc[j] \in {"build", "refused", "check", "finalize"}
      PROVE  Goal
  <2>1. IsActive(row[j])
    BY <1>3, <1>0 DEF JobInv, WorkerInv, IsActive, ActiveStatuses
  <2>2. Written(j)
    BY <1>3, <2>1, FailWrite DEF Moved, TERMINAL_STATES
  <2> QED BY <2>2
<1>4. ASSUME NEW j \in Jobs, ExplainFailure(j) PROVE Goal
  <2>1. row[j].status = "failed" /\ row[j].why = "none"
    BY <1>4, <1>0 DEF ExplainFailure, JobInv, WorkerInv
  <2>2. Written(j)
    BY <1>4, <2>1, FailWrite DEF ExplainFailure, Explained
  <2> QED BY <2>2
<1>5. ASSUME NEW j \in Jobs, pc[j] \in {"record", "read", "seal"}, NEW new \in Record,
             Put(j, new), new.tenant = copy[j].tenant,
             new.status \in ActiveStatuses \cup TERMINAL_STATES
      PROVE  Goal
  <2>1. IsActive(row[j]) /\ copy[j] = row[j]
    BY <1>5, <1>0 DEF JobInv, WorkerInv, IsActive, ActiveStatuses
  <2>2. Written(j)
    BY <1>5, <1>b, <2>1 DEF Moved
  <2> QED BY <2>2
<1>6. ASSUME NEW j \in Jobs, RecordRemoteId(j) PROVE Goal
  <2>1. /\ Recorded(copy[j]) \in Record
        /\ Recorded(copy[j]).tenant = copy[j].tenant
        /\ Recorded(copy[j]).status \in ActiveStatuses
    BY <1>0 DEF Recorded, Record, ActiveStatuses
  <2> QED BY <1>5, <1>6, <2>1 DEF RecordRemoteId
<1>7. ASSUME NEW j \in Jobs, ReadState(j) PROVE Goal
  <2> DEFINE status == MapState(remote[j].state)
             job    == [copy[j] EXCEPT !.status = status]
             ending == Finalizing(copy[j])
  <2>1. CASE UNCHANGED row
    BY <2>1
  <2>2. CASE Put(j, ending)
    <3>1. ending \in Record /\ ending.tenant = copy[j].tenant /\ ending.status = "finalizing"
      BY <1>0 DEF Finalizing, Record, ActiveStatuses
    <3> QED BY <1>5, <1>7, <2>2, <3>1 DEF ReadState, ActiveStatuses
  <2>3. CASE status \notin {"unknown", "completed"} /\ Put(j, job)
    <3>1. status \in ActiveStatuses \cup TERMINAL_STATES
      BY <2>3 DEF MapState, ActiveStatuses, TERMINAL_STATES
    <3>2. job \in Record /\ job.tenant = copy[j].tenant /\ job.status = status
      BY <1>0, <3>1 DEF Record
    <3> QED BY <1>5, <1>7, <2>3, <3>1, <3>2 DEF ReadState
  <2> QED BY <1>7, <2>1, <2>2, <2>3 DEF ReadState
<1>8. ASSUME NEW j \in Jobs, Seal(j) PROVE Goal
  <2> DEFINE done == [copy[j] EXCEPT !.status = "completed"]
  <2>1. done \in Record /\ done.tenant = copy[j].tenant /\ done.status = "completed"
    BY <1>0 DEF Record, TERMINAL_STATES
  <2> QED BY <1>5, <1>8, <2>1 DEF Seal, TERMINAL_STATES
<1>9. ASSUME NEW j \in Jobs, ResumeJob(j) PROVE Goal
  <2>1. CASE UNCHANGED row
    BY <2>1
  <2>2. CASE Put(j, Failed(row[j], "interrupted"))
    <3>1. IsActive(row[j])
      BY <1>9, <1>0 DEF ResumeJob, JobInv, ScanInv
    <3>2. /\ Failed(row[j], "interrupted").tenant = row[j].tenant
          /\ Failed(row[j], "interrupted").status = "failed"
      BY <1>0 DEF Failed, Record
    <3>3. Written(j)
      BY <1>b, <2>2, <3>1, <3>2 DEF Moved, TERMINAL_STATES
    <3> QED BY <3>3
  <2> QED BY <1>9, <2>1, <2>2 DEF ResumeJob, ResumeUnsubmitted
<1>10. ASSUME NEW j \in Jobs,
              Submit(j) \/ SubmissionRefused(j) \/ CheckDeadline(j) \/ FinalizeAttempt(j)
       PROVE  Goal
  BY <1>3, <1>10 DEF Submit, SubmissionRefused, CheckDeadline, FinalizeAttempt
<1>11. ASSUME NEW j \in Jobs, \/ AgeOut(j) \/ Launch(j) \/ RemoteProgress(j)
                              \/ RemoteEnd(j)
       PROVE  Goal
  BY <1>11 DEF AgeOut, Launch, RemoteProgress, RemoteEnd
<1>12. CASE Crash \/ Restart \/ Booted \/ Tick \/ UNCHANGED vars
  BY <1>12 DEF Crash, Restart, Booted, Tick, vars
<1> HIDE DEF Goal
<1> QED
  BY <1>1, <1>2, <1>4, <1>6, <1>7, <1>8, <1>9, <1>10, <1>11, <1>12
     DEF Next, Handler, Worker, Startup

(* A finished job is never touched again, except for the reason of a remote *)
(* failure that its worker still owes.                                      *)
THEOREM Finality == Spec => TerminalIsFinal
<1>1. ASSUME IInv, [Next]_vars, NEW j \in Jobs, row[j].status \in TERMINAL_STATES
      PROVE  /\ row'[j].status = row[j].status
             /\ row'[j].remote = row[j].remote
             /\ row[j].why # "none" => row'[j] = row[j]
  <2>1. CASE UNCHANGED row
    BY <2>1
  <2>2. ASSUME NEW i \in Jobs, row' = [row EXCEPT ![i] = row'[i]],
               Born(i) \/ Moved(i) \/ Explained(i)
        PROVE  /\ row'[j].status = row[j].status
               /\ row'[j].remote = row[j].remote
               /\ row[j].why # "none" => row'[j] = row[j]
    <3>1. CASE i # j
      BY <1>1, <2>2, <3>1 DEF IInv, TypeOK
    <3>2. CASE i = j
      BY <1>1, <2>2, <3>2, NewRecordFields
         DEF Born, Reserve, Moved, Explained, IsActive, ActiveStatuses,
             TERMINAL_STATES
    <3> QED BY <3>1, <3>2
  <2> QED BY <1>1, <2>1, <2>2, RowWrites
<1>2. IInv /\ [Next]_vars => [StaysFinal]_vars
  BY <1>1 DEF StaysFinal
<1> QED BY Invariance, <1>2, PTL DEF TerminalIsFinal, Spec

(* A step adds at most one job to a tenant's unfinished ones, and only by a *)
(* reservation of that tenant.                                              *)
LEMMA ActiveGrowth ==
  ASSUME IInv, [Next]_vars, NEW t \in Tenants
  PROVE  \/ ActiveOf(t)' \subseteq ActiveOf(t)
         \/ UnderQuota(t) /\ \E j \in Jobs : ActiveOf(t)' \subseteq ActiveOf(t) \cup {j}
<1> SUFFICES ASSUME ~(ActiveOf(t)' \subseteq ActiveOf(t))
             PROVE  UnderQuota(t) /\ \E j \in Jobs : ActiveOf(t)' \subseteq ActiveOf(t) \cup {j}
  OBVIOUS
<1>1. PICK j \in Jobs : row' = [row EXCEPT ![j] = row'[j]]
                        /\ (Born(j) \/ Moved(j) \/ Explained(j))
  BY RowWrites DEF ActiveOf, IsActive
<1>2. \A i \in Jobs \ {j} : row'[i] = row[i]
  BY <1>1 DEF IInv, TypeOK
<1>3. ActiveOf(t)' \subseteq ActiveOf(t) \cup {j}
  BY <1>2 DEF ActiveOf, IsActive
<1>4. Moved(j) => (j \in ActiveOf(t)' => j \in ActiveOf(t))
  BY DEF Moved, ActiveOf
<1>5. Explained(j) => j \notin ActiveOf(t)'
  BY DEF Explained, ActiveOf, IsActive, ActiveStatuses
<1>6. Born(j) /\ j \in ActiveOf(t)'
  BY <1>1, <1>3, <1>4, <1>5
<1>7. UnderQuota(t)
  <2>1. PICK u \in Tenants, k \in Keys : Reserve(u, k, j)
    BY <1>6 DEF Born
  <2>2. row'[j].tenant = t /\ row'[j] = Queued(u)
    BY <1>6, <2>1, PutAt DEF ActiveOf, Reserve, IInv
  <2>3. u = t
    BY <2>2, NewRecordFields
  <2> QED BY <2>1, <2>3 DEF Reserve
<1> QED BY <1>3, <1>7

(* No tenant ever has more unfinished jobs than MaxActive.                  *)
THEOREM Quota == Spec => []QuotaRespected
<1>0. \A t : IsFiniteSet(ActiveOf(t)) /\ Cardinality(ActiveOf(t)) \in Nat
  BY IdsAssumption, FS_Subset, FS_CardinalityType DEF ActiveOf
<1>1. Init => QuotaRespected
  <2> SUFFICES ASSUME Init, NEW t \in Tenants PROVE Cardinality(ActiveOf(t)) <= MaxActive
    BY DEF QuotaRespected
  <2>1. ActiveOf(t) = {}
    BY NewRecordFields DEF Init, ActiveOf, IsActive, ActiveStatuses
  <2> QED BY <2>1, FS_EmptySet, LimitsAssumption
<1>2. ASSUME IInv, QuotaRespected, [Next]_vars, NEW t \in Tenants
      PROVE  Cardinality(ActiveOf(t)') <= MaxActive
  <2> DEFINE A == ActiveOf(t)
             B == ActiveOf(t)'
  <2>0. IsFiniteSet(A) /\ Cardinality(A) \in Nat /\ Cardinality(A) <= MaxActive
    BY <1>0, <1>2 DEF QuotaRespected
  <2>1. CASE B \subseteq A
    <3>1. Cardinality(B) <= Cardinality(A) /\ IsFiniteSet(B)
      BY <2>0, <2>1, FS_Subset
    <3>2. Cardinality(B) \in Nat
      BY <3>1, FS_CardinalityType
    <3> QED BY <2>0, <3>1, <3>2, LimitsAssumption
  <2>2. ASSUME UnderQuota(t), NEW j \in Jobs, B \subseteq A \cup {j}
        PROVE  Cardinality(B) <= MaxActive
    <3> HIDE DEF A, B
    <3>1. /\ IsFiniteSet(A \cup {j})
          /\ Cardinality(A \cup {j}) =
                IF j \in A THEN Cardinality(A) ELSE Cardinality(A) + 1
      BY <2>0, FS_AddElement
    <3>2. Cardinality(B) <= Cardinality(A \cup {j}) /\ IsFiniteSet(B)
      BY <2>2, <3>1, FS_Subset
    <3>3. Cardinality(B) \in Nat /\ Cardinality(A \cup {j}) \in Nat
      BY <3>1, <3>2, FS_CardinalityType
    <3>4. Cardinality(A) < MaxActive
      BY <2>2 DEF UnderQuota, A
    <3> QED BY <2>0, <3>1, <3>2, <3>3, <3>4, LimitsAssumption
  <2> QED BY <1>2, <2>1, <2>2, ActiveGrowth
<1>3. IInv /\ QuotaRespected /\ [Next]_vars => QuotaRespected'
  BY <1>2 DEF QuotaRespected
<1> QED BY Invariance, <1>1, <1>3, PTL DEF Spec
-----------------------------------------------------------------------------
(* The refinement: the tenant's view of a step is a step of JobContract.    *)
View == [j \in Jobs |-> row[j].status]

(* A put changes the tenant's view at one job.                              *)
LEMMA ViewOfPut ==
  ASSUME IInv, NEW j \in Jobs, NEW new, Put(j, new)
  PROVE  View' = [View EXCEPT ![j] = new.status]
  BY DEF IInv, TypeOK, Put, View

(* The view depends on the records only.                                    *)
LEMMA ViewSame == UNCHANGED row => View' = View
  BY DEF View

(* Any step of the contract at one job is a step of the contract.           *)
LEMMA ContractNext ==
  ASSUME NEW j \in Jobs,
         \/ Contract!Submit(j) \/ Contract!Advance(j) \/ Contract!Cache(j)
         \/ Contract!Complete(j) \/ Contract!Fail(j)
  PROVE  Contract!Next
  BY DEF Contract!Next

(* Failing an unfinished job is a step the contract allows.                 *)
LEMMA ContractFail ==
  ASSUME IInv, NEW j \in Jobs, IsActive(row[j]), UNCHANGED manifest,
         View' = [View EXCEPT ![j] = "failed"]
  PROVE  Contract!Next
<1>1. Contract!Fail(j)
  BY DEF Contract!Fail, Contract!Active, View, IsActive, ActiveStatuses
<1> QED BY <1>1, ContractNext

(* In particular when its worker gives up.                                  *)
LEMMA ContractFailWrite ==
  ASSUME IInv, NEW j \in Jobs, NEW reason, FailAndReturn(j, reason),
         pc[j] \in {"build", "refused", "check", "finalize"}, UNCHANGED manifest
  PROVE  Contract!Next
<1>1. IsActive(row[j]) /\ copy[j] \in Record
  BY DEF IInv, TypeOK, JobInv, WorkerInv, IsActive, ActiveStatuses
<1>2. View' = [View EXCEPT ![j] = "failed"]
  BY <1>1, ViewOfPut, FailedFields DEF FailAndReturn
<1> QED BY <1>1, <1>2, ContractFail

(* So is moving an unfinished job forward in its lifecycle.                 *)
LEMMA ContractAdvance ==
  ASSUME IInv, NEW j \in Jobs, NEW s, UNCHANGED manifest,
         View' = [View EXCEPT ![j] = s],
         \/ s = "starting"   /\ row[j].status = "queued"
         \/ s = "training"   /\ row[j].status \in {"queued", "starting"}
         \/ s = "finalizing" /\ row[j].status \in {"queued", "starting", "training"}
  PROVE  Contract!Next
<1>1. /\ DOMAIN Contract!Lifecycle = 1..4
      /\ Contract!Lifecycle[1] = "queued"   /\ Contract!Lifecycle[2] = "starting"
      /\ Contract!Lifecycle[3] = "training" /\ Contract!Lifecycle[4] = "finalizing"
  BY DEF Contract!Lifecycle
<1>2. PICK to \in 2..4 : Contract!Lifecycle[to] = s
  BY <1>1
<1>3. PICK from \in 1..3 : from < to /\ Contract!Lifecycle[from] = row[j].status
  <2>1. CASE row[j].status = "queued"
    BY <1>1, <1>2, <2>1
  <2>2. CASE row[j].status = "starting" /\ s \in {"training", "finalizing"}
    BY <1>1, <1>2, <2>2
  <2>3. CASE row[j].status = "training" /\ s = "finalizing"
    BY <1>1, <1>2, <2>3
  <2> QED BY <2>1, <2>2, <2>3
<1>4. Contract!Advance(j)
  <2>1. View[j] = Contract!Lifecycle[from] /\ from \in 1..4 /\ to \in 1..4
    BY <1>2, <1>3 DEF View
  <2>2. View' = [View EXCEPT ![j] = Contract!Lifecycle[to]]
    BY <1>2
  <2> HIDE DEF View
  <2>3. \E a, b \in DOMAIN Contract!Lifecycle :
           /\ a < b
           /\ View[j] = Contract!Lifecycle[a]
           /\ View' = [View EXCEPT ![j] = Contract!Lifecycle[b]]
    BY <1>1, <1>3, <2>1, <2>2
  <2> QED BY <2>3 DEF Contract!Advance, View
<1> QED BY <1>4, ContractNext

(* What a poll makes of the provider's state is a step of the contract.     *)
LEMMA ContractReadState ==
  ASSUME IInv, NEW j \in Jobs, ReadState(j)
  PROVE  Contract!Next \/ (View' = View /\ UNCHANGED manifest)
<1> DEFINE status == MapState(remote[j].state)
           job    == [copy[j] EXCEPT !.status = status]
           ending == Finalizing(copy[j])
<1>0. /\ copy[j] = row[j] /\ copy[j] \in Record /\ IsActive(row[j])
      /\ row[j].status = "training" => remote[j].state # "pending"
      /\ row[j].status = "finalizing" => remote[j].state = "succeeded"
      /\ UNCHANGED manifest
  BY DEF ReadState, IInv, TypeOK, JobInv, WorkerInv, RecordInv
<1>1. CASE UNCHANGED row
  BY <1>0, <1>1, ViewSame
<1>2. CASE Put(j, ending)
  <2>1. View' = [View EXCEPT ![j] = "finalizing"]
    BY <1>0, <1>2, ViewOfPut DEF Finalizing, Record
  <2>2. CASE row[j].status = "finalizing"
    BY <1>0, <2>1, <2>2 DEF View
  <2>3. CASE row[j].status # "finalizing"
    <3>1. row[j].status \in {"queued", "starting", "training"}
      BY <1>0, <2>3 DEF IsActive, ActiveStatuses
    <3> QED BY <1>0, <2>1, <3>1, ContractAdvance
  <2> QED BY <2>2, <2>3
<1>3. CASE status \notin {"unknown", "completed", copy[j].status} /\ Put(j, job)
  <2>1. View' = [View EXCEPT ![j] = status]
    BY <1>0, <1>3, ViewOfPut DEF Record
  <2>2. CASE status = "failed"
    BY <1>0, <2>1, <2>2, ContractFail
  <2>3. CASE status = "starting"
    <3>1. row[j].status = "queued"
      BY <1>0, <1>3, <2>3 DEF MapState, IsActive, ActiveStatuses
    <3> QED BY <1>0, <2>1, <2>3, <3>1, ContractAdvance
  <2>4. CASE status = "training"
    <3>1. row[j].status \in {"queued", "starting"}
      BY <1>0, <1>3, <2>4 DEF MapState, IsActive, ActiveStatuses
    <3> HIDE DEF status
    <3> QED BY <1>0, <2>1, <2>4, <3>1, ContractAdvance
  <2> QED BY <1>3, <2>2, <2>3, <2>4 DEF MapState
<1> QED BY <1>1, <1>2, <1>3 DEF ReadState

(* Every step of every actor is a step of the contract or changes nothing   *)
(* the tenant sees.                                                         *)
LEMMA ContractStep ==
  ASSUME IInv, [Next]_vars
  PROVE  Contract!Next \/ (View' = View /\ UNCHANGED manifest)
<1> DEFINE Goal == Contract!Next \/ (View' = View /\ UNCHANGED manifest)
<1> SUFFICES Goal
  OBVIOUS
<1>0. \A j \in Jobs : JobInv(j) /\ copy[j] \in Record /\ row[j] \in Record
  BY DEF IInv, TypeOK
<1>1. ASSUME NEW t \in Tenants, NEW k \in Keys, NEW j \in Jobs, Reserve(t, k, j)
      PROVE  Goal
  <2>1. View' = [View EXCEPT ![j] = "queued"] /\ View[j] = "none"
    BY <1>1, ViewOfPut, NewRecordFields DEF Reserve, View
  <2>2. Contract!Submit(j)
    BY <1>1, <2>1 DEF Contract!Submit, View, Reserve
  <2> QED BY <2>2, ContractNext
<1>2. ASSUME NEW j \in Jobs, SnapshotInputs(j) PROVE Goal
  <2>1. CASE UNCHANGED row
    BY <1>2, <2>1, ViewSame DEF SnapshotInputs
  <2>2. CASE Put(j, Failed(Queued(row[j].tenant), "input-publication"))
    <3>1. row[j] = Queued(row[j].tenant)
      BY <1>2, <1>0 DEF SnapshotInputs, JobInv, RequestInv
    <3>2. IsActive(row[j])
      BY <3>1, NewRecordFields DEF IsActive, ActiveStatuses
    <3>3. View' = [View EXCEPT ![j] = "failed"]
      BY <2>2, <3>1, <1>0, ViewOfPut, FailedFields
    <3> QED BY <1>2, <3>2, <3>3, ContractFail DEF SnapshotInputs
  <2> QED BY <1>2, <2>1, <2>2 DEF SnapshotInputs
<1>3. ASSUME NEW j \in Jobs, Submit(j) \/ SubmissionRefused(j) \/ CheckDeadline(j)
      PROVE  Goal
  BY <1>3, ContractFailWrite, ViewSame DEF Submit, SubmissionRefused, CheckDeadline
<1>4. ASSUME NEW j \in Jobs, RecordRemoteId(j) PROVE Goal
  <2>1. View' = [View EXCEPT ![j] = "starting"]
    <3>1. Put(j, Recorded(copy[j])) /\ Recorded(copy[j]).status = "starting"
      BY <1>4, <1>0, RecordedFields DEF RecordRemoteId
    <3> QED BY <3>1, ViewOfPut
  <2>2. row[j].status = "queued"
    BY <1>4, <1>0 DEF RecordRemoteId, JobInv, WorkerInv
  <2> QED BY <1>4, <2>1, <2>2, ContractAdvance DEF RecordRemoteId
<1>5. ASSUME NEW j \in Jobs, ExplainFailure(j) PROVE Goal
  <2>1. copy[j] = row[j] /\ row[j].status = "failed"
    BY <1>5, <1>0 DEF ExplainFailure, JobInv, WorkerInv
  <2>2. View' = [View EXCEPT ![j] = "failed"]
    BY <1>5, <1>0, ViewOfPut, FailedFields DEF ExplainFailure, FailAndReturn
  <2> QED BY <1>5, <2>1, <2>2 DEF ExplainFailure, View
<1>6. ASSUME NEW j \in Jobs, FinalizeAttempt(j) PROVE Goal
  <2>1. ASSUME NEW reason, FailAndReturn(j, reason), UNCHANGED manifest PROVE Goal
    BY <1>6, <2>1, ContractFailWrite DEF FinalizeAttempt
  <2>2. CASE UNCHANGED <<row, manifest>>
    BY <2>2, ViewSame
  <2>3. CASE UNCHANGED row /\ manifest' = manifest \cup {j}
    <3>1. View[j] = "finalizing"
      BY <1>6, <1>0 DEF FinalizeAttempt, JobInv, WorkerInv, View
    <3>2. Contract!Cache(j)
      BY <2>3, <3>1, ViewSame DEF Contract!Cache, View
    <3> QED BY <3>2, ContractNext
  <2> QED BY <1>6, <2>1, <2>2, <2>3 DEF FinalizeAttempt
<1>7. ASSUME NEW j \in Jobs, Seal(j) PROVE Goal
  <2>1. View' = [View EXCEPT ![j] = "completed"]
    BY <1>7, <1>0, ViewOfPut DEF Seal, Record
  <2>2. View[j] = "finalizing" /\ j \in manifest
    BY <1>7, <1>0 DEF Seal, JobInv, WorkerInv, View
  <2>3. Contract!Complete(j)
    BY <1>7, <2>1, <2>2 DEF Seal, Contract!Complete, View
  <2> QED BY <2>3, ContractNext
<1>8. ASSUME NEW j \in Jobs, ResumeJob(j) PROVE Goal
  <2>1. CASE UNCHANGED row
    BY <1>8, <2>1, ViewSame DEF ResumeJob
  <2>2. CASE Put(j, Failed(row[j], "interrupted"))
    <3>1. IsActive(row[j])
      BY <1>8, <1>0 DEF ResumeJob, JobInv, ScanInv
    <3>2. View' = [View EXCEPT ![j] = "failed"]
      BY <2>2, <1>0, ViewOfPut, FailedFields
    <3> QED BY <1>8, <3>1, <3>2, ContractFail DEF ResumeJob
  <2> QED BY <1>8, <2>1, <2>2 DEF ResumeJob, ResumeUnsubmitted
<1>9. ASSUME NEW j \in Jobs, \/ AgeOut(j) \/ Launch(j) \/ RemoteProgress(j)
                             \/ RemoteEnd(j)
      PROVE  Goal
  BY <1>9, ViewSame DEF AgeOut, Launch, RemoteProgress, RemoteEnd
<1>10. CASE Crash \/ Restart \/ Booted \/ Tick \/ UNCHANGED vars
  BY <1>10, ViewSame DEF Crash, Restart, Booted, Tick, vars
<1>11. ASSUME NEW j \in Jobs, ReadState(j) PROVE Goal
  BY <1>11, ContractReadState
<1> HIDE DEF Goal
<1> QED
  BY <1>1, <1>2, <1>3, <1>4, <1>5, <1>6, <1>7, <1>8, <1>9, <1>10, <1>11
     DEF Next, Handler, Worker, Startup

(* TrainingJobs implements the safety part of JobContract.                  *)
THEOREM Refinement == Spec => ImplementsContract
<1>1. Init => Contract!Init
  BY NewRecordFields DEF Init, Contract!Init
<1>2. IInv /\ [Next]_vars => [Contract!Next]_(Contract!vars)
  BY ContractStep DEF Contract!vars, View
<1> QED BY Invariance, <1>1, <1>2, PTL DEF Spec, ImplementsContract, Contract!Safety

-----------------------------------------------------------------------------
(* Only a reservation writes the table of idempotency keys.                 *)
LEMMA RequestWrites ==
  ASSUME [Next]_vars
  PROVE  \/ UNCHANGED requests
         \/ \E t \in Tenants, k \in Keys, j \in Jobs : Reserve(t, k, j)
<1>1. ASSUME NEW j \in Jobs, \/ AgeOut(j) \/ Handler(j) \/ RemoteProgress(j)
                             \/ RemoteEnd(j) \/ ResumeJob(j)
      PROVE  UNCHANGED requests
  BY <1>1 DEF AgeOut, Handler, SnapshotInputs, Launch, RemoteProgress, RemoteEnd,
              ResumeJob, durable
<1>2. ASSUME NEW j \in Jobs, Worker(j) PROVE UNCHANGED requests
  BY <1>2 DEF Worker, Submit, SubmissionRefused, RecordRemoteId, CheckDeadline,
              ReadState, ExplainFailure, FinalizeAttempt, Seal, WorkerOnly
<1>3. CASE Crash \/ Restart \/ Booted \/ Tick \/ UNCHANGED vars
  BY <1>3 DEF Crash, Restart, Booted, Tick, vars, durable
<1> QED BY <1>1, <1>2, <1>3 DEF Next, Startup

(* A reserved key names a job that exists and belongs to the key's tenant,  *)
(* and every job that exists was reserved by exactly one key.               *)
KeysNameRows ==
  \A t \in Tenants, k \in Keys :
     requests[<<t, k>>] # None => /\ row[requests[<<t, k>>]] # NoRow
                                  /\ row[requests[<<t, k>>]].tenant = t

ReservedBy(t, k, j) ==
  /\ requests[<<t, k>>] = j
  /\ row[j].tenant = t
  /\ \A u \in Tenants, l \in Keys : requests[<<u, l>>] = j => u = t /\ l = k

(* A step that only moves existing records keeps the reservations.          *)
LEMMA KeysFrame ==
  ASSUME KeysNameRows, OneJobPerKey, TypeOK, UNCHANGED requests,
         \A j \in Jobs : /\ row'[j] # NoRow => row[j] # NoRow
                         /\ row[j] # NoRow => /\ row'[j] # NoRow
                                              /\ row'[j].tenant = row[j].tenant
  PROVE  KeysNameRows' /\ OneJobPerKey'
<1>1. KeysNameRows'
  <2> SUFFICES ASSUME NEW t \in Tenants, NEW k \in Keys, requests[<<t, k>>] # None
               PROVE  /\ row'[requests[<<t, k>>]] # NoRow
                      /\ row'[requests[<<t, k>>]].tenant = t
    BY DEF KeysNameRows
  <2>1. requests[<<t, k>>] \in Jobs
    BY DEF TypeOK
  <2> QED BY <2>1 DEF KeysNameRows
<1>2. OneJobPerKey'
  <2> SUFFICES ASSUME NEW j \in Jobs, row'[j] # NoRow
               PROVE  \E t \in Tenants, k \in Keys : ReservedBy(t, k, j)'
    BY DEF OneJobPerKey, ReservedBy
  <2>1. PICK t \in Tenants, k \in Keys : ReservedBy(t, k, j)
    BY DEF OneJobPerKey, ReservedBy
  <2>2. ReservedBy(t, k, j)'
    BY <2>1 DEF ReservedBy
  <2> QED BY <2>2
<1> QED BY <1>1, <1>2

(* A reservation gives the new job its key, and takes none from another.    *)
LEMMA KeysReserve ==
  ASSUME KeysNameRows, OneJobPerKey, TypeOK,
         NEW t \in Tenants, NEW k \in Keys, NEW j \in Jobs, Reserve(t, k, j)
  PROVE  KeysNameRows' /\ OneJobPerKey'
<1>1. /\ row[j] = NoRow /\ requests[<<t, k>>] = None
      /\ row' = [row EXCEPT ![j] = Queued(t)]
      /\ requests' = [requests EXCEPT ![<<t, k>>] = j]
      /\ row \in [Jobs -> Record]
      /\ requests \in [Tenants \X Keys -> Jobs \cup {None}]
  BY DEF Reserve, Put, Unreserved, TypeOK
<1>2. Queued(t) # NoRow /\ Queued(t).tenant = t /\ None \notin Jobs
  BY NewRecordFields, IdsAssumption
<1>3. /\ row'[j] = Queued(t)
      /\ \A i \in Jobs : i # j => row'[i] = row[i]
  BY <1>1
<1>4. \A u \in Tenants, l \in Keys :
         requests'[<<u, l>>] = IF u = t /\ l = k THEN j ELSE requests[<<u, l>>]
  BY <1>1
<1>5. \A u \in Tenants, l \in Keys : requests[<<u, l>>] # j
  BY <1>1, <1>2 DEF KeysNameRows
<1>6. KeysNameRows'
  <2> SUFFICES ASSUME NEW u \in Tenants, NEW l \in Keys, requests'[<<u, l>>] # None
               PROVE  /\ row'[requests'[<<u, l>>]] # NoRow
                      /\ row'[requests'[<<u, l>>]].tenant = u
    BY DEF KeysNameRows
  <2>1. CASE u = t /\ l = k
    BY <1>2, <1>3, <1>4, <2>1
  <2>2. CASE ~(u = t /\ l = k)
    <3>1. requests'[<<u, l>>] = requests[<<u, l>>]
      BY <1>4, <2>2
    <3>2. requests[<<u, l>>] \in Jobs \ {j}
      BY <1>1, <1>5, <3>1
    <3> QED BY <1>3, <3>1, <3>2 DEF KeysNameRows
  <2> QED BY <2>1, <2>2
<1>7. OneJobPerKey'
  <2> SUFFICES ASSUME NEW i \in Jobs, row'[i] # NoRow
               PROVE  \E u \in Tenants, l \in Keys : ReservedBy(u, l, i)'
    BY DEF OneJobPerKey, ReservedBy
  <2>1. CASE i = j
    <3>1. ReservedBy(t, k, j)'
      BY <1>2, <1>3, <1>4, <1>5 DEF ReservedBy
    <3> QED BY <2>1, <3>1
  <2>2. CASE i # j
    <3>1. PICK u \in Tenants, l \in Keys : ReservedBy(u, l, i)
      BY <1>3, <2>2 DEF OneJobPerKey, ReservedBy
    <3>2. ~(u = t /\ l = k)
      BY <1>1, <1>2, <3>1 DEF ReservedBy
    <3>3. ReservedBy(u, l, i)'
      BY <1>3, <1>4, <2>2, <3>1, <3>2 DEF ReservedBy
    <3> QED BY <3>3
  <2> QED BY <2>1, <2>2
<1> QED BY <1>6, <1>7

(* However often a start request is retried, a job answers one key of one   *)
(* tenant, and it is that tenant's.                                         *)
THEOREM Reservations == Spec => []OneJobPerKey
<1>1. Init => KeysNameRows /\ OneJobPerKey
  BY DEF Init, KeysNameRows, OneJobPerKey
<1>2. ASSUME IInv, [Next]_vars, KeysNameRows, OneJobPerKey
      PROVE  KeysNameRows' /\ OneJobPerKey'
  <2>0. TypeOK /\ \A j \in Jobs : JobInv(j)
    BY <1>2 DEF IInv
  <2>1. CASE \E t \in Tenants, k \in Keys, j \in Jobs : Reserve(t, k, j)
    BY <1>2, <2>0, <2>1, KeysReserve
  <2>2. CASE /\ UNCHANGED requests
             /\ ~\E t \in Tenants, k \in Keys, j \in Jobs : Reserve(t, k, j)
    <3>1. CASE UNCHANGED row
      BY <1>2, <2>0, <2>2, <3>1, KeysFrame
    <3>2. ASSUME NEW i \in Jobs, row' = [row EXCEPT ![i] = row'[i]],
                 Moved(i) \/ Explained(i)
          PROVE  KeysNameRows' /\ OneJobPerKey'
      <4>1. /\ row[i].status # "none" /\ row'[i].status # "none"
            /\ row'[i].tenant = row[i].tenant
        BY <3>2 DEF Moved, Explained, IsActive, ActiveStatuses, TERMINAL_STATES
      <4>2. row[i] # NoRow /\ row'[i] # NoRow
        BY <4>1, NewRecordFields
      <4>3. \A j \in Jobs : j # i => row'[j] = row[j]
        BY <2>0, <3>2 DEF TypeOK
      <4> QED BY <1>2, <2>0, <2>2, <4>1, <4>2, <4>3, KeysFrame
    <3> QED BY <1>2, <2>2, <3>1, <3>2, RowWrites DEF Born
  <2> QED BY <1>2, <2>1, <2>2, RequestWrites
<1>3. IInv /\ [Next]_vars /\ (KeysNameRows /\ OneJobPerKey)
        => (KeysNameRows /\ OneJobPerKey)'
  BY <1>2
<1> QED BY Invariance, <1>1, <1>3, PTL DEF Spec
-----------------------------------------------------------------------------
(* The provider has a job for j that has not ended.                         *)
Live(j) == remote[j].state \in RemoteLive

(* What a step may do to the provider's job: the worker creates it, or it   *)
(* only gets closer to its end.                                             *)
Created(j) == /\ pc[j] = "build" /\ UNCHANGED row
              /\ remote'[j].left = RemoteLife
              /\ remote'[j].creates = remote[j].creates + 1

Closer(j) == /\ remote'[j].creates = remote[j].creates
             /\ Live(j)' => Live(j)
             /\ remote'[j].left <= remote[j].left

(* No other step creates a remote job, revives it or prolongs its life.     *)
LEMMA RemoteMoves ==
  ASSUME TypeOK, [Next]_vars, NEW j \in Jobs
  PROVE  Created(j) \/ Closer(j)
<1>0. remote[j] \in RemoteJob /\ remote \in [Jobs -> RemoteJob]
  BY DEF TypeOK
<1>1. UNCHANGED remote => Closer(j)
  BY <1>0 DEF Closer, Live, RemoteJob
<1>2. ASSUME NEW i \in Jobs, Submit(i) PROVE Created(j) \/ Closer(j)
  <2>1. CASE UNCHANGED remote
    BY <1>1, <2>1
  <2>2. CASE /\ UNCHANGED row
             /\ remote' = [remote EXCEPT ![i].state = "pending",
                                         ![i].left = RemoteLife,
                                         ![i].creates = @ + 1]
    <3>1. CASE i = j
      BY <1>0, <1>2, <2>2, <3>1 DEF Created, Submit, RemoteJob
    <3>2. CASE i # j
      BY <1>0, <2>2, <3>2 DEF Closer, Live, RemoteJob
    <3> QED BY <3>1, <3>2
  <2> QED BY <1>2, <2>1, <2>2 DEF Submit
<1>3. ASSUME NEW i \in Jobs, RemoteProgress(i) \/ RemoteEnd(i) PROVE Closer(j)
  <2>1. CASE i # j
    BY <1>0, <1>3, <2>1 DEF RemoteProgress, RemoteEnd, Closer, Live, RemoteJob
  <2>2. CASE i = j /\ RemoteProgress(j)
    BY <1>0, <2>2 DEF RemoteProgress, Closer, Live, RemoteJob, RemoteLive
  <2>3. CASE i = j /\ RemoteEnd(j)
    BY <1>0, <2>3 DEF RemoteEnd, Closer, Live, RemoteJob, RemoteLive
  <2> QED BY <1>3, <2>1, <2>2, <2>3
<1>4. CASE Tick
  <2>1. remote'[j] = [remote[j] EXCEPT !.left = Max0(@ - 1)]
    BY <1>4 DEF Tick
  <2>2. remote[j].left \in Nat /\ Max0(remote[j].left - 1) <= remote[j].left
    BY <1>0 DEF RemoteJob, Max0
  <2>3. /\ remote'[j].creates = remote[j].creates
        /\ remote'[j].state = remote[j].state
        /\ remote'[j].left = Max0(remote[j].left - 1)
    BY <1>0, <2>1 DEF RemoteJob
  <2> QED BY <2>2, <2>3 DEF Closer, Live
<1>5. ASSUME NEW i \in Jobs,
             \/ SubmissionRefused(i) \/ RecordRemoteId(i) \/ CheckDeadline(i)
             \/ ReadState(i) \/ ExplainFailure(i) \/ FinalizeAttempt(i) \/ Seal(i)
      PROVE  Closer(j)
  BY <1>1, <1>5 DEF SubmissionRefused, RecordRemoteId, CheckDeadline, ReadState,
                    ExplainFailure, FinalizeAttempt, Seal
<1>6. ASSUME NEW i \in Jobs, NEW t \in Tenants, NEW k \in Keys, Reserve(t, k, i)
      PROVE  Closer(j)
  BY <1>1, <1>6 DEF Reserve
<1>7. ASSUME NEW i \in Jobs, AgeOut(i) \/ Handler(i) \/ ResumeJob(i) PROVE Closer(j)
  BY <1>1, <1>7 DEF AgeOut, Handler, SnapshotInputs, Launch, ResumeJob
<1>8. CASE Crash \/ Restart \/ Booted \/ UNCHANGED vars
  BY <1>1, <1>8 DEF Crash, Restart, Booted, vars
<1> QED BY <1>2, <1>3, <1>4, <1>5, <1>6, <1>7, <1>8 DEF Next, Worker, Startup

(* The four ways in which a record becomes final: its remote id was never   *)
(* stored, the startup scan found it without one, its poller's deadline has *)
(* passed, or the remote job is not live.                                   *)
Unsubmitted(j) == row'[j].why = "submission"  /\ ~row'[j].remote
Interrupted(j) == row'[j].why = "interrupted" /\ server = "booting"
TimedOut(j)    == row'[j].why = "timeout"     /\ pc[j] = "check" /\ left[j] < 0
Ended(j) == /\ UNCHANGED remote
            /\ Unsubmitted(j) \/ Interrupted(j) \/ TimedOut(j) \/ ~Live(j)

(* Without a creation there is no remote job.                               *)
AbsentUntilCreated == \A j \in Jobs : remote[j].creates = 0 => ~Live(j)

(* A worker that gives up leaves its reason and the remote id as it was.    *)
LEMMA FailReason ==
  ASSUME IInv, NEW j \in Jobs, pc[j] # "idle", NEW reason, FailAndReturn(j, reason)
  PROVE  row'[j].why = reason /\ row'[j].remote = row[j].remote
<1>1. copy[j] = row[j] /\ row[j] \in Record /\ row'[j] = Failed(row[j], reason)
  BY PutAt DEF IInv, JobInv, WorkerInv, TypeOK, FailAndReturn
<1> QED BY <1>1, FailedFields

(* Every write leaves an unfinished record, or ends it in one of those ways.*)
LEMMA Endings ==
  ASSUME IInv, AbsentUntilCreated, LiveRemoteAccounted, [Next]_vars
  PROVE  \/ UNCHANGED row
         \/ \E j \in Jobs : /\ row' = [row EXCEPT ![j] = row'[j]]
                            /\ IsActive(row[j])' \/ Ended(j)
<1> DEFINE Goal == \/ UNCHANGED row
                   \/ \E j \in Jobs : /\ row' = [row EXCEPT ![j] = row'[j]]
                                      /\ IsActive(row[j])' \/ Ended(j)
<1> SUFFICES Goal
  OBVIOUS
<1>0. TypeOK /\ \A j \in Jobs : JobInv(j) /\ copy[j] \in Record /\ row[j] \in Record
  BY DEF IInv, TypeOK
<1>a. ASSUME NEW j \in Jobs, NEW job, Put(j, job)
      PROVE  row' = [row EXCEPT ![j] = row'[j]] /\ row'[j] = job
  BY <1>0, <1>a DEF Put, TypeOK
<1>1. ASSUME NEW t \in Tenants, NEW k \in Keys, NEW j \in Jobs, Reserve(t, k, j)
      PROVE  Goal
  <2>1. row' = [row EXCEPT ![j] = row'[j]] /\ row'[j] = Queued(t)
    BY <1>1, <1>a DEF Reserve
  <2> QED BY <2>1, NewRecordFields DEF IsActive, ActiveStatuses
<1>2. ASSUME NEW j \in Jobs, SnapshotInputs(j) PROVE Goal
  <2>1. ~Live(j) /\ UNCHANGED remote
    BY <1>0, <1>2 DEF SnapshotInputs, JobInv, RequestInv, AbsentUntilCreated
  <2> QED BY <1>2, <1>a, <2>1 DEF SnapshotInputs, Ended
<1>3. ASSUME NEW j \in Jobs, pc[j] # "idle", NEW reason, FailAndReturn(j, reason),
             Ended(j)
      PROVE  Goal
  BY <1>3, FailWrite
<1>4. ASSUME NEW j \in Jobs, Submit(j) \/ SubmissionRefused(j) PROVE Goal
  <2>1. CASE UNCHANGED row
    BY <2>1
  <2>2. CASE FailAndReturn(j, "submission") /\ UNCHANGED remote
    <3>1. ~row[j].remote /\ pc[j] # "idle"
      BY <1>0, <1>4 DEF Submit, SubmissionRefused, JobInv, WorkerInv
    <3>2. Ended(j)
      BY <2>2, <3>1, FailReason DEF Ended, Unsubmitted
    <3> QED BY <1>3, <2>2, <3>1, <3>2
  <2> QED BY <1>4, <2>1, <2>2 DEF Submit, SubmissionRefused
<1>5. ASSUME NEW j \in Jobs, CheckDeadline(j) PROVE Goal
  <2>1. CASE UNCHANGED row
    BY <2>1
  <2>2. CASE left[j] < 0 /\ FailAndReturn(j, "timeout")
    <3>1. pc[j] = "check" /\ UNCHANGED remote
      BY <1>5 DEF CheckDeadline
    <3>2. Ended(j)
      BY <2>2, <3>1, FailReason DEF Ended, TimedOut
    <3> QED BY <1>3, <2>2, <3>1, <3>2
  <2> QED BY <1>5, <2>1, <2>2 DEF CheckDeadline
<1>6. ASSUME NEW j \in Jobs, ReadState(j) PROVE Goal
  <2> DEFINE status == MapState(remote[j].state)
             job    == [copy[j] EXCEPT !.status = status]
             ending == Finalizing(copy[j])
  <2>1. CASE UNCHANGED row
    BY <2>1
  <2>2. CASE Put(j, ending)
    <3>1. ending.status = "finalizing"
      BY <1>0 DEF Finalizing, Record
    <3> QED BY <1>a, <2>2, <3>1 DEF IsActive, ActiveStatuses
  <2>3. CASE status \notin {"unknown", "completed"} /\ Put(j, job)
    <3>1. job.status = status /\ row' = [row EXCEPT ![j] = row'[j]] /\ row'[j] = job
      BY <1>0, <1>a, <2>3 DEF Record
    <3>2. UNCHANGED remote
      BY <1>6 DEF ReadState
    <3>3. status \in {"starting", "training"} \/ ~Live(j)
      BY <2>3 DEF MapState, Live, RemoteLive
    <3> HIDE DEF job, status
    <3> QED BY <3>1, <3>2, <3>3 DEF Ended, IsActive, ActiveStatuses
  <2> QED BY <1>6, <2>1, <2>2, <2>3 DEF ReadState
<1>7. ASSUME NEW j \in Jobs, ExplainFailure(j) PROVE Goal
  <2>1. row[j].status = "failed" /\ row[j].why = "none" /\ UNCHANGED remote
    BY <1>0, <1>7 DEF ExplainFailure, JobInv, WorkerInv
  <2>2. Ended(j)
    BY <2>1 DEF LiveRemoteAccounted, Live, IsActive, ActiveStatuses, Ended
  <2> QED BY <1>3, <1>7, <2>2 DEF ExplainFailure
<1>8. ASSUME NEW j \in Jobs, FinalizeAttempt(j) \/ Seal(j) PROVE Goal
  <2>1. ~Live(j) /\ UNCHANGED remote /\ pc[j] # "idle"
    BY <1>0, <1>8 DEF FinalizeAttempt, Seal, JobInv, WorkerInv, Live, RemoteLive
  <2>2. Ended(j)
    BY <2>1 DEF Ended
  <2> QED BY <1>3, <1>8, <1>a, <2>1, <2>2 DEF FinalizeAttempt, Seal
<1>9. ASSUME NEW j \in Jobs, ResumeJob(j) PROVE Goal
  <2>1. CASE UNCHANGED row
    BY <2>1
  <2>2. CASE Put(j, Failed(row[j], "interrupted"))
    <3>1. row'[j].why = "interrupted"
      BY <1>0, <1>a, <2>2, FailedFields
    <3>2. Ended(j)
      BY <1>9, <3>1 DEF ResumeJob, Ended, Interrupted
    <3> QED BY <1>a, <2>2, <3>2
  <2> QED BY <1>9, <2>1, <2>2 DEF ResumeJob, ResumeUnsubmitted
<1>10. ASSUME NEW j \in Jobs, RecordRemoteId(j) PROVE Goal
  <2>1. Recorded(copy[j]).status = "starting"
    BY <1>0, RecordedFields
  <2> QED BY <1>10, <1>a, <2>1 DEF RecordRemoteId, IsActive, ActiveStatuses
<1>11. ASSUME NEW j \in Jobs, \/ AgeOut(j) \/ Launch(j) \/ RemoteProgress(j)
                              \/ RemoteEnd(j)
       PROVE  Goal
  BY <1>11 DEF AgeOut, Launch, RemoteProgress, RemoteEnd, durable
<1>12. CASE Crash \/ Restart \/ Booted \/ Tick \/ UNCHANGED vars
  BY <1>12 DEF Crash, Restart, Booted, Tick, vars, durable
<1> HIDE DEF Goal
<1> QED
  BY <1>1, <1>2, <1>4, <1>5, <1>6, <1>7, <1>8, <1>9, <1>10, <1>11, <1>12
     DEF Next, Handler, Worker, Startup
-----------------------------------------------------------------------------
(* What the endings preserve, together with the inductive invariant.        *)
Accounts == AbsentUntilCreated /\ LiveRemoteAccounted

(* Creations and endings keep the accounts.                                 *)
LEMMA AccountsStep == IInv /\ [Next]_vars /\ Accounts => Accounts'
<1> SUFFICES ASSUME IInv, [Next]_vars, Accounts, NEW j \in Jobs
             PROVE  /\ remote'[j].creates = 0 => ~Live(j)'
                    /\ Live(j)' => \/ IsActive(row[j])'
                                   \/ row'[j].why \in {"submission", "interrupted", "timeout"}
  BY DEF Accounts, AbsentUntilCreated, LiveRemoteAccounted, Live
<1>0. /\ TypeOK /\ JobInv(j) /\ remote[j].creates \in Nat
      /\ remote[j].creates = 0 => ~Live(j)
      /\ Live(j) => \/ IsActive(row[j])
                    \/ row[j].why \in {"submission", "interrupted", "timeout"}
  BY DEF IInv, TypeOK, RemoteJob, Accounts, AbsentUntilCreated,
         LiveRemoteAccounted, Live
<1>1. CASE Created(j)
  <2>1. IsActive(row[j])' /\ remote'[j].creates # 0
    BY <1>0, <1>1 DEF Created, JobInv, WorkerInv, IsActive, ActiveStatuses
  <2> QED BY <2>1
<1>2. CASE Closer(j)
  <2>1. remote'[j].creates = 0 => ~Live(j)'
    BY <1>0, <1>2 DEF Closer
  <2>2. CASE row'[j] = row[j]
    BY <1>0, <1>2, <2>1, <2>2 DEF Closer, IsActive
  <2>3. CASE IsActive(row[j])'
    BY <2>1, <2>3
  <2>4. CASE Ended(j)
    BY <2>1, <2>4 DEF Ended, Unsubmitted, Interrupted, TimedOut, Live
  <2>5. \A i \in Jobs : row' = [row EXCEPT ![i] = row'[i]] => i = j \/ row'[j] = row[j]
    BY <1>0 DEF TypeOK
  <2> QED BY <2>2, <2>3, <2>4, <2>5, Endings DEF Accounts
<1> QED BY <1>0, <1>1, <1>2, RemoteMoves

(* Before the first request there is no remote job to account for.          *)
LEMMA AccountsInit == Init => Accounts
  BY DEF Init, NoRemote, Accounts, AbsentUntilCreated, LiveRemoteAccounted,
         Live, RemoteLive

(* A remote job runs behind a finished record only if its id was never      *)
(* stored, or its poller's deadline has passed.                             *)
THEOREM RemoteAccounted == Spec => []LiveRemoteAccounted
<1>1. Accounts => LiveRemoteAccounted
  BY DEF Accounts
<1> QED BY Invariance, AccountsInit, AccountsStep, <1>1, PTL DEF Spec
-----------------------------------------------------------------------------
(* While the process has never stopped, it serves, and a poller has at      *)
(* least as many ticks left as the remote job that it polls.                *)
PollerOutlasts(j) ==
  Live(j) => /\ remote[j].left <= RemoteLife
             /\ pc[j] \in {"check", "read"} => remote[j].left <= left[j]
             /\ row[j].remote => IsActive(row[j])

NeverStopped == crashes = 0 => /\ server = "serving"
                               /\ \A j \in Jobs : PollerOutlasts(j)

(* How a worker comes to poll, and what its clock says from then on.        *)
LEMMA ClockMoves ==
  ASSUME TypeOK, [Next]_vars, NEW j \in Jobs, server = "serving", crashes' = 0,
         pc'[j] \in {"check", "read"}
  PROVE  \/ Tick /\ pc[j] \in {"check", "read"}
         \/ left'[j] = left[j] /\ pc[j] \in {"check", "read"}
         \/ left'[j] = Deadline /\ UNCHANGED remote
<1> DEFINE Goal == \/ Tick /\ pc[j] \in {"check", "read"}
                   \/ left'[j] = left[j] /\ pc[j] \in {"check", "read"}
                   \/ left'[j] = Deadline /\ UNCHANGED remote
<1> SUFFICES Goal
  OBVIOUS
<1>0. /\ pc \in [Jobs -> WorkerSteps] /\ left \in [Jobs -> Nat \cup {-1}]
      /\ crashes \in Nat
  BY DEF TypeOK
<1>1. CASE pc'[j] = pc[j] /\ left'[j] = left[j]
  BY <1>1
<1>2. ASSUME NEW i \in Jobs, i # j, Worker(i) \/ Launch(i) PROVE Goal
  <2>1. pc'[j] = pc[j] /\ left'[j] = left[j]
    BY <1>0, <1>2
    DEF Launch, Worker, Submit, SubmissionRefused, RecordRemoteId, CheckDeadline,
        ReadState, ExplainFailure, FinalizeAttempt, Seal, FailAndReturn, Return, Go
  <2> QED BY <1>1, <2>1
<1>3. ASSUME \/ Launch(j) \/ Submit(j) \/ SubmissionRefused(j) \/ ExplainFailure(j)
             \/ FinalizeAttempt(j) \/ Seal(j)
      PROVE  Goal
  BY <1>0, <1>1, <1>3
  DEF Launch, Submit, SubmissionRefused, ExplainFailure, FinalizeAttempt, Seal,
      FailAndReturn, Return, Go
<1>4. CASE RecordRemoteId(j)
  BY <1>0, <1>4 DEF RecordRemoteId
<1>5. CASE CheckDeadline(j)
  BY <1>0, <1>5 DEF CheckDeadline, FailAndReturn, Return, Go
<1>6. CASE ReadState(j)
  BY <1>0, <1>6 DEF ReadState
<1>7. CASE Tick
  BY <1>7 DEF Tick
<1>8. ASSUME NEW i \in Jobs, NEW t \in Tenants, NEW k \in Keys, Reserve(t, k, i)
      PROVE  Goal
  BY <1>1, <1>8 DEF Reserve, thread
<1>9. ASSUME NEW i \in Jobs, \/ AgeOut(i) \/ SnapshotInputs(i) \/ RemoteProgress(i)
                             \/ RemoteEnd(i)
      PROVE  Goal
  BY <1>1, <1>9 DEF AgeOut, SnapshotInputs, RemoteProgress, RemoteEnd, thread
<1>10. ASSUME NEW i \in Jobs, ResumeJob(i) PROVE FALSE
  BY <1>10 DEF ResumeJob
<1>11. ~Crash
  BY <1>0 DEF Crash
<1>12. CASE Restart \/ Booted \/ UNCHANGED vars
  BY <1>1, <1>12 DEF Restart, Booted, vars, thread
<1> HIDE DEF Goal
<1> QED
  BY <1>2, <1>3, <1>4, <1>5, <1>6, <1>7, <1>8, <1>9, <1>10, <1>11, <1>12
     DEF Next, Handler, Worker, Startup

(* A process that serves goes on serving, unless it stops.                  *)
LEMMA ServingStep ==
  ASSUME TypeOK, [Next]_vars, crashes' = 0, crashes = 0 => server = "serving"
  PROVE  crashes = 0 /\ server' = "serving"
<1>1. ASSUME NEW j \in Jobs, Worker(j) PROVE UNCHANGED <<crashes, server>>
  BY <1>1 DEF Worker, Submit, SubmissionRefused, RecordRemoteId, CheckDeadline,
              ReadState, ExplainFailure, FinalizeAttempt, Seal, WorkerOnly, process
<1>2. ASSUME NEW j \in Jobs, \/ AgeOut(j) \/ Handler(j) \/ RemoteProgress(j)
                             \/ RemoteEnd(j)
      PROVE  UNCHANGED <<crashes, server>>
  BY <1>2 DEF AgeOut, Handler, SnapshotInputs, Launch, RemoteProgress, RemoteEnd,
              process
<1>3. ASSUME NEW j \in Jobs, NEW t \in Tenants, NEW k \in Keys, Reserve(t, k, j)
      PROVE  UNCHANGED <<crashes, server>>
  BY <1>3 DEF Reserve
<1>4. ASSUME Startup PROVE UNCHANGED crashes /\ server # "serving"
  BY <1>4 DEF Startup, Restart, Booted, ResumeJob
<1>5. ~Crash
  BY DEF Crash, TypeOK
<1>6. CASE Tick \/ UNCHANGED vars
  BY <1>6 DEF Tick, vars, process
<1> QED BY <1>1, <1>2, <1>3, <1>4, <1>5, <1>6 DEF Next

(* A tick takes one from both clocks, and only while no remote job is due.  *)
LEMMA TickClocks ==
  ASSUME TypeOK, Tick, NEW j \in Jobs, Live(j), remote[j].left <= left[j]
  PROVE  remote'[j].left <= left'[j]
<1>1. remote[j].left \in Nat /\ remote[j].left > 0 /\ left[j] \in Nat \cup {-1}
  BY DEF Tick, TypeOK, RemoteJob, Live
<1>2. remote'[j].left = remote[j].left - 1
  BY <1>1 DEF Tick, Max0, TypeOK, RemoteJob
<1>3. left'[j] = left[j] - 1
  BY <1>1 DEF Tick
<1> QED BY <1>1, <1>2, <1>3

(* The clock of a poller and the life of its remote job run down together.  *)
LEMMA NeverStoppedStep == IInv /\ [Next]_vars /\ Accounts /\ NeverStopped => NeverStopped'
<1> SUFFICES ASSUME IInv, [Next]_vars, Accounts, NeverStopped, crashes' = 0
             PROVE  server' = "serving" /\ \A j \in Jobs : PollerOutlasts(j)'
  BY DEF NeverStopped
<1>0. TypeOK /\ \A j \in Jobs : JobInv(j)
  BY DEF IInv
<1>1. crashes = 0 /\ server' = "serving" /\ server = "serving"
  BY <1>0, ServingStep DEF NeverStopped
<1>2. ASSUME NEW j \in Jobs, Live(j)'
      PROVE  /\ remote'[j].left <= RemoteLife
             /\ pc'[j] \in {"check", "read"} => remote'[j].left <= left'[j]
             /\ row'[j].remote => IsActive(row[j])'
  <2>0. /\ PollerOutlasts(j)
        /\ remote[j].left \in Nat /\ remote'[j].left \in Nat
        /\ left[j] \in Nat \cup {-1} /\ RemoteLife \in Nat
    BY <1>0, <1>1, TypeStep, TimesAssumption
    DEF NeverStopped, IInv, TypeOK, RemoteJob
  <2>1. Created(j) \/ (Closer(j) /\ Live(j))
    BY <1>0, <1>2, RemoteMoves DEF Closer
  <2>2. remote'[j].left <= RemoteLife
    BY <2>0, <2>1 DEF Created, Closer, PollerOutlasts
  <2>3. ASSUME pc'[j] \in {"check", "read"} PROVE remote'[j].left <= left'[j]
    <3>1. CASE Tick /\ pc[j] \in {"check", "read"}
      BY <1>0, <2>0, <2>1, <3>1, TickClocks DEF Created, PollerOutlasts
    <3>2. CASE left'[j] = left[j] /\ pc[j] \in {"check", "read"}
      BY <2>0, <2>1, <3>2 DEF Created, Closer, PollerOutlasts
    <3>3. CASE left'[j] = Deadline /\ UNCHANGED remote
      BY <2>0, <2>2, <3>3, TimesAssumption DEF Deadline
    <3> QED BY <1>0, <1>1, <2>3, <3>1, <3>2, <3>3, ClockMoves
  <2>4. row'[j].remote => IsActive(row[j])'
    <3>1. CASE Created(j)
      BY <1>0, <3>1 DEF Created, JobInv, WorkerInv, IsActive, ActiveStatuses
    <3>2. CASE Live(j) /\ row'[j] = row[j]
      BY <2>0, <3>2 DEF PollerOutlasts, IsActive
    <3>3. CASE Live(j) /\ Ended(j)
      <4>1. ~TimedOut(j)
        BY <2>0, <3>3 DEF TimedOut, PollerOutlasts
      <4> QED BY <1>1, <3>3, <4>1 DEF Ended, Unsubmitted, Interrupted
    <3>4. \A i \in Jobs : row' = [row EXCEPT ![i] = row'[i]] => i = j \/ row'[j] = row[j]
      BY <1>0 DEF TypeOK
    <3> QED BY <2>1, <3>1, <3>2, <3>3, <3>4, Endings DEF Accounts
  <2> QED BY <2>2, <2>3, <2>4
<1> QED BY <1>1, <1>2 DEF PollerOutlasts

(* No job is reported finished while it executes, as long as the process    *)
(* that polls it was never restarted: the margin outlasts the provider.     *)
THEOREM PollerPatience == Spec => []ExecutingIsNonTerminalUntilRestart
<1>1. Init => NeverStopped
  BY DEF Init, NoRemote, NeverStopped, PollerOutlasts, Live, RemoteLive
<1>2. NeverStopped => ExecutingIsNonTerminalUntilRestart
  BY DEF NeverStopped, PollerOutlasts, Live, RemoteLive, IsActive, ActiveStatuses,
         TERMINAL_STATES, ExecutingIsNonTerminal, ExecutingIsNonTerminalUntilRestart
<1> QED BY Invariance, AccountsInit, AccountsStep, NeverStoppedStep, <1>1, <1>2, PTL
        DEF Spec
=============================================================================
