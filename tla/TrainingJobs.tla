---------------------------- MODULE TrainingJobs ----------------------------
(***************************************************************************)
(* Training jobs of the SaaS backend: the start handler in main.py, the     *)
(* reservation in store.py, and the worker threads of NebiusBackend in      *)
(* orchestration.py, against a remote provider that is modelled from how    *)
(* the code uses it.                                                        *)
(*                                                                          *)
(* One step is one durable write or one remote call, with the computation   *)
(* up to the next one; the process may stop between any two.  Restarts go   *)
(* through the startup scan (resume), during which no request is served.    *)
(* The deployment runs one replica with strategy Recreate, so two processes *)
(* never share the database.                                                *)
(*                                                                          *)
(* Time is counted in ticks: `left` and `remote.left` count down together.  *)
(***************************************************************************)
EXTENDS Integers, FiniteSets

CONSTANTS
  Jobs,              \* job ids the handler may draw (uuid4)
  Tenants, Keys,     \* tenants, and their idempotency keys for a setup
  None,              \* no tenant, no job
  MaxActive,         \* max_active_training_jobs_per_tenant
  MaxDaily,          \* max_daily_starts_per_tenant
  Timeout,           \* submission.timeout_seconds
  Margin,            \* POLL_TIMEOUT_MARGIN_SECONDS
  RemoteLife,        \* ticks after which the provider has ended a job
  FinalizeAttempts,  \* finalize_attempts
  MaxCrashes         \* bound on process stops, for model checking

ASSUME IdsAssumption == /\ IsFiniteSet(Jobs)
                        /\ None \notin Jobs
                        /\ None \notin Tenants

ASSUME LimitsAssumption == /\ MaxActive \in Nat
                           /\ MaxDaily \in Nat
                           /\ FinalizeAttempts \in Nat
                           /\ MaxCrashes \in Nat

(* The margin exists so that the provider ends a job before the poller      *)
(* gives it up (the comment above POLL_TIMEOUT_MARGIN_SECONDS).             *)
ASSUME TimesAssumption == /\ Timeout \in Nat
                          /\ Margin \in Nat
                          /\ RemoteLife \in Nat
                          /\ RemoteLife <= Timeout + Margin

VARIABLES
  row,        \* jobs table: the latest record put for each job
  requests,   \* custom_training_requests: the job of each (tenant, key)
  recent,     \* jobs whose request is less than 24 hours old
  manifest,   \* artifacts table: jobs whose manifest is stored
  server,     \* the process: "down", "booting" (startup event), "serving"
  bootQueue,  \* rows list_active() returned that resume has not handled yet
  handler,    \* where the request thread that reserved the job is
  pc,         \* where the worker thread of the job is ("idle": not in _active)
  copy,       \* the worker's local `job`
  left,       \* ticks until its `time.monotonic() > deadline`; -1: it holds
  tries,      \* finalization reads the worker has left
  remote,     \* the provider's job and the artifacts it publishes
  crashes     \* process stops so far

durable == <<row, requests, recent, manifest>>
process == <<server, bootQueue, handler>>
thread  == <<pc, copy, left, tries>>
vars    == <<durable, process, thread, remote, crashes>>
-----------------------------------------------------------------------------
ActiveStatuses == {"queued", "starting", "training", "finalizing"}
TERMINAL_STATES == {"completed", "failed"}

(* (failure_phase, error) of a record, by the place that sets them.         *)
Reasons == {"none", "input-publication", "submission", "interrupted",
            "remote", "timeout", "artifact_validation", "finalization"}

Record == [status : {"none"} \cup ActiveStatuses \cup TERMINAL_STATES,
           tenant : Tenants \cup {None},
           remote : BOOLEAN,        \* nebius_job_id is set
           why    : Reasons]

NoRow == [status |-> "none", tenant |-> None, remote |-> FALSE, why |-> "none"]

Queued(t) ==
  [status |-> "queued", tenant |-> t, remote |-> FALSE, why |-> "none"]

Failed(job, reason) == [job EXCEPT !.status = "failed", !.why = reason]

IsActive(job) == job.status \in ActiveStatuses

ActiveOf(t) == {j \in Jobs : row[j].tenant = t /\ IsActive(row[j])}

UnderQuotaOffByOne(t) == Cardinality(ActiveOf(t)) <= MaxActive       \* mutant
UnderQuota(t) == Cardinality(ActiveOf(t)) < MaxActive

UnderDailyQuota(t) == Cardinality({j \in recent : row[j].tenant = t}) < MaxDaily

UnreservedAlways(t, k) == TRUE                                       \* mutant
Unreserved(t, k) == requests[<<t, k>>] = None

list_active == {j \in Jobs : IsActive(row[j])}

(* Mutant: the manifest is not validated.                                   *)
ReadableUnvalidated(j) == remote[j].artifacts # "none"
Readable(j) == remote[j].artifacts = "valid"

WorkerSteps == {"idle", "build", "record", "refused", "check", "read",
                "explain", "finalize", "seal"}

RemoteLive  == {"pending", "running", "stopping"}
RemoteEnded == {"succeeded", "failed"}

RemoteJob == [state : {"absent"} \cup RemoteLive \cup RemoteEnded,
              left : Nat,
              artifacts : {"none", "valid", "invalid"},
              creates : Nat]

NoRemote == [state |-> "absent", left |-> 0, artifacts |-> "none", creates |-> 0]

(* Mutants: the raw name of an unknown state is stored; a transitional state *)
(* counts as a failure.                                                     *)
MapStateRaw(s) == CASE s = "pending"   -> "starting"
                    [] s = "running"   -> "training"
                    [] s = "succeeded" -> "completed"
                    [] OTHER           -> s
MapStateEager(s) == CASE s = "pending"   -> "starting"
                      [] s = "running"   -> "training"
                      [] s = "succeeded" -> "completed"
                      [] OTHER           -> "failed"

(* map_nebius_state: transitional states (CANCELLING, ...) say nothing.     *)
MapState(s) == CASE s = "pending"   -> "starting"
                 [] s = "running"   -> "training"
                 [] s = "succeeded" -> "completed"
                 [] s = "failed"    -> "failed"
                 [] OTHER           -> "unknown"

FinalizingAsCompleted(job) == [job EXCEPT !.status = "completed"]   \* mutant
Finalizing(job) == [job EXCEPT !.status = "finalizing"]

Recorded(job) == [job EXCEPT !.status = "starting", !.remote = TRUE]

DeadlineWithoutMargin == Timeout                                     \* mutant
Deadline == Timeout + Margin

Max0(n) == IF n > 0 THEN n ELSE 0
-----------------------------------------------------------------------------
Init == /\ row = [j \in Jobs |-> NoRow]
        /\ requests = [r \in Tenants \X Keys |-> None]
        /\ recent = {}
        /\ manifest = {}
        /\ server = "serving"
        /\ bootQueue = {}
        /\ handler = [j \in Jobs |-> "idle"]
        /\ pc = [j \in Jobs |-> "idle"]
        /\ copy = [j \in Jobs |-> NoRow]
        /\ left = [j \in Jobs |-> -1]
        /\ tries = [j \in Jobs |-> 0]
        /\ remote = [j \in Jobs |-> NoRemote]
        /\ crashes = 0

(* The durable write of the worker: JobStore.put replaces the whole record. *)
Put(j, job) == row' = [row EXCEPT ![j] = job]

(* The worker stays in its loop at `step`, holding the record it put last.  *)
Go(j, step, job) == /\ pc' = [pc EXCEPT ![j] = step]
                    /\ copy' = [copy EXCEPT ![j] = job]

(* The worker returns: guarded() discards the job from _active.             *)
Return(j) == /\ Go(j, "idle", NoRow)
             /\ left' = [left EXCEPT ![j] = -1]
             /\ tries' = [tries EXCEPT ![j] = 0]

(* _fail, as the worker's last write.                                       *)
FailAndReturn(j, reason) == /\ Put(j, Failed(copy[j], reason))
                            /\ Return(j)

WorkerOnly == UNCHANGED <<requests, recent, process, crashes>>
-----------------------------------------------------------------------------
(* The start handler.  reserve_training_job is one transaction; a request   *)
(* whose key is already reserved returns that job and changes nothing.      *)
Reserve(t, k, j) ==
  /\ server = "serving"
  /\ row[j] = NoRow
  /\ Unreserved(t, k)
  /\ UnderQuota(t)
  /\ UnderDailyQuota(t)
  /\ Put(j, Queued(t))
  /\ requests' = [requests EXCEPT ![<<t, k>>] = j]
  /\ recent' = recent \cup {j}
  /\ handler' = [handler EXCEPT ![j] = "snapshot"]
  /\ UNCHANGED <<manifest, server, bootQueue, thread, remote, crashes>>

(* A day passes since the request was made.                                 *)
AgeOut(j) == /\ j \in recent
             /\ recent' = recent \ {j}
             /\ UNCHANGED <<row, requests, manifest, process, thread, remote,
                            crashes>>

SnapshotInputs(j) ==
  /\ handler[j] = "snapshot"
  /\ \/ /\ handler' = [handler EXCEPT ![j] = "launch"]
        /\ UNCHANGED row
     \/ /\ Put(j, Failed(Queued(row[j].tenant), "input-publication"))
        /\ handler' = [handler EXCEPT ![j] = "idle"]
  /\ UNCHANGED <<requests, recent, manifest, server, bootQueue, thread,
                 remote, crashes>>

(* launch -> _start: no second worker for a job that is in _active.         *)
Launch(j) ==
  /\ handler[j] = "launch"
  /\ handler' = [handler EXCEPT ![j] = "idle"]
  /\ IF pc[j] = "idle"
       THEN Go(j, "build", Queued(row[j].tenant))
       ELSE UNCHANGED <<pc, copy>>
  /\ UNCHANGED <<durable, server, bootQueue, left, tries, remote, crashes>>
-----------------------------------------------------------------------------
(* _run up to the answer of create_job: the submission cannot be built, the *)
(* provider refuses it, it is created, or it is created and the answer is   *)
(* lost.                                                                    *)
Submit(j) ==
  /\ pc[j] = "build"
  /\ \/ FailAndReturn(j, "submission") /\ UNCHANGED remote
     \/ /\ \E step \in {"record", "refused"} : Go(j, step, copy[j])
        /\ remote' = [remote EXCEPT ![j].state = "pending",
                                    ![j].left = RemoteLife,
                                    ![j].creates = @ + 1]
        /\ UNCHANGED <<row, left, tries>>
  /\ UNCHANGED manifest
  /\ WorkerOnly

(* create_job raised although the provider has created the job.             *)
SubmissionRefused(j) == /\ pc[j] = "refused"
                        /\ FailAndReturn(j, "submission")
                        /\ UNCHANGED <<manifest, remote>>
                        /\ WorkerOnly

RecordRemoteId(j) ==
  /\ pc[j] = "record"
  /\ Put(j, Recorded(copy[j]))
  /\ Go(j, "check", Recorded(copy[j]))
  /\ left' = [left EXCEPT ![j] = Deadline]
  /\ UNCHANGED <<manifest, tries, remote>>
  /\ WorkerOnly

(* The head of _poll's loop; the thread then sleeps before it reads.        *)
CheckDeadline(j) ==
  /\ pc[j] = "check"
  /\ \/ left[j] < 0 /\ FailAndReturn(j, "timeout")
     \/ left[j] >= 0 /\ Go(j, "read", copy[j]) /\ UNCHANGED <<row, left, tries>>
  /\ UNCHANGED <<manifest, remote>>
  /\ WorkerOnly

(* The rest of _poll's loop.  get_job_state may raise, whatever the state.  *)
ReadState(j) ==
  /\ pc[j] = "read"
  /\ LET status == MapState(remote[j].state)
         news   == status \notin {"unknown", copy[j].status}
         job    == [copy[j] EXCEPT !.status = status]
         ending == Finalizing(copy[j])
     IN \/ /\ Go(j, "check", copy[j])
           /\ UNCHANGED <<row, tries>>
        \/ /\ news /\ status = "completed"
           /\ Put(j, ending) /\ Go(j, "finalize", ending)
           /\ tries' = [tries EXCEPT ![j] = FinalizeAttempts]
        \/ /\ news /\ status # "completed"
           /\ Put(j, job)
           /\ Go(j, IF status = "failed" THEN "explain" ELSE "check", job)
           /\ UNCHANGED tries
  /\ UNCHANGED <<manifest, left, remote>>
  /\ WorkerOnly

(* The second put of a remote failure, with its phase and error.            *)
ExplainFailure(j) == /\ pc[j] = "explain"
                     /\ FailAndReturn(j, "remote")
                     /\ UNCHANGED <<manifest, remote>>
                     /\ WorkerOnly

(* One turn of _complete's loop: give up, or read the manifest from object  *)
(* storage (absent or unreadable, invalid, or valid).                       *)
FinalizeAttempt(j) ==
  /\ pc[j] = "finalize"
  /\ \/ /\ left[j] < 0 \/ tries[j] = 0
        /\ FailAndReturn(j, "finalization")
        /\ UNCHANGED manifest
     \/ /\ left[j] >= 0 /\ tries[j] > 0
        /\ \/ /\ tries' = [tries EXCEPT ![j] = @ - 1]
              /\ UNCHANGED <<row, manifest, pc, copy, left>>
           \/ /\ remote[j].artifacts = "invalid"
              /\ FailAndReturn(j, "artifact_validation")
              /\ UNCHANGED manifest
           \/ /\ Readable(j)
              /\ manifest' = manifest \cup {j}
              /\ Go(j, "seal", copy[j])
              /\ UNCHANGED <<row, left, tries>>
  /\ UNCHANGED remote
  /\ WorkerOnly

(* The put that follows set_artifacts.                                      *)
Seal(j) == /\ pc[j] = "seal"
           /\ Put(j, [copy[j] EXCEPT !.status = "completed"])
           /\ Return(j)
           /\ UNCHANGED <<manifest, remote>>
           /\ WorkerOnly

Worker(j) == \/ Submit(j) \/ SubmissionRefused(j) \/ RecordRemoteId(j)
             \/ CheckDeadline(j) \/ ReadState(j) \/ ExplainFailure(j)
             \/ FinalizeAttempt(j) \/ Seal(j)
-----------------------------------------------------------------------------
(* The process stops: threads, deadlines and _active are gone.              *)
Crash == /\ server # "down"
         /\ crashes < MaxCrashes
         /\ crashes' = crashes + 1
         /\ server' = "down"
         /\ bootQueue' = {}
         /\ handler' = [j \in Jobs |-> "idle"]
         /\ pc' = [j \in Jobs |-> "idle"]
         /\ copy' = [j \in Jobs |-> NoRow]
         /\ left' = [j \in Jobs |-> -1]
         /\ tries' = [j \in Jobs |-> 0]
         /\ UNCHANGED <<durable, remote>>

(* resume_jobs, the startup event: resume works through list_active().      *)
Restart == /\ server = "down"
           /\ server' = "booting"
           /\ bootQueue' = list_active
           /\ UNCHANGED <<durable, handler, thread, remote, crashes>>

(* Mutants: a job without a remote id is submitted (again), or left alone.  *)
ResumeBySubmitting(j) == /\ Go(j, "build", row[j])
                         /\ UNCHANGED <<row, left>>
ResumeByIgnoring(j) == UNCHANGED <<row, pc, copy, left>>

ResumeUnsubmitted(j) == /\ Put(j, Failed(row[j], "interrupted"))
                        /\ UNCHANGED <<pc, copy, left>>

ResumeJob(j) ==
  /\ server = "booting"
  /\ j \in bootQueue
  /\ bootQueue' = bootQueue \ {j}
  /\ \/ /\ ~row[j].remote
        /\ ResumeUnsubmitted(j)
     \/ /\ row[j].remote
        /\ Go(j, "check", row[j])
        /\ left' = [left EXCEPT ![j] = Margin]
        /\ UNCHANGED row
  /\ UNCHANGED <<requests, recent, manifest, server, handler, tries, remote,
                 crashes>>

Booted == /\ server = "booting"
          /\ bootQueue = {}
          /\ server' = "serving"
          /\ UNCHANGED <<durable, bootQueue, handler, thread, remote, crashes>>

Startup == Restart \/ Booted \/ \E j \in Jobs : ResumeJob(j)
-----------------------------------------------------------------------------
(* The provider.  A job runs at most RemoteLife ticks; its artifacts are    *)
(* uploaded by the time it succeeds, or by a finalizer that runs later.     *)
RemoteProgress(j) ==
  /\ \/ /\ remote[j].state = "pending"
        /\ remote' = [remote EXCEPT ![j].state = "running"]
     \/ /\ remote[j].state \in {"pending", "running"}
        /\ remote' = [remote EXCEPT ![j].state = "stopping"]
     \/ /\ remote[j].state = "succeeded"
        /\ remote[j].artifacts = "none"
        /\ remote' = [remote EXCEPT ![j].artifacts = "valid"]
  /\ UNCHANGED <<durable, process, thread, crashes>>

RemoteEnd(j) ==
  /\ remote[j].state \in RemoteLive
  /\ \/ remote' = [remote EXCEPT ![j].state = "failed", ![j].left = 0]
     \/ /\ remote[j].state = "running"
        /\ \E a \in {"none", "valid", "invalid"} :
              remote' = [remote EXCEPT ![j].state = "succeeded",
                                       ![j].left = 0,
                                       ![j].artifacts = a]
  /\ UNCHANGED <<durable, process, thread, crashes>>

Tick ==
  /\ \A j \in Jobs : remote[j].state \in RemoteLive => remote[j].left > 0
  /\ left' = [j \in Jobs |-> IF left[j] < 0 THEN left[j] ELSE left[j] - 1]
  /\ remote' = [j \in Jobs |-> [remote[j] EXCEPT !.left = Max0(@ - 1)]]
  /\ UNCHANGED <<durable, process, pc, copy, tries, crashes>>
-----------------------------------------------------------------------------
Handler(j) == SnapshotInputs(j) \/ Launch(j)

Next == \/ \E t \in Tenants, k \in Keys, j \in Jobs : Reserve(t, k, j)
        \/ \E j \in Jobs : \/ AgeOut(j) \/ Handler(j) \/ Worker(j)
                           \/ RemoteProgress(j) \/ RemoteEnd(j)
        \/ Crash \/ Startup \/ Tick

Spec == Init /\ [][Next]_vars

(* Request and worker threads are scheduled, a stopped container restarts,  *)
(* the clock advances and the provider enforces its own timeout.  Nothing   *)
(* is assumed of provider reads: each of them may fail.                     *)
Fairness == /\ \A j \in Jobs : WF_vars(Handler(j)) /\ WF_vars(Worker(j))
            /\ \A j \in Jobs : WF_vars(RemoteEnd(j))
            /\ WF_vars(Startup)
            /\ WF_vars(Tick)

FairSpec == Spec /\ Fairness
-----------------------------------------------------------------------------
TypeOK ==
  /\ row \in [Jobs -> Record]
  /\ requests \in [Tenants \X Keys -> Jobs \cup {None}]
  /\ recent \subseteq Jobs
  /\ manifest \subseteq Jobs
  /\ server \in {"down", "booting", "serving"}
  /\ bootQueue \subseteq Jobs
  /\ handler \in [Jobs -> {"idle", "snapshot", "launch"}]
  /\ pc \in [Jobs -> WorkerSteps]
  /\ copy \in [Jobs -> Record]
  /\ left \in [Jobs -> Nat \cup {-1}]
  /\ tries \in [Jobs -> 0..FinalizeAttempts]
  /\ remote \in [Jobs -> RemoteJob]
  /\ crashes \in 0..MaxCrashes

(* A tenant never has more unfinished jobs than the limit the reservation   *)
(* checks: no later write, of a worker, a handler or the startup scan,      *)
(* brings a finished job back to life.                                      *)
QuotaRespected == \A t \in Tenants : Cardinality(ActiveOf(t)) <= MaxActive

(* "completed" is reported only for a job whose remote run succeeded, whose *)
(* artifacts passed validation and whose manifest is stored.                *)
CompletedIsGated ==
  \A j \in Jobs : row[j].status = "completed" =>
      j \in manifest /\ remote[j].state = "succeeded" /\ remote[j].artifacts = "valid"

(* A job is created at the provider at most once, across restarts, and a    *)
(* recorded remote id belongs to a job that was created.                    *)
SubmittedOnce == \A j \in Jobs : /\ remote[j].creates <= 1
                                 /\ row[j].remote => remote[j].creates = 1

(* Every unfinished job has somebody who will write its next record: the    *)
(* request thread, its worker, or the startup scan that is still to run.    *)
ActiveRowOwned ==
  \A j \in Jobs : IsActive(row[j]) =>
      \/ server = "down"
      \/ server = "booting" /\ j \in bootQueue
      \/ handler[j] # "idle"
      \/ pc[j] # "idle"

(* A worker's local `job` is the stored record: nobody else writes the row  *)
(* of a job in _active, so a put of the whole record loses no update.       *)
WorkerCopyCurrent == \A j \in Jobs : pc[j] # "idle" => copy[j] = row[j]

(* Every job was reserved by exactly one (tenant, key) and that tenant owns *)
(* it: a retried start request never makes a second job.                    *)
OneJobPerKey ==
  \A j \in Jobs : row[j] # NoRow =>
      \E t \in Tenants, k \in Keys :
         /\ requests[<<t, k>>] = j
         /\ row[j].tenant = t
         /\ \A u \in Tenants, l \in Keys : requests[<<u, l>>] = j => u = t /\ l = k

(* A remote job that still runs has an unfinished record, unless its id was *)
(* never stored or its poller was given only the margin after a restart.    *)
LiveRemoteAccounted ==
  \A j \in Jobs : remote[j].state \in RemoteLive =>
      IsActive(row[j]) \/ row[j].why \in {"submission", "interrupted", "timeout"}

StaysFinal == \A j \in Jobs : row[j].status \in TERMINAL_STATES =>
                 /\ row'[j].status = row[j].status
                 /\ row'[j].remote = row[j].remote
                 /\ row[j].why # "none" => row'[j] = row[j]

(* A finished job is never touched again: its status, reason and remote id  *)
(* stay.  (The worker of a remote failure still adds the reason.)           *)
TerminalIsFinal == [][StaysFinal]_vars

(* While the remote job of a recorded id executes, the tenant sees a        *)
(* non-terminal status.                                                     *)
(* Claimed, and not what the code does (README, section 3).                 *)
ExecutingIsNonTerminal ==
  \A j \in Jobs : row[j].remote /\ remote[j].state = "running" =>
      row[j].status \notin TERMINAL_STATES

(* In a process that was not restarted the poller outlasts the remote job:  *)
(* no job is failed as timed out while it executes.                         *)
ExecutingIsNonTerminalUntilRestart == crashes = 0 => ExecutingIsNonTerminal

(* A failed job ends up with a failure phase and an error.                  *)
(* Claimed, and not what the code does (README, section 3).                 *)
FailureIsExplained ==
  \A j \in Jobs : row[j].status = "failed" ~> row[j].why # "none"

(* The tenant's view of these jobs behaves as JobContract says.             *)
Contract == INSTANCE JobContract WITH status <- [j \in Jobs |-> row[j].status],
                                      cached <- manifest

ImplementsContract == Contract!Safety

(* Every accepted job is eventually completed or failed.                    *)
EveryJobFinishes == Contract!Answered
=============================================================================
