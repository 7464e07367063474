---------------------------- MODULE Preparations ----------------------------
(***************************************************************************)
(* Preparation attempts of one tenant's robot setups: the prepare handler   *)
(* and the training gate in main.py, the reservation in store.py, and the   *)
(* worker threads of NebiusBackend in orchestration.py.                     *)
(*                                                                          *)
(* An attempt is made for a fingerprint: the setup (whose robot and contents*)
(* never change) and the runtime version the process was started with.  A   *)
(* deployment may start another version, a former one included.  Attempts   *)
(* are numbered in the order of creation.                                   *)
(*                                                                          *)
(* One step is one durable write or one remote call, as in TrainingJobs.    *)
(* Time is reduced to `late`: the deadline of a poller passes at some point,*)
(* whichever of the two lengths it was given.                               *)
(***************************************************************************)
EXTENDS Integers, FiniteSets, FiniteSetsExt

CONSTANTS
  Setups,            \* the tenant's eligible setups
  Versions,          \* runtime digests and contract versions ever deployed
  None,              \* no setup, no version
  MaxActive,         \* max_active_preparations_per_tenant
  FinalizeAttempts,  \* preparation_finalize_attempts
  MaxAttempts,       \* bound on attempts, for model checking
  MaxCrashes         \* bound on process stops, for model checking

ASSUME IdsAssumption == None \notin Setups \cup Versions

ASSUME LimitsAssumption == /\ MaxActive \in Nat
                           /\ FinalizeAttempts \in Nat
                           /\ MaxAttempts \in Nat
                           /\ MaxCrashes \in Nat

VARIABLES
  row,        \* preparation_attempts: the latest record put for each attempt
  version,    \* the runtime the running process was deployed with
  server,     \* the process: "down", "booting" (startup event), "serving"
  bootQueue,  \* attempts resume_preparations has not handled yet
  handler,    \* where the request thread that reserved the attempt is
  pc,         \* where the worker thread is ("idle": not in _active)
  copy,       \* the worker's local `attempt`
  late,       \* the worker's deadline has passed
  tries,      \* report reads the worker has left
  published,  \* attempts whose three input objects are in object storage
  remote,     \* the provider's job and the report it publishes
  crashes     \* process stops so far

process == <<version, server, bootQueue, handler>>
thread  == <<pc, copy, late, tries>>
vars    == <<row, process, thread, published, remote, crashes>>
-----------------------------------------------------------------------------
Ids == 1..MaxAttempts

ActiveStates == {"queued", "preparing"}
FinalStates  == {"accepted", "failed"}

Attempt == [setup   : Setups \cup {None},
            version : Versions \cup {None},     \* with setup: the fingerprint
            state   : {"none"} \cup ActiveStates \cup FinalStates,
            remote  : BOOLEAN,                  \* nebius_job_id is set
            ready   : BOOLEAN]                  \* report_ready

NoAttempt == [setup |-> None, version |-> None, state |-> "none",
              remote |-> FALSE, ready |-> FALSE]

Queued(s) == [setup |-> s, version |-> version, state |-> "queued",
              remote |-> FALSE, ready |-> FALSE]

Failed(attempt) == [attempt EXCEPT !.state = "failed"]

PreparingAsStarting(attempt) == [attempt EXCEPT !.state = "starting"]  \* mutant
Preparing(attempt) == [attempt EXCEPT !.state = "preparing"]

IsActive(a) == row[a].state \in ActiveStates

(* The attempts of a setup for the fingerprint the running version gives it. *)
Matching(s) == {a \in Ids : row[a].setup = s /\ row[a].version = version}

(* latest_preparation: the newest attempt of the setup, of any fingerprint.  *)
Latest(s) == {a \in Ids : /\ row[a].setup = s
                          /\ \A b \in Ids : row[b].setup = s => b <= a}

ReusableWhileActive(s) == {a \in Matching(s) : IsActive(a)}          \* mutant
Reusable(s) ==
  {a \in Matching(s) : row[a].state \in ActiveStates \cup {"accepted"}}

WithinQuota == Cardinality({a \in Ids : IsActive(a)}) <= MaxActive     \* mutant
UnderQuota == Cardinality({a \in Ids : IsActive(a)}) < MaxActive

list_active_preparations == {a \in Ids : IsActive(a)}

(* accepted_preparation, and the gate of start_robot_setup_training.        *)
Accepted(s) == {a \in Matching(s) : row[a].state = "accepted"}

MayStart(s) == Accepted(s) # {} /\ row[Max(Accepted(s))].ready

(* project_setup_readiness looks at the latest attempt, and only if its     *)
(* fingerprint is the current one.                                          *)
CurrentWithoutMatch(s) == Latest(s)                                   \* mutant
Current(s) == Latest(s) \cap Matching(s)

Readiness(s) == CASE \E a \in Current(s) : IsActive(a) -> "preparing"
                  [] \E a \in Current(s) : row[a].state = "accepted" -> "ready"
                  [] \E a \in Current(s) : row[a].state = "failed" -> "preparation_failed"
                  [] OTHER -> "not_prepared"

RemoteJob == [state  : {"absent", "live", "succeeded", "failed"},
              report : {"none", "accepted", "failed", "foreign"}]

NoRemote == [state |-> "absent", report |-> "none"]
-----------------------------------------------------------------------------
Init == /\ row = [a \in Ids |-> NoAttempt]
        /\ version \in Versions
        /\ server = "serving"
        /\ bootQueue = {}
        /\ handler = [a \in Ids |-> "idle"]
        /\ pc = [a \in Ids |-> "idle"]
        /\ copy = [a \in Ids |-> NoAttempt]
        /\ late = [a \in Ids |-> FALSE]
        /\ tries = [a \in Ids |-> 0]
        /\ published = {}
        /\ remote = [a \in Ids |-> NoRemote]
        /\ crashes = 0

Put(a, attempt) == row' = [row EXCEPT ![a] = attempt]

Go(a, step, attempt) == /\ pc' = [pc EXCEPT ![a] = step]
                        /\ copy' = [copy EXCEPT ![a] = attempt]

(* The worker returns: guarded() discards the attempt from _active.         *)
Return(a) == /\ Go(a, "idle", NoAttempt)
             /\ late' = [late EXCEPT ![a] = FALSE]
             /\ tries' = [tries EXCEPT ![a] = 0]

(* _fail_preparation, as the worker's last write.                           *)
FailAndReturn(a) == Put(a, Failed(copy[a])) /\ Return(a)

WorkerOnly == UNCHANGED <<process, published, crashes>>
-----------------------------------------------------------------------------
(* The prepare handler: reserve_preparation inserts only if no usable       *)
(* attempt exists, and after a failure only if the request asks for a retry.*)
Reserve(s, retry, a) ==
  /\ server = "serving"
  /\ row[a] = NoAttempt
  /\ \A b \in Ids : b < a => row[b] # NoAttempt
  /\ Reusable(s) = {}
  /\ Matching(s) # {} => retry
  /\ UnderQuota
  /\ Put(a, Queued(s))
  /\ handler' = [handler EXCEPT ![a] = "publish"]
  /\ UNCHANGED <<version, server, bootQueue, thread, published, remote, crashes>>

(* The put of the input keys, then publish_preparation_inputs: a failure    *)
(* takes back what was uploaded and fails the attempt.                      *)
PublishInputs(a) ==
  /\ handler[a] = "publish"
  /\ \/ /\ published' = published \cup {a}
        /\ handler' = [handler EXCEPT ![a] = "launch"]
        /\ UNCHANGED row
     \/ /\ Put(a, Failed(row[a]))
        /\ handler' = [handler EXCEPT ![a] = "idle"]
        /\ UNCHANGED published
  /\ UNCHANGED <<version, server, bootQueue, thread, remote, crashes>>

(* launch_preparation -> _start_preparation.                                *)
Launch(a) ==
  /\ handler[a] = "launch"
  /\ handler' = [handler EXCEPT ![a] = "idle"]
  /\ IF pc[a] = "idle" THEN Go(a, "build", row[a]) ELSE UNCHANGED <<pc, copy>>
  /\ UNCHANGED <<row, version, server, bootQueue, late, tries, published,
                 remote, crashes>>
-----------------------------------------------------------------------------
(* _run_preparation up to the answer of create_job: refused, created, or    *)
(* created with the answer lost.                                            *)
Submit(a) ==
  /\ pc[a] = "build"
  /\ \/ FailAndReturn(a) /\ UNCHANGED remote
     \/ /\ \E step \in {"record", "refused"} : Go(a, step, copy[a])
        /\ remote' = [remote EXCEPT ![a].state = "live"]
        /\ UNCHANGED <<row, late, tries>>
  /\ WorkerOnly

SubmissionRefused(a) == /\ pc[a] = "refused"
                        /\ FailAndReturn(a)
                        /\ UNCHANGED remote
                        /\ WorkerOnly

RecordRemoteId(a) ==
  /\ pc[a] = "record"
  /\ LET attempt == Preparing([copy[a] EXCEPT !.remote = TRUE])
     IN Put(a, attempt) /\ Go(a, "poll", attempt)
  /\ UNCHANGED <<late, tries, remote>>
  /\ WorkerOnly

(* _poll_preparation: unlike _poll, every sight of a live job is put again. *)
Poll(a) ==
  /\ pc[a] = "poll"
  /\ IF late[a]
       THEN FailAndReturn(a)
       ELSE \/ Go(a, "poll", copy[a]) /\ UNCHANGED <<row, late, tries>>
            \/ remote[a].state = "failed" /\ FailAndReturn(a)
            \/ /\ remote[a].state = "succeeded"
               /\ Go(a, "finalize", copy[a])
               /\ tries' = [tries EXCEPT ![a] = FinalizeAttempts]
               /\ UNCHANGED <<row, late>>
            \/ /\ remote[a].state = "live"
               /\ Put(a, Preparing(copy[a]))
               /\ Go(a, "poll", Preparing(copy[a]))
               /\ UNCHANGED <<late, tries>>
  /\ UNCHANGED remote
  /\ WorkerOnly

(* Mutant: the report's fingerprint is not compared.                        *)
VerdictByStatus(a) ==
  [copy[a] EXCEPT !.ready = TRUE,
                  !.state = IF remote[a].report \in {"accepted", "foreign"}
                              THEN "accepted" ELSE "failed"]

(* What a readable report makes of the attempt; "foreign" is a report whose *)
(* fingerprint is not the attempt's.                                        *)
Verdict(a) ==
  IF remote[a].report = "foreign"
    THEN Failed(copy[a])
    ELSE [copy[a] EXCEPT !.ready = TRUE, !.state = remote[a].report]

(* One turn of _finalize_preparation's loop.                                *)
FinalizeAttempt(a) ==
  /\ pc[a] = "finalize"
  /\ \/ tries[a] = 0 /\ FailAndReturn(a)
     \/ /\ tries[a] > 0
        /\ tries' = [tries EXCEPT ![a] = @ - 1]
        /\ UNCHANGED <<row, pc, copy, late>>
     \/ /\ tries[a] > 0
        /\ remote[a].report # "none"
        /\ Put(a, Verdict(a))
        /\ Return(a)
  /\ UNCHANGED remote
  /\ WorkerOnly

Worker(a) == \/ Submit(a) \/ SubmissionRefused(a) \/ RecordRemoteId(a)
             \/ Poll(a) \/ FinalizeAttempt(a)

DeadlinePasses(a) == /\ pc[a] = "poll" /\ ~late[a]
                     /\ late' = [late EXCEPT ![a] = TRUE]
                     /\ UNCHANGED <<row, process, pc, copy, tries, published,
                                    remote, crashes>>
-----------------------------------------------------------------------------
Crash == /\ server # "down"
         /\ crashes < MaxCrashes
         /\ crashes' = crashes + 1
         /\ server' = "down"
         /\ bootQueue' = {}
         /\ handler' = [a \in Ids |-> "idle"]
         /\ pc' = [a \in Ids |-> "idle"]
         /\ copy' = [a \in Ids |-> NoAttempt]
         /\ late' = [a \in Ids |-> FALSE]
         /\ tries' = [a \in Ids |-> 0]
         /\ UNCHANGED <<row, version, published, remote>>

(* The startup event; the new process reads its own runtime image setting.  *)
Restart == /\ server = "down"
           /\ server' = "booting"
           /\ version' \in Versions
           /\ bootQueue' = list_active_preparations
           /\ UNCHANGED <<row, handler, thread, published, remote, crashes>>

(* Mutant: an attempt without a remote id is left as it is.                 *)
ResumeByIgnoring(a) == UNCHANGED row
ResumeUnsubmitted(a) == Put(a, Failed(row[a]))

ResumeAttempt(a) ==
  /\ server = "booting"
  /\ a \in bootQueue
  /\ bootQueue' = bootQueue \ {a}
  /\ IF row[a].remote
       THEN Go(a, "poll", row[a]) /\ UNCHANGED row
       ELSE ResumeUnsubmitted(a) /\ UNCHANGED <<pc, copy>>
  /\ UNCHANGED <<version, server, handler, late, tries, published, remote,
                 crashes>>

Booted == /\ server = "booting"
          /\ bootQueue = {}
          /\ server' = "serving"
          /\ UNCHANGED <<row, version, bootQueue, handler, thread, published,
                         remote, crashes>>

Startup == Restart \/ Booted \/ \E a \in Ids : ResumeAttempt(a)
-----------------------------------------------------------------------------
(* The provider runs the `prepare` command, which publishes a report of its *)
(* own making before it ends, or never does.                                *)
RemoteRuns(a) ==
  /\ remote[a].state = "live"
  /\ \/ /\ remote[a].report = "none"
        /\ \E r \in {"accepted", "failed", "foreign"} :
              remote' = [remote EXCEPT ![a].report = r]
     \/ \E s \in {"succeeded", "failed"} : remote' = [remote EXCEPT ![a].state = s]
  /\ UNCHANGED <<row, process, thread, published, crashes>>
-----------------------------------------------------------------------------
Handler(a) == PublishInputs(a) \/ Launch(a)

Next == \/ \E s \in Setups, retry \in BOOLEAN, a \in Ids : Reserve(s, retry, a)
        \/ \E a \in Ids : \/ Handler(a) \/ Worker(a) \/ DeadlinePasses(a)
                          \/ RemoteRuns(a)
        \/ Crash \/ Startup

Spec == Init /\ [][Next]_vars

(* Threads are scheduled, a stopped container restarts, and clocks run.     *)
(* Nothing is assumed of the provider.                                      *)
Fairness == /\ \A a \in Ids : /\ WF_vars(Handler(a))
                              /\ WF_vars(Worker(a))
                              /\ WF_vars(DeadlinePasses(a))
            /\ WF_vars(Startup)

FairSpec == Spec /\ Fairness
-----------------------------------------------------------------------------
TypeOK ==
  /\ row \in [Ids -> Attempt]
  /\ version \in Versions
  /\ server \in {"down", "booting", "serving"}
  /\ bootQueue \subseteq Ids
  /\ handler \in [Ids -> {"idle", "publish", "launch"}]
  /\ pc \in [Ids -> {"idle", "build", "record", "refused", "poll", "finalize"}]
  /\ copy \in [Ids -> Attempt]
  /\ late \in [Ids -> BOOLEAN]
  /\ tries \in [Ids -> 0..FinalizeAttempts]
  /\ published \subseteq Ids
  /\ remote \in [Ids -> RemoteJob]
  /\ crashes \in 0..MaxCrashes

(* For each fingerprint at most one attempt is unfinished or accepted: a    *)
(* repeated or retried request reuses it, and no attempt comes back to life *)
(* beside the one that replaced it, also when versions alternate.           *)
OneUsablePerFingerprint ==
  \A a, b \in Ids :
     /\ row[a].setup = row[b].setup
     /\ row[a].version = row[b].version
     /\ row[a].state \in ActiveStates \cup {"accepted"}
     /\ row[b].state \in ActiveStates \cup {"accepted"}
     => a = b

(* No remote job is ever made for an attempt whose inputs are not all in    *)
(* object storage; and an accepted attempt had such a job, which succeeded, *)
(* and whose report is an acceptance of the attempt's own fingerprint.      *)
EvidenceIsGenuine ==
  \A a \in Ids :
     /\ remote[a].state # "absent" => a \in published
     /\ row[a].state = "accepted" =>
          /\ remote[a] = [state |-> "succeeded", report |-> "accepted"]
          /\ row[a].ready

(* A setup shown as ready can be started: the projection never enables what *)
(* the start handler refuses, even after an upgrade or a rollback.          *)
ReadyCanStart == \A s \in Setups : Readiness(s) = "ready" => MayStart(s)

(* While requests are served, a setup whose current fingerprint has an      *)
(* accepted preparation, so that a start would be taken, is shown as ready. *)
(* Claimed, and not what the code does (README, section 3).                 *)
StartableIsReady ==
  server = "serving" =>
     \A s \in Setups : MayStart(s) => Readiness(s) = "ready"

(* Every attempt is eventually accepted or failed.                          *)
EveryAttemptFinishes == \A a \in Ids : IsActive(a) ~> ~IsActive(a)

(* What a tenant sees of a fingerprint, whichever attempts are behind it.   *)
Fingerprints == Setups \X Versions
Attempts(f) == {a \in Ids : row[a].setup = f[1] /\ row[a].version = f[2]}
Outcome(states) == CASE states \cap ActiveStates # {} -> "preparing"
                     [] states \cap ActiveStates = {} /\ "accepted" \in states
                          -> "accepted"
                     [] states = {"failed"} -> "failed"
                     [] states = {} -> "none"
Seen == [f \in Fingerprints |-> Outcome({row[a].state : a \in Attempts(f)})]

(* The preparations of a tenant behave as PreparationContract says: an      *)
(* acceptance is final for its fingerprint however requests, retries, stops *)
(* and deployments interleave, a setup is prepared again only after a       *)
(* failure, and the tenant's limit is never exceeded.                       *)
Contract == INSTANCE PreparationContract WITH status <- Seen
ImplementsContract == Contract!Safety
=============================================================================
