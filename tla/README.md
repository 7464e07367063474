# Formal models of Sim2Policy

TLA+ specifications of the parts of this repository whose correctness depends
on the order of events: the SaaS backend that signs tenants in, keeps their
robots, and starts, follows and finishes remote jobs; the containers those jobs
run; the object store between them; the controller that spends GPU hours on the
public showcase; and the showcase itself. TLC checks them on small instances;
TLAPS proves theorems about eight of the models for every size.

Paths below are relative to the repository root. `app/` stands for
`saas/backend/app/` and `sim2policy/` for `sim2policy/src/sim2policy/`.

## 1. The system

| Component | State it keeps | Operations | Modelled by |
|---|---|---|---|
| Training-job orchestration (`app/orchestration.py`, start handler of `app/main.py`) | `jobs`, `custom_training_requests`, `artifacts` tables; `_active`; worker threads with a local `job` and a deadline | start, launch, submit, poll, finalize, resume | `TrainingJobs`, `JobContract` |
| Preparation orchestration (`app/orchestration.py`, `app/custom_training.py`, `app/main.py`) | `preparation_attempts`; worker threads; input objects | prepare, publish, launch, poll, accept, resume, project readiness, gate a start | `Preparations`, `PreparationContract` |
| Persistence (`app/store.py`, `app/db.py`) | SQLite tables, one lock per store | the transactions of every store | the durable variables of the modules that use each store |
| HTTP API (`app/main.py`, `app/models.py`) | none | endpoints | every handler that writes, and the public showcase reads |
| E-mail authentication (`app/auth.py`, `app/email_sender.py`) | codes and request times in memory; users and sessions | request code, verify, log out, expire | `SignIn`, composed in `Accounts` |
| Robots and setups (`RobotStore`, "Bring Your Robot" handlers, `app/robot_validation.py`, `app/environment_catalog.py`) | `robots`, `robot_setups` | upload, create, delete, prepare | `RobotUploads`, `Inventory`, composed in `Accounts` |
| Artifact and custom storage (`app/artifacts.py`, `app/custom_storage.py`) | objects in S3 | publish inputs, clean up, read report and manifest | `RobotInputs`, `RobotJob` |
| Nebius client (`app/nebius_client.py`) | none | create, get, cancel job | not modelled: its outcomes are the remote actions |
| Showcase, curation, catalog, analytics (`app/showcase.py`, `app/curation.py`, `app/catalog.py`, `app/analytics.py`) | pins, negative cache, cached manifests; visit rows and daily totals | list examples, serve, withhold; record, roll up, prune | `Showcase`, `SiteVisits` |
| Campaign controller (`sim2policy/showcase_campaign.py`, `campaign_state.py`, `campaign_provider.py`) | `state.json`, lock file, journal | plan, submit, watch, verify, select, extend, accept, cleanup, recover-lock | `Campaign` |
| Campaign evidence and infrastructure (`campaign_verify.py`, `campaign_infra.py`, `showcase_matrix.py`) | evidence files | verify evidence, VM handling | the predicate "evidence is complete" |
| Run state, storage, checkpoints (`runstate.py`, `storage.py`, `checkpoint.py`) | run prefix in S3, local run tree | publish checkpoint, resume latest or by name, sync, retain, declare | `CheckpointFiles`, `RunLifecycle`; immutable objects in `Curriculum` |
| Trainers (`train_sb3.py`, `train_mjx.py`, `hosted_*.py`) | model in memory, run tree | begin, learn, publish, report | the protocol around training: `RunLifecycle`, `Episodes` |
| Finalization and reporting (`finalize.py`, `evaluate.py`, `reporting.py`, ...) | run tree, artifacts, status | download, select, render, evaluate, package, upload, declare | `RunLifecycle`, `Episodes` |
| G1 curriculum (`hosted_g1_curriculum.py`, `g1_curriculum.py`, `g1_transition.py`, `hosted_g1_recovery.py`) | immutable evidence, three run prefixes | flat phase, gate, transition, rough phase, final, recover, sweep, pilot | `Curriculum` |
| Checkpoint selection (`checkpoint_selection.py`) | none | rank, select, accept | `Episodes` |
| Custom-robot job (`custom_robot_job.py`, `custom_robot_env.py`, `custom_robot_contract.py`, `custom_robot_io.py`) | prefix in S3, process memory | prepare in five phases, train, publish | `RobotInputs`, `RobotEpisode`, `RobotJob` |
| Training demo API (`sim2policy/api/`) | request objects, run status | request, submit, confirm | the `Api*` actions of `RunLifecycle` |
| Web frontend; validation suite, Terraform, CI | - | - | not modelled |

How they interact. A request thread reserves a job or an attempt in one SQLite
transaction, publishes its inputs to object storage and starts a worker thread.
The worker creates a remote job, stores its id, polls the provider, and at the
end reads what the job left in object storage. Nothing but the tables survives
a process stop: on startup `resume` and `resume_preparations` turn unfinished
rows back into workers. A container starts with an empty disk, reads its inputs
or its checkpoints from object storage, and leaves nothing but objects behind.
The campaign controller is a separate program: each CLI command locks a state
file, changes it, and talks to the same provider; `watch` runs beside the
others. The showcase reads what finalizations wrote, through pins that a
deployment sets.

What is hard to test: a stop between any two writes; a remote call that
succeeds while its answer is lost; two threads that each replace a whole
record; a deadline that runs against a remote timeout and a late artifact; a
projection that looks at one row while a gate looks at another; a run that is
launched again over what an earlier container half wrote; a value that was
checked under one deployment and used under another; a long series of operator
commands. `PROJECT.json` lists these hazards by line and names the property
that watches each one.

## 2. The modules

A module stands alone unless it says otherwise. `CheckpointFiles` is extended
by `RunLifecycle`, `Episodes` by `Curriculum`, `RobotInputs` and `RobotEpisode`
by `RobotJob`, `RobotUploads` by `Inventory`. `Accounts` composes `SignIn` and
`Inventory`: a step of the inventory needs a live session of its tenant, and a
restart stops the threads of both. `TrainingJobs` implements `JobContract`,
`Preparations` implements `PreparationContract`.

**`TrainingJobs`** models a training job from the start request to its terminal
status. Variables: `row` (the stored record: status, tenant, whether a remote
id is known, failure reason), `requests` and `recent` (idempotency and the
daily quota), `manifest`, the process (`server`, `bootQueue`), the request
threads (`handler`), the workers (`pc`, `copy`, `left`, `tries`), and the
provider (`remote`). One step is one durable write or one remote call.

| Action | Code |
|---|---|
| `Reserve` | `CustomTrainingStore.reserve_training_job` |
| `SnapshotInputs`, `Launch` | rest of `start_robot_setup_training`, `NebiusBackend._start` |
| `Submit`, `SubmissionRefused`, `RecordRemoteId` | `NebiusBackend._run` |
| `CheckDeadline`, `ReadState`, `ExplainFailure` | `NebiusBackend._poll` |
| `FinalizeAttempt`, `Seal` | `NebiusBackend._complete` |
| `Restart`, `ResumeJob`, `Booted` | `resume_jobs`, `NebiusBackend.resume` |
| `Crash`, `RemoteProgress`, `RemoteEnd`, `Tick`, `AgeOut` | environment |

The two puts of a remote failure (`ReadState`, then `ExplainFailure`), and the
manifest write before the final put (`FinalizeAttempt`, then `Seal`), are
separate steps, because the process may stop between them. Time is counted in
ticks; a poller's deadline and the remote job's own timeout count down
together, and the assumption `RemoteLife <= Timeout + Margin` is what the
margin is for.

**`JobContract`** is what a tenant can rely on without knowing any of that: the
status moves forward along queued, starting, training, finalizing; completed is
reached from finalizing with the manifest stored; terminal is terminal; every
job gets there. `TrainingJobs` implements it under `status <- row[j].status`,
`cached <- manifest` (`ImplementsContract`, `EveryJobFinishes`).

**`Preparations`** models the preparation attempts of one tenant. An attempt
belongs to a fingerprint, that is, a setup and a runtime version, and a restart
may deploy another version, including an earlier one. Besides the attempt's life
(`Reserve`, `PublishInputs`, `Launch`, `Submit`, `RecordRemoteId`, `Poll`,
`FinalizeAttempt`, `ResumeAttempt`) it models the two readers that must agree:
`Readiness` (`project_setup_readiness`) and `MayStart` (the gate of the start
handler). Time is one bit per worker, `late`.

**`PreparationContract`** is the same life without attempts: a fingerprint is
prepared once at a time and within the tenant's limit, an acceptance is for
good, and only after a failure is it prepared anew. `Preparations` implements it
under `status <- Seen`, where `Seen` is what all attempts of a fingerprint amount
to: "preparing" while one is under way, else "accepted" if one is, else "failed"
if there is any (`ImplementsContract`).

**`Campaign`** models the attempts of one showcase example. A command that
holds the lock from read to write is one step; `submit` is four, since it saves
around its provider call; `watch` is a process of its own with a copy of the
attempt that it saves after its poll. `TRANSITIONS` is the code's table, and
every `Save` is guarded by it. A dying command leaves the lock stale. What
`build_plan` reads is abstracted to the selected parent and one value `image`
(image evidence, subnet, secret versions), so that a plan digest can go out of
date. `runs` remembers from which plan each job was created.

**`CheckpointFiles`, `RunLifecycle`** model one hosted run under one run id. An
operator launches containers one after the other (`Train`, `Finalize`); each
has a local tree of checkpoints with their digests and an object store it
shares with the others.

| Action | Code |
|---|---|
| `ResumeLatest`, `ResumeNamed`, `ResumeUnavailable` | `storage.resume_latest`, a named parent, and their refusals |
| `NotAttested`, `Begin` | `require_nebius_execution`, `begin_run` |
| `LoadFreshSB3`, `LoadResumedSB3`, `LoadMJX`, `Learn`, `Interrupt`, `Playground` | `train_sb3.py`, `train_mjx.py` around their training loops |
| `Publish`, `PublishStops` | `publish_checkpoint`, whole or after any of its writes |
| `Report`, `SyncTrained`, `SyncTrainedStops`, `Trained`, `TrainingFails` | end of a training: report, `sync_tree`, status |
| `Download`, `Select`, `Render`, `Evaluate`, `Package`, `UploadFinal`, `Declare`, `Complete` | the stages of `finalize.py` |
| `EvaluateStops`, `UploadFinalStops`, `FinalizationFails`, `FinalizationTimeout`, `Killed` | failures in and between them |
| `ApiRequest`, `ApiAnnounce`, `ApiSubmit`, `ApiConfirm`, `ApiDies` | `api/orchestration.py`, which writes the same status object |

Steps of training are counted in checkpoint intervals and a digest is the
identity of bytes: which checkpoint, made by which container.

`Package` builds the policy bundle and writes the resolved configuration only
when a gallery example is given (`sim2policy/finalize.py:221`): `hosted_sb3.py`
requires one, `finalize` and `hosted_mjx.py` leave it open, so there the step may
go either way. A run finalized without one completes with no bundle declared.
The `bundle` directory is never downloaded, so an earlier finalization's bundle
may stay in the store but is not in the manifest. The `report` directory is
(`sim2policy/finalize.py:89`), so an earlier `resolved-config.json` is in the
run tree and is declared again.

**`Episodes`** holds the operators between a policy's rollouts and a verdict:
episodes and their termination reasons, aggregates, rank keys, selection,
acceptance and the G1 gates. **`Curriculum`** models the hosted G1 jobs over
them: `Launch` in one of four modes (full, recover, sweep, pilot), the phases
`TrainFlat`, `FlatGateStep`, `StopAtGate`, `BindTransition`, `TrainRough`,
`RankRough`, `EvaluateFinal`, `PublishInput`, `Finalize`, their recovery
(`Download`), the diagnostic `Sweep` and the pilot (`AuthorizePilot`,
`BindPilot`, `TrainPilot`, `GatePilot`), with `Exception` and `Killed` between
any two. `evidence` holds the objects of `put_immutable_json`: creating one
fails when other bytes are there, and may succeed without its answer arriving.
`passed` and `touched` remember which checkpoints passed the gate and which
were run on the reserved seeds.

**`RobotInputs`, `RobotEpisode`, `RobotJob`** follow one custom robot from
Prepare to a finished training. `RobotInputs` says what the three input
documents contain and what the container checks of them; `RobotEpisode` is the
environment of `custom_robot_env.py` over a trace of simulator samples:
termination, success, the evaluation over seeds, the rank of an evaluation.
`RobotJob` composes backend, bucket and container:

| Action | Code |
|---|---|
| `Deploy` | another backend release or image |
| `Prepare`, `StartTraining`, `PutInput`, `PutInputFails`, `Submit` | handlers of `main.py`, `custom_storage.py` |
| `PollFailed`, `PollDeadline`, `FinalizePreparation`, `FinalizeTraining` | outcomes read by `orchestration.py` |
| `Load` | download and `validate_documents` |
| `PassPhase`, `RefusePhase`, `PutProbe`, `PutReport` | `run_preparation`, phase by phase |
| `PutTraining`, `LearnStep`, `PutCheckpoint`, `Evaluate`, `PutProgress`, `LearnReturns` | `run_training` and `DurableProgressCallback` |
| `PutArtifact`, `PutCompleted`, `PutManifest` | the puts at the end of `run_training` |
| `Dies` | the container ends anywhere; any put may also fail after it took effect |

The row of an attempt is reduced to its state, its phase and its fingerprint;
where the code's phase "execution" has several reasons, `phase` names the
reason ("deadline").

**`SignIn`** models passwordless sign-in, one store call per step, since
handlers run in a thread pool and `AuthStore` locks one call at a time. A
request thread goes through `allow_code_request`, `set_code`, `Sent` or
`SendFails`; or through `get_code`, `bump_attempts`, then `Forget` or
`UseCode`, `ensure_user`, `put_session`. `compared` counts, per code issued,
how often it was compared with a submitted one. **`RobotUploads`** translates
`validate_mjcf` and `normalize_setup` over the facts of a document.
**`Inventory`** keeps robots, setups and preparations: rows are marked and
never removed, and a handler makes several transactions (`ReadRobot`,
`create_setup`; `ReadSetup`, `get_robot_content`, `Reserve`) between which
another request may delete what it read. **`Accounts`** composes the two.

**`SiteVisits`** models visit recording (`RecordFirst`, `RecordAgain`) and the
prune (`Wake`, `CompletedDays`, `RollUp`, `DeleteViews`, `DeleteVisits`), each
statement its own commit, with `Restart` between any two. `seen` remembers the
true totals of each day.

**`Showcase`** models the public showcase. `_gate` is `curate`,
`normalize_success` and `_artifacts_complete` over the facts of a manifest.
`checkable` says whether the criterion has the form "metric >= number" with a
metric of the aggregate: only then does the gate compare the recorded verdict
with the numbers (`app/curation.py:206`). The locomotion criterion
(`sim2policy/evaluate.py:108`) does not have it, so for Go1 and G1 the gate
takes the recorded verdict, and the instance holds a manifest whose verdict
its numbers contradict for either case. A
request asks for an example (`Ask`), looks at the artifacts table
(`get_artifacts`), reads the bucket (`ReadManifest`, `ReadFails`) and withholds the entry
(`Withhold`) or serves it (`ServeCached`, and `Keep`, which also fills the table);
finalizations replace manifests (`Publish`) and deployments replace pins
(`Deploy`) meanwhile. `shown` remembers the last entry served.

The `MC` modules give the constants their values, the `Proofs` modules hold the
theorems.

Data abstractions worth knowing: failure messages are the place that sets them;
phases of a preparation other than its state are dropped in `Preparations`; in
`Campaign`, `reason_code` is reduced to "the watchdog stopped it",
`cleanup_state` to whether it is PASS, and a completed and a failed job are both
"ended", because `verify` accepts complete evidence of either; `acceptance`
records only the ACCEPTED outcome; ranking is a total order `Score`. In
`RunLifecycle` retries inside a storage operation are its outcome. In
`RobotJob` a model is named by the number of updates it has had and the
observation statistics by the step. Digests are taken to be injective
everywhere.

## 3. What TLC checks

| Run | Instance | Shows |
|---|---|---|
| `jobs_restart` | 2 jobs, 1 tenant, 2 keys, quota 1, 1 stop | All safety properties of training jobs, the contract, and that every job finishes, with the process stopping anywhere; until it stops, no tenant sees a terminal status while its job runs. |
| `preparations` | 2 setups, 2 versions, 2 attempts, 2 stops | One usable attempt per fingerprint, inputs before submission, acceptance is genuine, ready implies startable, the contract, and that every attempt finishes. |
| `campaign` | 2 base seeds, 1 extension, 1 watcher, 2 plan inputs, 1 upset | One active attempt, nothing verified without proof, an extension only of a proven winner although plans go out of date, no recorded job lost. |
| `run_lifecycle` | both trainers, budget 2, keep 1, parent step 1, 3 containers | A completed run is whole, whatever it declares; its final video, evaluation, policy and declared bundle are of one checkpoint; an SB3 run always has a restorable latest checkpoint that never goes back. |
| `run_latest_restorable` | the same | *Violation*: a resumed MJX run may leave a `latest.json` that names other bytes. |
| `curriculum` | horizon 2, flat 2 of 4 steps, rough 2, pilot 1, 2 episodes of which 1 required, 2 digests, 3 containers | The reserved seeds are spent on one checkpoint; a final result and a pilot are what the immutable evidence names. |
| `curriculum_final_tolerance` | 3 episodes of which 2 required, 1 container | *Violation*: a tolerated fall backwards fails the final acceptance. |
| `robot_job` | 1 robot and setup, 2 releases, 2 images, 3 deployments, 1 redeployment, 6 training steps in rollouts of 4, cadence 2, 3 motions | What is accepted, trained, listed and published is what the gates, the preparation and the evaluations say. |
| `robot_job_rejection` | the same | *Violation*: a refused preparation is reported as a failed execution. |
| `accounts` | 2 addresses, 2 request threads, 1 inventory client, 2 codes, 1 token, 2 robot and 1 setup ids, quotas 1, 1 attempt, 2 issues | Guesses at a code are bounded; tables refer to whole rows of one tenant. |
| `site_visits_totals` | 2 visits, 1 visitor, days of 2 ticks, retention 1 day, 4 ticks | *Violation*: the totals of a day shrink while its rows leave. |
| `showcase` | 2 examples, 2 runs of which one a reviewed recording, 2 threads, 1 redeployment, 2 publications, patience 1 | What is served is evidenced, whatever is cached or repinned; a good run is served again and again (`Served` counts every request, not the first alone). |

Bounds and why they are enough:

- Two jobs with quota 1 make a second reservation wait for the first, and two
  keys separate a retry from a new request. Everything else about a job is
  independent of other jobs, which the proofs make precise: the inductive
  invariant is a conjunction over jobs.
- One stop suffices for the jobs because after the startup scan a record is in
  no state that it could not be in without a stop; the theorems hold for any
  number. Two stops are needed for preparations: one deploys the second
  version, one rolls back.
- `FinalizeAttempts = 2` (jobs) distinguishes a failed first read from an
  exhausted loop. `Timeout = 1, Margin = 1, RemoteLife = 2` are the smallest
  times for which the deadline and the end of the remote job may fall on the
  same tick and the margin matters.
- Three campaign keys contain two seeds that compete for the slot and an
  extension that depends on the selection. One upset is either a command that
  dies with the lock or a change of what plans are made from; the two values of
  `image` are interchangeable, hence the symmetry. The theorems hold for any
  number of keys, watchers and upsets.
- Three containers of a run are a first one, one that resumes or finalizes what
  it left, and one that does so again. A budget of two intervals with `Keep = 1`
  makes retention delete a checkpoint, and separates the last step from a
  selected earlier one. Three containers of the curriculum are the job, its
  recovery, and a recovery of the recovery.
- In `robot_job` a total of 6 steps in rollouts of 4 makes the last rollout
  overshoot, and a cadence of 2 makes checkpoints and evaluations due inside a
  rollout, at its end, and both at once. The three motions are a success, a
  failure with a higher reward, and a fall, so rank and reward disagree.
- In `accounts` two addresses and two threads make requests of one and of two
  addresses race; two issues make one code replace another; one attempt makes
  the limit bite at once. One inventory client suffices because a client only
  depends on rows, and deletions come from other requests of the tenant. What
  is a bound here is a parameter of the theorems.
- `MaxAttempts`, `MaxCrashes`, `MaxUpsets`, `MaxLaunches`, `MaxDeploys`,
  `MaxPublished`, `MaxIssues`, `MaxPreparations`, `MaxNow`, `MaxDaily` and the
  tick constants are the only bounds on counters. `preparations`,
  `run_lifecycle`, `curriculum` and `robot_job` run without deadlock checking:
  they may stop when all their attempts, containers or identities are used.

Fairness. Handlers and workers are threads that the operating system schedules
(weak fairness of each). A stopped container is restarted by its Kubernetes
deployment (`deploy/manifests/saas/deployment.yaml`, one replica with strategy
`Recreate`), hence weak fairness of `Startup`. The clock runs (`Tick`,
`DeadlinePasses`). For jobs, the provider enforces its timeout (`RemoteEnd`),
which bounds `Tick`. No fairness is assumed of provider reads or object
storage: `get_job_state` may fail for ever, and a job then ends by its deadline.
`Showcase` assumes, besides threads and clock, that visitors keep asking for
every example (`Ask`, strong, because an example is not askable while every
thread is busy or its pin is contested) and that a run which is read again and
again is read once (`ReadManifest`, strong): a run that is never asked for, or
never readable, does stay hidden. The other modules have no fairness and no
liveness property: their next step is a decision of an operator or a tenant.

### Disagreements found

Each is a run whose property is what the documentation says.

1. `run_latest_restorable`. Every MJX launch saves a new initial policy under
   the name `initial-000000000` and publishes it, also when it resumes
   (`sim2policy/train_mjx.py:802`). An upload that stops after the object leaves
   a `latest.json` with the digest of bytes that are gone.
   `openspec/specs/durable-run-artifacts/spec.md:38`: "the latest-checkpoint
   record continues to reference the preceding completed checkpoint". For SB3
   the claim holds except for a rewritten interrupted checkpoint
   (`SB3LatestIsRestorable`).
2. `curriculum_final_tolerance`. The final acceptance takes the minimum speed
   over all episodes, fallen ones included (`sim2policy/reporting.py:26`); the
   flat gate does not. The specification of the gate tolerance
   (`openspec/changes/g1-survival-reward-and-gate-tolerance/specs/showcase-run-curation/spec.md:38`)
   asks it of "every completed episode".
3. `robot_job_rejection`. A refused preparation writes its report and exits
   with 2; the backend sees a failed job, answers "remote-job-failed" and never
   reads the report (`app/orchestration.py:504`).
   `openspec/specs/custom-robot-training-preparation/spec.md:92`: "preparation
   fails in the appropriate simulation phase".
4. `site_visits_totals`. The prune cuts by age and not by day
   (`app/analytics.py:83`), so a day is rolled up again from part of its rows.
   `openspec/specs/site-visit-analytics/spec.md:116`: "that day's visit,
   page-view, unique-visitor, and bot totals remain readable".

Ten more statements that a reader of the code or of its documents might
expect are kept in the modules as definitions, marked there, and are in no run
because the code does not keep them. To see a counterexample, name the definition
as the only INVARIANT or PROPERTY of the module's configuration.

| Definition | What happens instead |
|---|---|
| `TrainingJobs.ExecutingIsNonTerminal` | After a restart the poller has only the margin, so a job still executing is marked failed ("exceeded its timeout") after 30 minutes (`app/orchestration.py:288`). |
| `TrainingJobs.FailureIsExplained` | A stop between the two puts of a remote failure leaves it without reason and phase (`app/orchestration.py:646`). |
| `Preparations.StartableIsReady` | After upgrade and rollback of the runtime image a setup that the API would start is shown as not prepared (`app/custom_training.py:181`). |
| `Campaign.OneActiveJob` | The single slot does not count attempts whose job's fate is unknown (`sim2policy/showcase_campaign.py:965`). |
| `Campaign.AdoptedMatchesPlan` | A job found by name is adopted without comparing its plan (`sim2policy/showcase_campaign.py:1032`). |
| `Campaign.SingleExtension` | `extend` enforces it and `submit` does not (`sim2policy/showcase_campaign.py:963`); needs the keys of both extensions: `Keys <- MCAllKeys`, `Score <- MCAllScore`, `Watchers <- MCNoWatchers`. |
| `RunLifecycle.FailureIsRecorded` | An exception in a stage of the finalization leaves the run rendering or evaluating (`sim2policy/finalize.py:319`). |
| `RunLifecycle.DeclaredIsOfOneFinalization` | A finalization without a gallery example declares again the resolved configuration of an earlier one, possibly of another checkpoint, which it has downloaded with the report (`sim2policy/finalize.py:89` and `:221`). |
| `RunLifecycle.TerminalStatusStays` | The demo API writes its late status over the one the job has reached (`sim2policy/api/orchestration.py:214`). |
| `SignIn.ComparisonsWithinLimit` | "At most 5 failed attempts per code" (`openspec/specs/saas-email-auth/spec.md:26`) holds of requests that come one by one. When one of them drops the code, or another code replaces it, `bump_attempts` finds nothing, or the other code, to count on, and each request that had already read the old one compares it once more (`app/auth.py:71`). `ComparisonsAreBounded` is the limit that is kept. |

The campaign model also rests on an assumption about the provider that the code
does not state: that it refuses a job name already in use. `submit` looks a name
up only after a failed creation, whereas the comments at
`showcase_campaign.py:899` and in `campaign_provider.py:288` speak of a lookup
before it.

## 4. What is proved

### Training jobs

`TrainingJobsProofs`, for any sets of jobs, tenants and keys (jobs finite), any
limits and times with `RemoteLife <= Timeout + Margin`, and any number of
process stops:

| Theorem | Statement |
|---|---|
| `Typing` | `Spec => []TypeOK` |
| `Invariance` | `Spec => []IInv` |
| `Ownership` | `Spec => []ActiveRowOwned` |
| `SingleWriter` | `Spec => []WorkerCopyCurrent` |
| `CompletionGate` | `Spec => []CompletedIsGated` |
| `OneSubmission` | `Spec => []SubmittedOnce` |
| `Finality` | `Spec => TerminalIsFinal` |
| `Quota` | `Spec => []QuotaRespected` |
| `Refinement` | `Spec => ImplementsContract` |
| `Reservations` | `Spec => []OneJobPerKey` |
| `RemoteAccounted` | `Spec => []LiveRemoteAccounted` |
| `PollerPatience` | `Spec => []ExecutingIsNonTerminalUntilRestart` |

The argument. None of the properties is inductive by itself: that a worker may
overwrite a record depends on nobody else writing it, which depends on when the
startup scan and the request thread give the job away. `IInv` says, per job, in
whose hands it is and what that implies. `RequestInv`: while the request thread
has the job, the record is as reserved and no remote job exists. `WorkerInv`: a
worker's copy is the record, and its program counter determines the record's
status and what is known of the remote job. `ScanInv`: a job in the boot queue
is unfinished and has no worker. `RecordInv`: what a status says of the remote
job. `OwnerInv`: an unfinished job is in one of these hands unless the process is
down. A step touches one job, so `Frame` disposes of all others; each action is
then one case of `JobStep`. The safety theorems are consequences of `IInv`.

`Finality` and `Quota` need one more fact, `RowWrites`: a write either reserves
a new record for a tenant below its limit, fails an unfinished one, moves an
unfinished one forward, or adds the reason a failure still owes. Hence the set of
a tenant's unfinished jobs grows only by a reservation (`ActiveGrowth`), and the
bound follows with the cardinality theorems for finite sets. The refinement maps
each action to a step of `JobContract` or to a stutter (`ContractStep`), using
`IInv` for the state a worker advances from.

The last three theorems each add an argument on top of `IInv`.
`Reservations`: a reserved key always names an existing job of its tenant
(`KeysNameRows`), so a fresh job id cannot already be named by another key, and
only a reservation writes the key table (`RequestWrites`). `RemoteAccounted`:
`Endings` lists the four ways a record becomes final (remote id never stored,
interrupted, deadline passed, remote job not live) and `RemoteMoves` says that
nothing but the one submission makes a remote job live; together they keep
`Accounts`. `PollerPatience`: until the first process stop a live remote job has
at most `RemoteLife` ticks, and a poller at least as many as the job it polls
(`NeverStopped`). The poller starts with `Deadline`, which `TimesAssumption` makes
no shorter, and a tick takes one from both clocks, so the "timeout" ending is
impossible while the job is live. After a restart the poller gets only the margin
and the property fails (`ExecutingIsNonTerminal`, section 3).

`ActiveRowOwned`, `WorkerCopyCurrent` and `TerminalIsFinal` are proved and in no
run: they are the facts the others rest on.

### Preparations

`PreparationsProofs`, for any setups and versions, any limits, any number of
attempts and process stops:

| Theorem | Statement |
|---|---|
| `Typing` | `Spec => []TypeOK` |
| `Invariance` | `Spec => []IInv` |
| `Uniqueness` | `Spec => []OneUsablePerFingerprint` |
| `Genuineness` | `Spec => []EvidenceIsGenuine` |
| `ReadyIsStartable` | `Spec => []ReadyCanStart` |
| `Finality` | `Spec => FinishedIsFinal` |
| `Refinement` | `Spec => ImplementsContract` |

As for jobs, `IInv` says in whose hands an attempt is: `RequestInv` (the
handler: no worker, nothing submitted), `WorkerInv` (a worker's copy is the row,
its attempt is unfinished and its inputs are published), `ScanInv` (an attempt
waiting for the startup scan has no worker), `RemoteInv` (a remote job has
published inputs, and an accepted row has the report it was accepted from); and
that at most one attempt of a fingerprint is usable. `Frame` disposes of the
attempts a step does not touch. `RowWrites` lists what a write can do to a row:
reserve a new one, move an unfinished one, finish it. Uniqueness is preserved
because a reservation looks at the table it inserts into, and no write makes a
finished attempt usable. Two attempts of a fingerprint may both be there, so the
refinement needs more than a case per action. `Named`: rows that exist have a
setup and a version, so each belongs to a fingerprint. `RowWrites` says of each
write which attempt it touches; every other fingerprint looks as before
(`SeenElsewhere`). A reservation finds no usable attempt of its fingerprint, which
therefore looked new or failed, and it is within the contract's limit because
the fingerprints under way are the image of the active attempts, so they are no
more (`UnderwayCount`). When an attempt finishes, uniqueness makes it the only
usable one of its fingerprint, so that finishes too, and with the same outcome.
`ReadyIsStartable` compares two readers: the newest
attempt, when it is accepted and of the current fingerprint, is one of those the
gate looks for.

### Campaign

`CampaignProofs`, for any seeds, planned attempts and their ranking, any
watchers, plan inputs and number of upsets:

| Theorem | Statement |
|---|---|
| `Typing` | `Spec => []TypeOK` |
| `Invariance` | `Spec => []IInv` |
| `SingleSlot` | `Spec => []OneActiveAttempt` |
| `Verified` | `Spec => []VerifiedIsProven` |
| `Extensions` | `Spec => []ExtensionHasProvenParent` |
| `Jobs` | `Spec => JobsAreKept` |
| `Acceptance` | `Spec => []AcceptanceIsProven` |

`IInv` joins what a state says of an attempt (`AttemptInv`), where a submission
in progress is (`SubmitInv`), what a watcher's copy claims (`WatchInv`), that a selection is of a verified attempt (`SelectionInv`), that
one attempt is active (`OneSlot`) and that the plan of an extension names a
proven parent (`ProvenParent`). The hard case is `WatchSave`: a watcher saves a
whole attempt it read before its poll, without the lock. What the copy claims is
still true then, because a job that has ended has ended (`RanStays`), and the
save is guarded by the transition table from the state the attempt has now
(`Transitions`), so it neither takes the slot nor undoes a closed attempt
(`MovesWell`). `Acceptance` says that the example was only ever recorded as
accepted with an attempt that reaches the preferred speed and whose job ended
with its evidence. It is what is selected when `accept` runs (`SelectionInv`),
and stays so, because a job that has ended has ended (`RanStays`) and no
watcher's save takes its job from an attempt (`MovesWell`).

### Showcase

`ShowcaseProofs`, for any examples, runs, manifests, pins and request threads:
`Invariance` (`Spec => []IInv`), `Typing` (`Spec => []TypeOK`) and
`OnlyEvidenceIsServed` (`Spec => []ServedIsEvidenced`). The invariant is that
whatever is shown passed the gate of its example with the run it was served of
(`ShownPassed`), which a request only ensures because it keeps the pin it
resolved and not the pin of the moment (`TypeInv` says what a request holds).
That a verdict agrees with the numbers is part of the statement only where the
criterion can be checked; elsewhere it says that the run recorded success and,
of an exact match, that the hard acceptance criteria were met.

### Accounts

`AccountsProofs`, for any addresses, codes and sessions, finitely many threads,
any robots, setups and limits, and any number of restarts:

| Theorem | Statement |
|---|---|
| `TablesTyping` | `Spec => []InventoryTypeOK` |
| `WholeHistory` | `Spec => []HistoryIsWhole` |
| `GuessesAreFew` | `Spec => []ComparisonsAreBounded` |
| `AccountsTyping` | `Spec => []TypeOK` |
| `QuotasAlwaysHold` | `Spec => []QuotasHold` |
| `RowsStay` | `Spec => [][RowsKept]_vars` |

`WholeHistory` rests on `RowsKept`: a row, once inserted, keeps all it says but
its deletion mark. What a request read (`RequestFits`) is therefore still said
by the rows when it writes, although they may be deleted by then.
`GuessesAreFew` counts: a pending code was compared no more often than was
counted on it, and at most `MaxAttempts` times; a code that is no longer pending
is compared once more by each request that still holds it (`Readers`), and the
request that dropped it is none of these (`Bounded`). That the count is made on
whatever code is pending now, and the comparison with the code read before, is
why the bound is not `MaxAttempts` itself. `QuotasAlwaysHold` counts as well: the
undeleted rows of a tenant grow by one and only in the transaction that counted
them, which also refuses a copy of an undeleted row; deleting or touching a row
never adds one. The type invariant needs
the times that are still in the rate window to be times again; `SignIn` defines
them by position, the k-th kept index being the one with k - 1 kept before it
(`Within`), which takes a counting argument and no induction over sequences.

### Curriculum

`CurriculumProofs`, for any step counts, cadences, gates, bindings and rollout
outcomes, and any number of containers, launched in any mode and killed
anywhere:

| Theorem | Statement |
|---|---|
| `Typing` | `Spec => []TypeOK` |
| `NoReselection` | `Spec => []FinalSeedsTouchOneCheckpoint` |
| `FinalProven` | `Spec => []FinalIsProven` |
| `PilotDescends` | `Spec => []PilotIsAuthorized` |
| `ImmutableEvidence` | `Spec => [][EvidenceStands]_vars` |
| `FinalIsFinal` | `Spec => [][FinalStands]_vars` |

`IInv` has two halves. `StoreInv` says what the immutable evidence in the store
implies: the bound parent passed the gate at the boundary (`ParentInv`), the
input of the finalization names the one checkpoint the reserved seeds were spent
on, within the ceiling of both phases (`InputInv`), what is final is that input
(`FinalInv`), and a pilot's evidence descends from the sweep (`PilotInv`). `JobInv` says what the running container may believe: one that has
not bound a transition was launched after the transition in the store, if there
is one, and so fails to bind its own (`UnboundJob`); one that has holds what the
store holds (`BoundJob`). A put of immutable evidence leaves the object as it is
or makes it where there was none, which is one lemma per object. A container
that ended believes nothing, so kills and new launches cost nothing.

`ImmutableEvidence`: an object that is there is never replaced. `FinalIsFinal`:
neither is what a finalization declared, although its objects are ordinary ones
that a recovery writes again. That takes `FinalInv` in its strong form: what is
final equals, field by field, what the immutable input determines, so whoever
finalizes again writes what is there.

### Custom-robot job

`RobotJobProofs`, for any robot and setup, releases, images, deployments,
motions, training profile and cadences:

| Theorem | Statement |
|---|---|
| `Typing` | `Spec => []TypeOK` |
| `Proven` | `Spec => []AcceptedIsProven` |
| `SameInputs` | `Spec => []TrainsWhatWasAccepted` |
| `WholeListing` | `Spec => []ListedIsWhole` |
| `EarliestBest` | `EvaluatesCheckpoints`: `Spec => []PublishedIsEarliestBest` |
| `SettledStays` | `Spec => [][Settles]_vars` |
| `CompletedHasResult` | `Spec => []CompletedIsListed` |

`IInv` says who may still write (`Requests`: the request of a job until its
container is there, so nobody rewrites inputs a container has loaded), what the
documents say (`Documents`: those of a training carry the accepted fingerprint),
what a preparation has proven by its phase (`Preparing`, `ReportInv`) and which
artifacts have the bytes that will be listed (`Publishing`). `SameInputs` needs
all of it: the contents of the two jobs are equal because either is the one
robot and setup of the request, or missing, and neither is missing, since one
container validated its documents and another wrote a report on the other's.
Every put of a container may take effect and then fail; `AddsAndDies` and
`ExitInv` treat that end once for all puts.

`EarliestBest`: the policy that is listed is the checkpoint of the earliest of
the best evaluations, and is stored under its step. It assumes
`EvaluatesCheckpoints`, that evaluations fall on checkpoints and one of them
within the training: the profile gives both cadences 250,000 steps
(`sim2policy/custom_robot_contract.py:122`). `BestInv` follows the
training loop: when the next checkpoint and the next evaluation are due
(`Cadence`: an evaluation finds the checkpoint of its step already put), and that
the record kept in memory is of an entry that none beats and that beats all
before it (`BestSoFar`). A new entry either beats that one, and then all
(`Ranked`: the rank is a strict weak order), or leaves it. Ranks are compared as
numbers, so what the recursive functions of `RobotEpisode` return is needed:
`SetInduction`, an induction over a set of naturals by the well-foundedness of
`<`, shows that a total of rewards is an integer whatever the trace.

`SettledStays`: a closed row keeps all it says; after an acceptance the objects
and the proof it rests on stay; after a listing the objects it names do. The
reason is who may still write then: the writer of inputs has a queued row, and a
running container has no listing and, when it prepares, no acceptance behind it.
`CompletedHasResult`: a run that is shown as completed has a listing. The backend
saw it when it closed the row, and by `SettledStays` it is still there.

### Hosted run

`RunLifecycleProofs`, for any budget, retention and parent, both trainers, and
any number of containers, killed or failing anywhere:

| Theorem | Statement |
|---|---|
| `Typing` | `Spec => []TypeOK` |
| `Whole` | `Spec => []CompletedIsWhole` |
| `Public` | `Spec => []SelectedIsPublic` |
| `Restorable` | `Spec => []SB3LatestIsRestorable` |
| `NeverRegresses` | `Spec => SB3LatestNeverRegresses` |

`IInv` follows a container along its path. On the way to training
(`Beginning`) the first launch finds no latest record, and a later one holds the
checkpoint that record names. While an SB3 model trains (`Learning`) it is at or
past the step of the latest record, that record is not a final one, and the name
being published is another than the record's unless both are the interrupted
one. So a publication killed between its three writes spoils no object that
`latest.json` names, and the next record cannot be of an earlier step;
`LatestMoves` adds that nothing but a publication writes the record. MJX starts
again at every launch, and has neither property. While finalizing
(`Finalization`) the run tree covers the store from the download on (`Covers`):
every stored checkpoint file is in the tree with the same digest. A sync that
ends without an error therefore leaves the store equal to the tree
(`UploadedAll`), whatever earlier containers left there, which is what makes the
declared manifest and the products of the selected checkpoint those of the store
when the status is written. The tree holds no bundle before this finalization
packages one (`Beginning`: a container starts without and none is downloaded),
and what `Package` writes is of the selected checkpoint (`PublicNow`), so a
declared bundle is too, whether or not an older one is still in the store. That
a checkpoint is picked at all is `FirstByIn`: a
nonempty set of names has a first one by any rank, by the well-foundedness of
`<` on the naturals. `NoneAssumption` says that the mark for an absent file is
none of the values it stands beside.

### What is only model-checked

Every safety property of a passing run is a theorem. TLC alone checks liveness
(`TrainingJobs.EveryJobFinishes`, `Preparations.EveryAttemptFinishes`,
`Showcase.GoodRunsAppear`), since TLAPS does not reason about fairness;
everything about `SiteVisits`; and the violations of section 3. The folds of
`Episodes` that turn rollouts into verdicts are not proved about: the theorems
of the curriculum hold whatever verdict they give.

The theorems whose property no run names, besides the inductive invariants, are
action properties and consequences that say more of the same code: `Ownership`,
`SingleWriter`, `Finality`, `Acceptance`, `QuotasAlwaysHold`, `RowsStay`,
`ImmutableEvidence`, `FinalIsFinal`, `SettledStays`, `CompletedHasResult`.

## 5. Not modelled

- The lock file of the campaign (`CampaignStore.lock`, `recover_lock`): a mutex
  that may go stale in `Campaign`. Two hazards in `PROJECT.json` concern it.
- `MockBackend`, the timed simulation that development uses in place of the
  provider.
- Request building and response parsing of the Nebius client; its outcomes are
  the remote actions of the orchestration modules.
- The database failing, schema creation and migrations.
- Numerical training, physics and rendering; telemetry, plots, report text and
  cost figures.
- Read-only projections of the API and of the catalogs, streaming, presigned
  URLs and range requests, the rate limiter of the collect endpoint and bot
  detection.
- Campaign commands that write no attempt (init, preflight, the implementation
  gate, handoff, status, audit-cloud), matrix parsing, redaction, VM handling.
- The web frontend, the validation suite, Terraform and CI.

## 6. Running

    tlc -workers 2 -config TrainingJobsRestart.cfg MCTrainingJobs.tla
    tlc -workers 2 -config Preparations.cfg MCPreparations.tla
    tlc -workers 2 -config Campaign.cfg MCCampaign.tla
    tlc -workers 2 -config RunLifecycle.cfg MCRunLifecycle.tla
    tlc -workers 2 -config Curriculum.cfg MCCurriculum.tla
    tlc -workers 2 -config RobotJob.cfg MCRobotJob.tla
    tlc -workers 2 -config Accounts.cfg MCAccounts.tla
    tlc -workers 2 -config Showcase.cfg MCShowcase.tla

The configurations of the violation runs are `RunLifecycleLatestRestorable`,
`CurriculumFinalTolerance`, `RobotJobRejection` and `SiteVisitsTotals`. The
proofs are checked with `tlapm` on each `*Proofs.tla`.
