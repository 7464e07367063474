------------------------------ MODULE RobotJob ------------------------------
(***************************************************************************)
(* A custom robot from Prepare to a finished training: the backend that    *)
(* puts the inputs, submits a container and reads its outcome (main.py,    *)
(* orchestration.py, custom_storage.py), the container of either mode      *)
(* (custom_robot_job.py), and the bucket between them.                     *)
(*                                                                         *)
(* One attempt and one run: an identity is used once and the provider      *)
(* restarts no container.  Preparations and TrainingJobs model the         *)
(* backend's threads, crashes, quotas and retries; here its process is     *)
(* replaced by another deployment only between two requests.               *)
(*                                                                         *)
(* Time in a training is the vectorized step, the unit in which callbacks  *)
(* run.  The network is updated at the end of a rollout, so a model is     *)
(* named by the updates it has had; the running observation statistics     *)
(* change at every step, and are named by the step.                        *)
(***************************************************************************)
EXTENDS RobotInputs, RobotEpisode

CONSTANTS Deployments,       \* [release, image] the backend may run with
          MaxDeploys,        \* bound on redeployments, for model checking
          Motions,           \* traces a policy may produce
          Settled,           \* the sample an episode starts from
          TotalSteps,        \* total_timesteps, in vectorized steps
          RolloutSteps,      \* ppo_n_steps
          CheckpointEvery, EvaluationEvery,
          ProgressSeeds, ProgressEpisodes,
          FinalSeeds, FinalEpisodes

ASSUME ProfileAssumption ==
  /\ {TotalSteps, RolloutSteps, CheckpointEvery, EvaluationEvery,
      ProgressEpisodes, FinalEpisodes} \subseteq Nat \ {0}
  /\ MaxDeploys \in Nat

\* What a policy may produce is a sequence of samples, each with its pay.
ASSUME MotionsAssumption ==
  \A trace \in Motions :
    /\ Len(trace) \in Nat /\ DOMAIN trace = 1..Len(trace)
    /\ \A k \in DOMAIN trace : trace[k].pay \in Int

\* learn() returns at the end of the rollout that reaches the total.
Rollouts == (TotalSteps + RolloutSteps - 1) \div RolloutSteps
LearnEnds == Rollouts * RolloutSteps
Updates(step) == (step - 1) \div RolloutSteps   \* while step's callbacks run
Steps == 0..LearnEnds

VARIABLES
  deployed,  \* the deployment the backend runs
  deploys,   \* redeployments so far
  attempt,   \* the row of the preparation
  run,       \* the row of the training job
  writer,    \* the request thread that puts the inputs of a job
  bucket,    \* the objects under the prefix of either job
  box,       \* the container, and what the provider says of it
  proven     \* history: the phases that ran to their end

vars == <<deployed, deploys, attempt, run, writer, bucket, box, proven>>

Kinds == {"prepare", "train"}

ASSUME NoneAssumption == None \notin Kinds \cup {Phases[i] : i \in DOMAIN Phases}

Current == Fingerprint(Robot, Setup, deployed.image, deployed.release)

NoRow == [state |-> "none", phase |-> None, fingerprint |-> None]
Idle == [kind |-> None, member |-> 0, documents |-> None]
NoBox == [mode |-> None, provider |-> "none", pc |-> "gone", own |-> None,
          documents |-> None, phase |-> 0, refused |-> None,
          step |-> 0, nextCheckpoint |-> 0, nextEvaluation |-> 0,
          best |-> None, evaluations |-> <<>>, metrics |-> None, put |-> 0]
EmptyPrefix == [inputs |-> [robot |-> None, setup |-> None, manifest |-> None],
                probe |-> FALSE, report |-> None, status |-> None,
                progress |-> {}, checkpoints |-> [s \in {} |-> 0],
                artifacts |-> [a \in ArtifactNames |-> None], manifest |-> None]

Here == bucket[box.mode]
Puts(kind, prefix) == bucket' = [bucket EXCEPT ![kind] = prefix]
Goes(there) == box' = [box EXCEPT !.pc = there]

ExitsUnmapped(code) == [box EXCEPT !.pc = "gone",
                           !.provider = IF code = 0 THEN "succeeded" ELSE "error"]   \* mutant
\* main() returns 0, or 2 after an exception; map_nebius_state.
Exits(code) == [box EXCEPT !.pc = "gone",
                           !.provider = IF code = 0 THEN "completed" ELSE "failed"]

BackendOnly == UNCHANGED <<deployed, deploys, box, proven>>
BoxOnly == UNCHANGED <<deployed, deploys, attempt, run, writer, proven>>
-----------------------------------------------------------------------------
\* The backend.

Deploy(d) ==
  /\ deploys < MaxDeploys /\ d # deployed /\ writer = Idle
  /\ deployed' = d /\ deploys' = deploys + 1
  /\ UNCHANGED <<attempt, run, writer, bucket, box, proven>>

Prepare ==
  /\ attempt.state = "none"
  /\ attempt' = [state |-> "queued", phase |-> "queued", fingerprint |-> Current]
  /\ writer' = [kind |-> "prepare", member |-> 1,
                documents |-> build_input_documents(deployed.image, deployed.release)]
  /\ BackendOnly /\ UNCHANGED <<run, bucket>>

AcceptedOfAnyFingerprint == attempt.state = "accepted"               \* mutant
\* accepted_preparation, of the current fingerprint.
MayStart == attempt.state = "accepted" /\ attempt.fingerprint = Current

StartTraining ==
  /\ run.state = "none" /\ MayStart
  /\ run' = [state |-> "queued", phase |-> "queued", fingerprint |-> Current]
  /\ writer' = [kind |-> "train", member |-> 1,
                documents |-> build_input_documents(deployed.image, deployed.release)]
  /\ BackendOnly /\ UNCHANGED <<attempt, bucket>>

Row(kind) == IF kind = "prepare" THEN attempt ELSE run
SetRow(kind, state, phase) ==
  LET row == [Row(kind) EXCEPT !.state = state, !.phase = phase]
  IN  IF kind = "prepare" THEN attempt' = row /\ run' = run
                          ELSE run' = row /\ attempt' = attempt

\* _put_verified reads back what it put.
PutInput ==
  /\ writer # Idle /\ writer.member <= Len(Members)
  /\ LET name == Members[writer.member]
     IN  bucket' = [bucket EXCEPT ![writer.kind].inputs[name] =
                      writer.documents[name]]
  /\ writer' = [writer EXCEPT !.member = @ + 1]
  /\ BackendOnly /\ UNCHANGED <<attempt, run>>

\* Whatever was put is deleted, as far as the store lets it.
PutInputFails ==
  /\ writer # Idle /\ writer.member <= Len(Members)
  /\ \E left \in SUBSET {Members[i] : i \in 1..writer.member} :
       bucket' = [bucket EXCEPT ![writer.kind].inputs =
                    [name \in DOMAIN @ |-> IF name \in left
                                           THEN writer.documents[name] ELSE None]]
  /\ SetRow(writer.kind, "failed", "input-publication")
  /\ writer' = Idle
  /\ BackendOnly

\* The job starts with the image the manifest names: the process that built
\* the documents submits them.
Submit ==
  /\ writer # Idle /\ writer.member > Len(Members)
  /\ writer' = Idle
  /\ \/ /\ SetRow(writer.kind, "submitted", "starting")
        /\ box' = [NoBox EXCEPT !.mode = writer.kind, !.provider = "running",
                     !.pc = "load", !.own = ReleaseOf[deployed.image]]
     \/ SetRow(writer.kind, "failed", "submission") /\ box' = box
  /\ UNCHANGED <<deployed, deploys, bucket, proven>>

Polling(kind) == Row(kind).state = "submitted" /\ box.mode = kind

\* The report is not looked for when the provider reports a failure.
PollFailed(kind) ==
  /\ Polling(kind) /\ box.provider = "failed"
  /\ SetRow(kind, "failed", "execution")
  /\ BackendOnly /\ UNCHANGED <<writer, bucket>>

PollDeadline(kind) ==
  /\ Polling(kind) /\ SetRow(kind, "failed", "deadline")
  /\ BackendOnly /\ UNCHANGED <<writer, bucket>>

\* Reading may fail until the attempts or the deadline are used up.
FinalizePreparation ==
  /\ Polling("prepare") /\ box.provider = "completed"
  /\ LET report == read_preparation_report(bucket["prepare"])
     IN  IF report = None \/ report.fingerprint # attempt.fingerprint
         THEN SetRow("prepare", "failed", "finalization")
         ELSE \/ SetRow("prepare", report.status, report.failure_phase)
              \/ SetRow("prepare", "failed", "finalization")
  /\ BackendOnly /\ UNCHANGED <<writer, bucket>>

FinalizeTraining ==
  /\ Polling("train") /\ box.provider = "completed"
  /\ \/ Readable(bucket["train"]) /\ SetRow("train", "completed", None)
     \/ SetRow("train", "failed", "finalization")
  /\ BackendOnly /\ UNCHANGED <<writer, bucket>>

Backend == \/ \E d \in Deployments : Deploy(d)
           \/ Prepare \/ StartTraining \/ PutInput \/ PutInputFails \/ Submit
           \/ \E kind \in Kinds : PollFailed(kind) \/ PollDeadline(kind)
           \/ FinalizePreparation \/ FinalizeTraining
-----------------------------------------------------------------------------
\* The container, either mode.

\* A put whose answer is lost raises although the object is there.
Answered(next) == box' \in {next, Exits(2)}

Load ==
  /\ box.pc = "load"
  /\ IF validate_documents(Here.inputs, box.own)
     THEN box' = [box EXCEPT !.documents = Here.inputs,
                    !.pc = IF box.mode = "prepare" THEN "phases" ELSE "start",
                    !.nextCheckpoint = CheckpointEvery,
                    !.nextEvaluation = EvaluationEvery]
     ELSE box' = Exits(2)       \* nothing is published
  /\ BoxOnly /\ UNCHANGED bucket

\* An exception outside the gates, the provider's timeout, an eviction.
Dies == box.pc # "gone" /\ box' = Exits(2) /\ BoxOnly /\ UNCHANGED bucket

-----------------------------------------------------------------------------
\* prepare: run_preparation.

PassPhase ==
  /\ box.pc = "phases" /\ box.phase < Len(Phases)
  /\ LET k == box.phase + 1
     IN  /\ proven' = proven \cup {Phases[k]}
         /\ box' = [box EXCEPT !.phase = k,
                               !.pc = IF k = Len(Phases) THEN "probe" ELSE "phases"]
  /\ UNCHANGED <<deployed, deploys, attempt, run, writer, bucket>>

\* The gate raises or its timer fires; or the rendered frame, although the
\* render phase passed, is too large.
RefusePhase ==
  /\ box.pc = "phases"
  /\ \/ box' = [box EXCEPT !.refused = Phases[box.phase + 1], !.pc = "probe"]
     \/ box.phase = 3 /\ box' = [box EXCEPT !.refused = "render", !.pc = "probe"]
  /\ BoxOnly /\ UNCHANGED bucket

\* Only a frame of a bounded size is put.
PutProbe ==
  /\ box.pc = "probe"
  /\ \/ /\ box.phase >= 3
        /\ Puts("prepare", [Here EXCEPT !.probe = TRUE])
        /\ Answered([box EXCEPT !.pc = "report"])
     \/ box.phase <= 3 /\ Goes("report") /\ UNCHANGED bucket
  /\ BoxOnly

AcceptsUnlessCompileFails(b) == IF b.phase = 0 THEN "failed" ELSE "accepted" \* mutant
Status(b) == IF b.refused = None THEN "accepted" ELSE "failed"

PutReport ==
  /\ box.pc = "report"
  /\ Puts("prepare", [Here EXCEPT !.report =
       [fingerprint |-> box.documents.manifest.fingerprint,
        status |-> Status(box), failure_phase |-> box.refused]])
  /\ Answered(Exits(IF Status(box) = "accepted" THEN 0 ELSE 2))
  /\ BoxOnly

-----------------------------------------------------------------------------
\* train: run_training.

PutTraining ==
  /\ box.pc = "start"
  /\ Puts("train", [Here EXCEPT !.status = "training"])
  /\ Answered([box EXCEPT !.pc = "learn"])
  /\ BoxOnly

DueFirst(b) == IF b.step >= b.nextCheckpoint THEN "checkpoint"
               ELSE IF b.step >= b.nextEvaluation THEN "evaluate" ELSE "learn"
\* The while loops of the callback: the first multiple after the step.
NextDue(due, every, step) ==
  CHOOSE n \in {due + k * every : k \in 0..LearnEnds} :
    /\ n > step /\ (n > due => n - every <= step)

LearnStep ==
  /\ box.pc = "learn" /\ box.step < LearnEnds
  /\ LET b == [box EXCEPT !.step = @ + 1]
     IN  box' = [b EXCEPT !.pc = DueFirst(b)]
  /\ BoxOnly /\ UNCHANGED bucket

PutCheckpoint ==
  /\ box.pc = "checkpoint"
  /\ Puts("train", [Here EXCEPT !.checkpoints =
       [s \in DOMAIN @ \cup {box.step} |->
          IF s = box.step THEN Updates(box.step) ELSE @[s]]])
  /\ LET b == [box EXCEPT !.nextCheckpoint = NextDue(@, CheckpointEvery, box.step)]
     IN  Answered([b EXCEPT !.pc = DueFirst(b)])
  /\ BoxOnly

Evaluations(base, n) ==
  {EvaluatePolicy(base, [i \in 1..n |-> Play(Settled, moves[i])]) :
     moves \in [1..n -> Motions]}

\* A checkpoint replaces the best one only if it is strictly better.
BestOf(b, result) ==
  IF b.best = None \/ Better(result, b.best.result)
  THEN [result |-> result, step |-> b.step, model |-> Updates(b.step)]
  ELSE b.best

\* None is no evaluated checkpoint.
ASSUME BestAssumption ==
  None \notin [result : Evaluations(ProgressSeeds, ProgressEpisodes),
               step : Steps, model : Int]

Evaluate ==
  /\ box.pc = "evaluate"
  /\ \E result \in Evaluations(ProgressSeeds, ProgressEpisodes) :
       box' = [box EXCEPT
                 !.evaluations = Append(@, [step |-> box.step, result |-> result]),
                 !.best = BestOf(box, result),
                 !.pc = "progress"]
  /\ BoxOnly /\ UNCHANGED bucket

PutProgress ==
  /\ box.pc = "progress"
  /\ Puts("train", [Here EXCEPT !.progress = {box.step}])
  /\ LET b == [box EXCEPT !.nextEvaluation = NextDue(@, EvaluationEvery, box.step)]
     IN  Answered([b EXCEPT !.pc = DueFirst(b)])
  /\ BoxOnly

\* The best evaluated checkpoint, or the last model under the requested total.
Published(b) == IF b.best = None
                THEN [model |-> Rollouts, timesteps |-> TotalSteps]
                ELSE [model |-> b.best.model, timesteps |-> b.best.step]

\* The published policy is evaluated again on the final seeds, rendered,
\* bundled and loaded from the bundle; any of these may raise (Dies).
LearnReturns ==
  /\ box.pc = "learn" /\ box.step = LearnEnds
  /\ \E result \in Evaluations(FinalSeeds, FinalEpisodes) :
       box' = [box EXCEPT
                 !.metrics = [published |-> Published(box), final |-> result,
                              evaluations |-> box.evaluations],
                 !.pc = "artifacts"]
  /\ BoxOnly /\ UNCHANGED bucket

Bundle(b) == [model |-> b.metrics.published.model,
              robot |-> b.documents.robot, setup |-> b.documents.setup,
              fingerprint |-> b.documents.manifest.fingerprint,
              metrics |-> b.metrics]

ArtifactBytes(b) ==
  [a \in ArtifactNames |->
     CASE a = "metrics_json" -> b.metrics
       [] a \in {"policy_bundle", "bundle_manifest"} -> Bundle(b)
       [] a = "robot_xml" -> b.documents.robot
       [] a = "normalized_setup" -> b.documents.setup
       [] OTHER -> b.metrics.published.model]

PutArtifact ==
  /\ box.pc = "artifacts" /\ box.put < Len(Artifacts)
  /\ LET a == Artifacts[box.put + 1]
     IN  Puts("train", [Here EXCEPT !.artifacts[a] = ArtifactBytes(box)[a]])
  /\ Answered([box EXCEPT !.put = @ + 1])
  /\ BoxOnly

AfterFirst == box.put = 1                                            \* mutant
AllArtifactsPut == box.put = Len(Artifacts)

PutCompleted ==
  /\ box.pc = "artifacts" /\ AllArtifactsPut
  /\ Puts("train", [Here EXCEPT !.status = "completed"])
  /\ Answered([box EXCEPT !.pc = "manifest"])
  /\ BoxOnly

PutManifest ==
  /\ box.pc = "manifest"
  /\ Puts("train", [Here EXCEPT !.manifest = ArtifactBytes(box)])
  /\ Answered(Exits(0))
  /\ BoxOnly

Container == \/ Load \/ Dies
             \/ PassPhase \/ RefusePhase \/ PutProbe \/ PutReport
             \/ PutTraining \/ LearnStep \/ PutCheckpoint \/ Evaluate
             \/ PutProgress \/ LearnReturns \/ PutArtifact \/ PutCompleted
             \/ PutManifest
-----------------------------------------------------------------------------
Init == /\ deployed \in Deployments /\ deploys = 0
        /\ attempt = NoRow /\ run = NoRow /\ writer = Idle
        /\ bucket = [kind \in Kinds |-> EmptyPrefix]
        /\ box = NoBox /\ proven = {}

Next == Backend \/ Container
Spec == Init /\ [][Next]_vars
-----------------------------------------------------------------------------
\* Properties.

\* Every variable has its type, down to the steps, the models they name and
\* the states of the provider: custom_robot_job.py as a whole.
TypeOK ==
  /\ deployed \in Deployments /\ deploys \in 0..MaxDeploys
  /\ \A row \in {attempt, run} :
       row.state \in {"none", "queued", "submitted", "accepted", "completed", "failed"}
  /\ writer.kind \in Kinds \cup {None} /\ writer.member \in 0..(Len(Members) + 1)
  /\ box.mode \in Kinds \cup {None}
  /\ box.provider \in {"none", "running", "completed", "failed"}
  /\ box.step \in Steps /\ box.phase \in 0..Len(Phases)
  /\ box.put \in 0..Len(Artifacts)
  /\ DOMAIN bucket["train"].checkpoints \subseteq Steps
  /\ proven \subseteq {Phases[i] : i \in DOMAIN Phases}

\* An accepted preparation went through every mandatory phase, none left out,
\* on the inputs of its own fingerprint (run_preparation and main's exit
\* code, _finalize_preparation).
AcceptedIsProven ==
  attempt.state = "accepted" =>
    /\ proven = {Phases[i] : i \in DOMAIN Phases}
    /\ bucket["prepare"].report.fingerprint = attempt.fingerprint
    /\ bucket["prepare"].inputs.manifest.fingerprint = attempt.fingerprint

\* A training past the validation of its inputs runs on the contents and
\* under the image and contract versions of an accepted preparation, whatever
\* was deployed in between (start_robot_setup_training, validate_documents).
TrainsWhatWasAccepted ==
  box.mode = "train" /\ box.documents # None =>
    /\ attempt.state = "accepted"
    /\ box.documents.manifest.fingerprint = attempt.fingerprint
    /\ box.documents.robot = bucket["prepare"].inputs.robot
    /\ box.documents.setup = bucket["prepare"].inputs.setup
    /\ bucket["train"].inputs = box.documents

\* A listed result is all there whenever a reader comes: every artifact has
\* the listed bytes, and the policy alone and the one in the bundle are the
\* same network (the order of the puts at the end of run_training).
ListedIsWhole ==
  LET here == bucket["train"]
  IN  here.manifest # None =>
        /\ Readable(here)
        /\ here.status = "completed"
        /\ here.artifacts["policy_bundle"].model = here.artifacts["final_policy"]
        /\ here.artifacts["policy_bundle"].fingerprint = run.fingerprint

\* The published policy is the earliest of the checkpoints that did best in
\* the progress evaluations, by successes and then by reward, and the
\* checkpoint the metrics name is in the bucket and is that network, however
\* the rollouts fall between the evaluations (DurableProgressCallback).
PublishedIsEarliestBest ==
  LET here == bucket["train"]
      m == here.manifest["metrics_json"]
      Beats(i, j) ==
        LET a == m.evaluations[i].result
            b == m.evaluations[j].result
        IN  \/ a.success_rate > b.success_rate
            \/ (a.success_rate = b.success_rate /\ a.reward > b.reward)
  IN  here.manifest # None =>
        /\ \E i \in DOMAIN m.evaluations :
             /\ m.published.timesteps = m.evaluations[i].step
             /\ \A j \in DOMAIN m.evaluations :
                  ~Beats(j, i) /\ (j < i => Beats(i, j))
        /\ m.published.timesteps \in DOMAIN here.checkpoints
        /\ here.checkpoints[m.published.timesteps] = here.artifacts["final_policy"]

\* Claimed by openspec/specs/custom-robot-training-preparation/spec.md:92-94:
\* a preparation that a gate refused fails in the phase of that gate.
RejectionIsDiagnosed ==
  LET report == bucket["prepare"].report
  IN  report # None /\ report.status = "failed" /\ attempt.state = "failed"
        => attempt.phase \in {report.failure_phase, "deadline"}
=============================================================================
