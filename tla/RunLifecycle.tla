---------------------------- MODULE RunLifecycle ----------------------------
(***************************************************************************)
(* One hosted training run under one run id: the containers that train it   *)
(* (train_sb3.py, train_mjx.py), the finalization that turns its checkpoints*)
(* into published artifacts (finalize.py, evaluate.py), and the object store*)
(* they share (storage.py, runstate.py).                                    *)
(*                                                                          *)
(* An operator launches containers one after the other.  A container starts *)
(* with an empty run tree, may be killed between any two writes, and loses  *)
(* the tree with it; only the object store stays.  An operation of the store*)
(* that still fails after its retries raises StorageError.                  *)
(*                                                                          *)
(* A launch after the first is resumed (RESUME=remote) or only finalizes: a *)
(* run id is not trained afresh twice.  Steps are counted in checkpoint     *)
(* intervals.  Videos, metrics and bundles are identified by the checkpoint *)
(* they were made from and the container that made them.                    *)
(***************************************************************************)
EXTENDS CheckpointFiles

CONSTANTS
  Trainers,     \* the trainers considered, of "sb3" and "mjx"
  Keep,         \* config.checkpoint.keep
  ParentStep,   \* step of the parent's checkpoint a child may resume from
  MaxLaunches   \* bound on containers, for model checking

ASSUME RunAssumption == /\ Trainers \subseteq {"sb3", "mjx"}
                        /\ Keep \in Nat
                        /\ ParentStep \in 0..Total
                        /\ MaxLaunches \in Nat

VARIABLES
  trainer,   \* config.backend
  launches,  \* containers started
  mode,      \* what this one runs: "train", "hosted" (both) or "finalize"
  resume,    \* how it resumes: "fresh", "remote" or "named"
  want,      \* --selected-checkpoint-digest
  pc,        \* its next operation; "idle" when no container runs
  exit,      \* how the last container ended: "storage" for a StorageError,
             \* "error" for any other exception
  cur,       \* the checkpoint being published
  at,        \* num_timesteps of the model in memory
  local,     \* the checkpoints of the run tree
  made,      \* the other artifacts of the run tree
  picked,    \* finalization: its initial, quarter, final and selected names
  remote,    \* the checkpoints in the store
  latest,    \* checkpoints/latest.json
  out,       \* the other artifacts in the store
  manifest,  \* report/artifacts.json: the declared checksums
  status,    \* metadata/status.json
  api        \* the demo API's request that starts the run

container == <<mode, resume, want, pc, exit, cur, at, local, made, picked>>
store == <<remote, latest, out, manifest, status>>
vars == <<trainer, launches, container, store, api>>
-----------------------------------------------------------------------------
Artifacts == {"video_untrained", "video_mid", "video_final",
              "video_final_step", "metrics", "final_policy",
              "resolved_config", "bundle"}

Tokens == [by : 0..MaxLaunches, name : Names]
Products == [of : Tokens, by : 1..MaxLaunches]

Nothing == [a \in Artifacts |-> None]

ASSUME NoneAssumption ==
  /\ None # "completed"
  /\ None \notin Names /\ None \notin Tokens /\ None \notin Products
  /\ None \notin [name : Names, sha : Tokens]
  /\ None \notin [Artifacts -> Products \cup {None}]

\* What a checkpoint saved now is: no two saves write the same archive.
Fresh(n) == [by |-> launches, name |-> n]

\* The child's parent: a ranked checkpoint of another run.
Parent == [kind |-> "step", step |-> ParentStep]
ParentToken == [by |-> 0, name |-> Parent]

Name(kind, step) == [kind |-> kind, step |-> step]

Finalizing == {"download", "select", "render", "evaluate", "package",
               "upload", "declare", "complete"}

\* The container ends and its run tree is gone.
Ended(why) == /\ pc' = "idle"
              /\ exit' = why
              /\ mode' = "train" /\ resume' = "fresh" /\ want' = None
              /\ cur' = None /\ at' = 0
              /\ local' = EmptyTree /\ made' = Nothing /\ picked' = None

\* The exception handler of the trainers' main: the status is failed, unless
\* writing it fails too.
Failed(why) == /\ Ended(why)
               /\ status' \in {"failed", status}
               /\ why # "storage" => status' = "failed"

-----------------------------------------------------------------------------
TypeOK == /\ trainer \in Trainers
          /\ launches \in 0..MaxLaunches
          /\ mode \in {"train", "hosted", "finalize"}
          /\ resume \in {"fresh", "remote", "named"}
          /\ want \in Tokens \cup {None}
          /\ exit \in {"none", "ok", "error", "storage", "interrupted",
                       "killed"}
          /\ pc \in {"idle", "resume", "begin", "load", "learn", "publish",
                     "report", "playground", "sync", "trained"} \cup Finalizing
          /\ cur \in Names \cup {None}
          /\ at \in 0..Total
          /\ \A dir \in {local, remote} : dir \in
               [Names -> [data : Tokens \cup {None}, meta : Tokens \cup {None}]]
          /\ \A arts \in {made, out} : arts \in
               [Artifacts -> Products \cup {None}]
          /\ picked \in {None} \cup
               [initial : Names, quarter : Names, final : Names,
                selected : Names]
          /\ latest \in {None} \cup [name : Names, sha : Tokens]
          /\ manifest \in {None} \cup [Artifacts -> Products \cup {None}]
          /\ status \in {None, "queued", "starting", "training", "rendering",
                         "evaluating", "completed", "failed"}
          /\ api \in {"none", "queued", "submit", "confirm", "done"}

Init == /\ trainer \in Trainers
        /\ launches = 0
        /\ mode = "train" /\ resume = "fresh" /\ want = None
        /\ pc = "idle" /\ exit = "none" /\ cur = None /\ at = 0
        /\ local = EmptyTree /\ made = Nothing /\ picked = None
        /\ remote = EmptyTree /\ latest = None /\ out = Nothing
        /\ manifest = None /\ status = None
        /\ api = "none"
-----------------------------------------------------------------------------
(***************************************************************************)
(* Launching: the operator, and the demo API (api/app.py and the Nebius     *)
(* backend of api/orchestration.py).                                        *)
(***************************************************************************)
Start(m, r, digest) ==
  /\ pc = "idle" /\ launches < MaxLaunches
  /\ launches' = launches + 1
  /\ mode' = m /\ resume' = r /\ want' = digest
  /\ pc' = IF m = "finalize" THEN "download"
           ELSE IF r = "fresh" THEN "begin" ELSE "resume"
  /\ exit' = "none"
  /\ UNCHANGED <<trainer, cur, at, local, made, picked, store>>

\* A job of submit.sh or of the hosted entry points.  The hosted SB3 job has
\* no --resume; only SB3 resumes a named checkpoint of another run.
Train(m, r) ==
  /\ m \in {"train", "hosted"}
  /\ r = "remote" <=> launches > 0
  /\ r = "remote" => ~(trainer = "sb3" /\ m = "hosted")
  /\ r = "named" => trainer = "sb3"
  /\ api \in {"none", "done"}
  /\ Start(m, r, None)
  /\ UNCHANGED api

\* Finalization by itself, of whatever the run has published so far.
Finalize(digest) ==
  /\ launches > 0 /\ api \in {"none", "done"}
  /\ digest \in {None} \cup {remote[n].data : n \in Names}
  /\ Start("finalize", "fresh", digest)
  /\ UNCHANGED api

\* POST /train: the request is stored and the status initialised.
ApiRequest == /\ api = "none" /\ launches = 0
              /\ api' = "queued" /\ status' = "queued"
              /\ UNCHANGED <<trainer, launches, container, remote, latest, out,
                             manifest>>

\* launch() announces the submission.
ApiAnnounce == /\ api = "queued"
               /\ api' = "submit" /\ status' = "starting"
               /\ UNCHANGED <<trainer, launches, container, remote, latest,
                              out, manifest>>

\* submit.sh creates a job that only trains, or fails.
ApiSubmit == /\ api = "submit"
             /\ \/ /\ Start("train", "fresh", None)
                   /\ api' = "confirm"
                \/ /\ api' = "done" /\ status' = "failed"
                   /\ UNCHANGED <<trainer, launches, container, remote, latest,
                                  out, manifest>>

\* The job handle is recorded with another update of the status, while the
\* job may already be running.
ApiConfirm == /\ api = "confirm"
              /\ api' = "done" /\ status' = "starting"
              /\ UNCHANGED <<trainer, launches, container, remote, latest, out,
                             manifest>>

\* The API process dies.
ApiDies == /\ api \in {"queued", "submit", "confirm"}
           /\ api' = "done"
           /\ UNCHANGED <<trainer, launches, container, store>>

\* require_nebius_execution: every command first checks what its environment
\* says about where it runs and as what.  The campaign's jobs are hosted and
\* declare it, and a hosted job declares it for its finalization; submit.sh
\* passes nothing of it, so it holds only if the image does.
FirstOperation == IF mode = "finalize" THEN "download"
                  ELSE IF resume = "fresh" THEN "begin" ELSE "resume"

NotAttested == /\ mode # "hosted" /\ pc = FirstOperation
               /\ Ended("error")
               /\ UNCHANGED <<trainer, launches, store, api>>

-----------------------------------------------------------------------------
(***************************************************************************)
(* Restoring a checkpoint.  It happens before the trainers' exception       *)
(* handler is in place: a failure here writes no status.                    *)
(***************************************************************************)
ResumeLatest ==
  /\ pc = "resume" /\ resume = "remote"
  /\ IF latest = None
     THEN Ended("storage") /\ UNCHANGED <<trainer, launches>>
     ELSE IF remote[latest.name].data # latest.sha
     THEN Ended("error") /\ UNCHANGED <<trainer, launches>>
     ELSE /\ local' = [local EXCEPT ![latest.name] = remote[latest.name]]
          /\ cur' = latest.name
          /\ pc' = "begin"
          /\ UNCHANGED <<trainer, launches, mode, resume, want, exit, at, made,
                         picked>>
  /\ UNCHANGED <<store, api>>

\* The parent's object is immutable and its digest the recorded one.
ResumeNamed ==
  /\ pc = "resume" /\ resume = "named"
  /\ local' = Saved(local, Parent, ParentToken)
  /\ cur' = Parent
  /\ pc' = "begin"
  /\ UNCHANGED <<trainer, launches, mode, resume, want, exit, at, made, picked,
                 store, api>>

ResumeUnavailable == /\ pc = "resume"
                     /\ Ended("storage")
                     /\ UNCHANGED <<trainer, launches, store, api>>

-----------------------------------------------------------------------------
(***************************************************************************)
(* Training.                                                                *)
(***************************************************************************)
StatusOnly == UNCHANGED <<trainer, launches, remote, latest, out, manifest,
                          api>>

\* A training operation raises: the handler of main records it.
TrainingFails == /\ pc \in {"begin", "load", "learn", "playground", "report",
                            "sync", "trained"}
                 /\ \/ Failed("storage") /\ pc \in {"begin", "report", "trained"}
                    \/ Failed("error") /\ \/ pc \in {"learn", "playground"}
                                          \/ pc = "begin" /\ trainer = "mjx"
                 /\ StatusOnly

\* update_status(training); for MJX after the environment and the accelerator
\* have been checked.
Begin == /\ pc = "begin"
         /\ status' = "training"
         /\ pc' = "load"
         /\ StatusOnly
         /\ UNCHANGED <<mode, resume, want, exit, cur, at, local, made, picked>>

Initial == Name("initial", 0)

\* A new SB3 model saves its initial checkpoint, and does not publish it.
LoadFreshSB3 ==
  /\ pc = "load" /\ trainer = "sb3" /\ resume = "fresh"
  /\ local' = Saved(local, Initial, Fresh(Initial))
  /\ at' = 0
  /\ pc' = "learn"
  /\ UNCHANGED <<trainer, launches, mode, resume, want, exit, cur, made, picked,
                 store, api>>

StepRestarted(n) == 0                                             \* mutant
StepOf(n) == n.step

\* A resumed SB3 model continues the budget from the checkpoint's step.
LoadResumedSB3 ==
  /\ pc = "load" /\ trainer = "sb3" /\ resume # "fresh"
  /\ IF Loadable(local, cur) /\ cur.step < Total
     THEN /\ at' = StepOf(cur) /\ cur' = None
          /\ pc' = "learn"
          /\ UNCHANGED <<trainer, launches, mode, resume, want, exit, local,
                         made, picked, store, api>>
     ELSE Failed("error") /\ StatusOnly

\* MJX unpacks the checkpoint to resume from; then it makes and publishes an
\* initial policy whether it resumes or not.
LoadMJX ==
  /\ pc = "load" /\ trainer = "mjx"
  /\ IF resume = "fresh" \/ Loadable(local, cur)
     THEN /\ local' = Saved(local, Initial, Fresh(Initial))
          /\ cur' = Initial
          /\ pc' = "publish"
          /\ UNCHANGED <<trainer, launches, mode, resume, want, exit, at, made,
                         picked, store, api>>
     ELSE Failed("error") /\ StatusOnly

\* The checkpoint n is saved in the run tree and publishing it begins.
Checkpoint(n) == /\ local' = Saved(local, n, Fresh(n))
                 /\ cur' = n
                 /\ pc' = "publish"
                 /\ UNCHANGED <<trainer, launches, mode, resume, want, exit,
                                made, picked, store, api>>

BudgetOvershot == at <= Total                                     \* mutant
BudgetLeft == at < Total

\* One interval of learn and the callback's save; or the budget is reached.
Learn == /\ pc = "learn"
         /\ IF BudgetLeft
            THEN at' = at + 1 /\ Checkpoint(Name("step", at + 1))
            ELSE at' = at /\ Checkpoint(Name("final", at))

Interrupt == /\ pc = "learn" /\ BudgetLeft
             /\ at' = at
             /\ Checkpoint(Name("interrupted", at))

\* Playground is one process; it writes checkpoints to its own directory and
\* nothing is published before it ends.
MJXName(s) == Name(IF s = Total THEN "final" ELSE "step", s)

Playground == /\ pc = "playground"
              /\ at' = at
              /\ Checkpoint(MJXName(1))

\* mutant: latest.json is written first
PublishWritesLatestFirst(k) ==
  /\ remote' = [remote EXCEPT
       ![cur] = [data |-> IF k > 1 THEN local[cur].data ELSE @.data,
                 meta |-> IF k > 2 THEN local[cur].meta ELSE @.meta]]
  /\ latest' = IF k > 0 THEN [name |-> cur, sha |-> local[cur].meta]
                        ELSE latest

\* publish_checkpoint: the checkpoint, its sidecar and then latest.json; k of
\* the three writes succeed.
PublishWrites(k) ==
  /\ remote' = [remote EXCEPT
       ![cur] = [data |-> IF k > 0 THEN local[cur].data ELSE @.data,
                 meta |-> IF k > 1 THEN local[cur].meta ELSE @.meta]]
  /\ latest' = IF k > 2 THEN [name |-> cur, sha |-> local[cur].meta]
                        ELSE latest

\* SB3 goes on to the rest of its sync hook; MJX to the next archive.
Publish ==
  /\ pc = "publish"
  /\ PublishWrites(3)
  /\ IF trainer = "mjx" /\ cur.kind = "step"
     THEN LET n == MJXName(cur.step + 1)
          IN /\ local' = Saved(local, n, Fresh(n))
             /\ cur' = n
             /\ pc' = "publish"
     ELSE /\ pc' = IF trainer = "sb3" THEN "report"
                   ELSE IF cur = Initial THEN "playground" ELSE "sync"
          /\ UNCHANGED <<local, cur>>
  /\ UNCHANGED <<trainer, launches, mode, resume, want, exit, at, made, picked,
                 out, manifest, status, api>>

PublishStops ==
  /\ pc = "publish"
  /\ \E k \in 0..2 : PublishWrites(k)
  /\ \/ Failed("storage")
     \/ Ended("killed") /\ UNCHANGED status
  /\ UNCHANGED <<trainer, launches, out, manifest, api>>

\* Retention in the run tree: the Keep newest periodic checkpoints.
Pruned(dir) ==
  LET periodic == {n \in Names : n.kind = "step" /\ dir[n].data # None}
      newer(n) == {m \in periodic : m.step > n.step}
  IN [n \in Names |->
        IF Keep > 0 /\ n \in periodic /\ Cardinality(newer(n)) >= Keep
        THEN NoFile ELSE dir[n]]

\* The rest of SB3's hook (the other artifacts and the status), and what the
\* caller of the hook does next.
Report ==
  /\ pc = "report"
  /\ status' = "training"
  /\ out' = [a \in Artifacts |-> IF made[a] # None THEN made[a] ELSE out[a]]
  /\ IF cur.kind = "interrupted"
     THEN Ended("interrupted")
     ELSE /\ local' = IF cur.kind = "step" THEN Pruned(local) ELSE local
          /\ cur' = None
          /\ pc' = IF cur.kind = "step" THEN "learn" ELSE "sync"
          /\ UNCHANGED <<mode, resume, want, exit, at, made, picked>>
  /\ UNCHANGED <<trainer, launches, remote, latest, manifest, api>>

-----------------------------------------------------------------------------
(***************************************************************************)
(* sync_tree uploads every file, goes on past one that fails, and raises at *)
(* the end if one did.                                                      *)
(***************************************************************************)
StaleFiles == {f \in Names \X {"data", "meta"} :
                 /\ local[f[1]][f[2]] # None
                 /\ local[f[1]][f[2]] # remote[f[1]][f[2]]}

StaleArtifacts(arts) == {a \in Artifacts : arts[a] # None /\ arts[a] # out[a]}

\* The files F and the artifacts A of the run tree arrive in the store.
Upload(F, A, arts) ==
  /\ remote' = [n \in Names |->
       [data |-> IF <<n, "data">> \in F THEN local[n].data ELSE remote[n].data,
        meta |-> IF <<n, "meta">> \in F THEN local[n].meta ELSE remote[n].meta]]
  /\ out' = [a \in Artifacts |-> IF a \in A THEN arts[a] ELSE out[a]]
  /\ UNCHANGED <<latest, manifest>>

\* A failed upload is an exception when the files are required.
SyncGoesOn == /\ pc' = "declare"                                  \* mutant
              /\ UNCHANGED <<mode, resume, want, exit, cur, at, local, made,
                             picked>>
SyncRaises == \E why \in {"storage", "killed"} : Ended(why)

UploadAll(arts) == Upload(StaleFiles, StaleArtifacts(arts), arts)

\* Some file failed, or the container was killed on the way.
UploadPart(arts) ==
  \E F \in SUBSET StaleFiles, A \in SUBSET StaleArtifacts(arts) :
    /\ <<F, A>> # <<StaleFiles, StaleArtifacts(arts)>>
    /\ Upload(F, A, arts)

SyncTrained == /\ pc = "sync"
               /\ UploadAll(made)
               /\ pc' = "trained"
               /\ UNCHANGED <<trainer, launches, mode, resume, want, exit, cur,
                              at, local, made, picked, status, api>>

SyncTrainedStops == /\ pc = "sync"
                    /\ UploadPart(made)
                    /\ \/ Failed("storage")
                       \/ Ended("killed") /\ UNCHANGED status
                    /\ UNCHANGED <<trainer, launches, api>>

\* A hosted job goes on with finalization in the same run tree.
HostedGoesOn == IF mode = "hosted"
                THEN /\ pc' = "download"
                     /\ UNCHANGED <<mode, resume, want, exit, cur, at, local,
                                    made, picked>>
                ELSE Ended("ok")

\* The trainer's last writes: the manifest of what there is, and the status.
Trained == /\ pc = "trained"
           /\ manifest' = IF made = Nothing THEN manifest ELSE made
           /\ status' = "training"
           /\ HostedGoesOn
           /\ UNCHANGED <<trainer, launches, remote, latest, out, api>>

-----------------------------------------------------------------------------
(***************************************************************************)
(* Finalization.  Nothing catches its exceptions: a failure writes no       *)
(* status.                                                                  *)
(***************************************************************************)
Product(n) == [of |-> local[n].data, by |-> launches]

\* download_tree: the objects of the store replace the files of the tree, those
\* of an earlier finalization's report too, but not its bundle and its videos.
Download ==
  /\ pc = "download"
  /\ local' = [n \in Names |->
       [data |-> IF remote[n].data # None THEN remote[n].data
                                          ELSE local[n].data,
        meta |-> IF remote[n].meta # None THEN remote[n].meta
                                          ELSE local[n].meta]]
  /\ made' = [a \in Artifacts |->
       IF a \in {"final_policy", "metrics", "resolved_config"} /\ out[a] # None
       THEN out[a] ELSE made[a]]
  /\ pc' = "select"
  /\ UNCHANGED <<trainer, launches, mode, resume, want, exit, cur, at, picked,
                 store, api>>

\* The checkpoints of the progression and the selected one.
Select ==
  /\ pc = "select"
  /\ IF Listed(local) = {} \/ (want # None /\ ~ResolvesUniquely(local, want))
     THEN /\ Ended("error") /\ UNCHANGED status
     ELSE LET p == Progression(local)
          IN /\ picked' = [initial |-> p.initial, quarter |-> p.quarter,
                           final |-> p.final,
                           selected |->
                             IF want = None THEN p.final
                             ELSE CHOOSE n \in ByDigest(local, want) : TRUE]
             /\ status' = "rendering"
             /\ pc' = "render"
             /\ UNCHANGED <<mode, resume, want, exit, cur, at, local, made>>
  /\ StatusOnly

Attested(n) == Loadable(local, n)

PublicLastStep == picked.final                                    \* mutant
PublicFinal == picked.selected

\* Each rollout, attested by checkpoint_inventory; the public final video is
\* the selected checkpoint's.
Render ==
  /\ pc = "render"
  /\ IF \A f \in DOMAIN picked : Attested(picked[f])
     THEN /\ made' = [made EXCEPT
               !["video_untrained"] = Product(picked.initial),
               !["video_mid"] = Product(picked.quarter),
               !["video_final"] = Product(PublicFinal),
               !["video_final_step"] = Product(picked.final)]
          /\ status' = "evaluating"
          /\ pc' = "evaluate"
          /\ UNCHANGED <<mode, resume, want, exit, cur, at, local, picked>>
     ELSE Ended("error") /\ UNCHANGED status
  /\ StatusOnly

\* evaluate() writes the metrics of the selected checkpoint and syncs.
Evaluated == [made EXCEPT !["metrics"] = Product(picked.selected)]

Evaluate ==
  /\ pc = "evaluate"
  /\ made' = Evaluated
  /\ UploadAll(Evaluated)
  /\ pc' = "package"
  /\ UNCHANGED <<trainer, launches, mode, resume, want, exit, cur, at, local,
                 picked, status, api>>

EvaluateStops == /\ pc = "evaluate"
                 /\ UploadPart(Evaluated)
                 /\ SyncRaises
                 /\ UNCHANGED <<trainer, launches, status, api>>

Make(written) ==
  made' = [a \in Artifacts |-> IF a \in written THEN Product(picked.selected)
                                               ELSE made[a]]
Bundled == {"resolved_config", "bundle"}

\* The metrics are extended and the alias final.zip written; the bundle and the
\* configuration it resolves only if a gallery example is given, which
\* hosted_sb3.py requires and the others leave open.
Package ==
  /\ pc = "package"
  /\ \/ Make({"metrics", "final_policy"} \cup Bundled)
     \/ Make({"metrics", "final_policy"}) /\ (mode = "hosted" => trainer = "mjx")
  /\ pc' = "upload"
  /\ UNCHANGED <<trainer, launches, mode, resume, want, exit, cur, at, local,
                 picked, store, api>>

UploadFinal == /\ pc = "upload"
               /\ UploadAll(made)
               /\ pc' = "declare"
               /\ UNCHANGED <<trainer, launches, mode, resume, want, exit, cur,
                              at, local, made, picked, status, api>>

UploadFinalStops == /\ pc = "upload"
                    /\ UploadPart(made)
                    /\ SyncRaises
                    /\ UNCHANGED <<trainer, launches, status, api>>

\* write_manifest declares the digests of the files of the run tree.
Declare == /\ pc = "declare"
           /\ manifest' = made
           /\ pc' = "complete"
           /\ UNCHANGED <<trainer, launches, mode, resume, want, exit, cur, at,
                          local, made, picked, remote, latest, out, status,
                          api>>

Complete == /\ pc = "complete"
            /\ status' = "completed"
            /\ Ended("ok")
            /\ StatusOnly

\* A store operation fails; rendering, evaluation or packaging raises.
FinalizationFails ==
  /\ \/ /\ pc \in {"download", "select", "render", "declare", "complete"}
        /\ Ended("storage")
     \/ /\ pc \in {"render", "evaluate", "package"}
        /\ Ended("error")
  /\ UNCHANGED <<trainer, launches, store, api>>

\* A hosted MJX job gives its finalization a time limit.
FinalizationTimeout ==
  /\ pc \in Finalizing /\ mode = "hosted" /\ trainer = "mjx"
  /\ Ended("error")
  /\ UNCHANGED <<trainer, launches, store, api>>

Killed == /\ pc # "idle"
          /\ Ended("killed")
          /\ UNCHANGED <<trainer, launches, store, api>>
-----------------------------------------------------------------------------
Next == \/ \E m \in {"train", "hosted"}, r \in {"fresh", "remote", "named"} :
             Train(m, r)
        \/ \E d \in {None} \cup {remote[n].data : n \in Names} : Finalize(d)
        \/ ApiRequest \/ ApiAnnounce \/ ApiSubmit \/ ApiConfirm \/ ApiDies
        \/ NotAttested \/ ResumeLatest \/ ResumeNamed \/ ResumeUnavailable
        \/ Begin \/ LoadFreshSB3 \/ LoadResumedSB3 \/ LoadMJX
        \/ Learn \/ Interrupt \/ Playground
        \/ Publish \/ PublishStops \/ Report
        \/ SyncTrained \/ SyncTrainedStops \/ Trained \/ TrainingFails
        \/ Download \/ Select \/ Render \/ Evaluate \/ EvaluateStops
        \/ Package \/ UploadFinal \/ UploadFinalStops \/ Declare \/ Complete
        \/ FinalizationFails \/ FinalizationTimeout \/ Killed

Spec == Init /\ [][Next]_vars
-----------------------------------------------------------------------------
\* A run the store calls completed is whole: its manifest is there, and every
\* object it declares is stored with the declared digest, whatever container
\* was killed or failed in the middle of whichever upload, and however often
\* the run was resumed or finalized again.
CompletedIsWhole ==
  status = "completed" =>
    /\ manifest # None
    /\ \A a \in Artifacts : manifest[a] # None => out[a] = manifest[a]

\* The public artifacts of a completed run are those of one checkpoint, the
\* selected one: the final video, the evaluation, the exported policy and, if
\* the run declares a bundle, that and its configuration never mix two
\* finalizations or the selected with the last step, whose own video stays
\* beside it so that a regression remains visible.  A bundle that an earlier
\* finalization left in the store is not declared by one that makes none.
SelectedIsPublic ==
  status = "completed" =>
    /\ \E n \in Listed(remote) :
         \A a \in {"video_final", "metrics", "final_policy"} \cup
                  {b \in Bundled : manifest["bundle"] # None} :
           out[a] # None /\ out[a].of = remote[n].data
    /\ out["video_final_step"].of
         = remote[Progression(remote).final].data

\* All that a completed run declares was made by one finalization.
\* Expected, and not what the code does (README, section 3).
DeclaredIsOfOneFinalization ==
  status = "completed" =>
    \A a, b \in Artifacts : manifest[a] # None /\ manifest[b] # None =>
                             manifest[a].by = manifest[b].by

\* latest.json names a checkpoint that can be restored: the object it names
\* has the digest it declares, and so has the sidecar.
LatestIsRestorable ==
  latest # None => /\ remote[latest.name].data = latest.sha
                   /\ remote[latest.name].meta = latest.sha

\* The part of it the code keeps: for SB3, unless the name is an interrupted
\* checkpoint, which a run resumed from it can write again.
SB3LatestIsRestorable ==
  trainer = "sb3" /\ latest # None /\ latest.name.kind # "interrupted" =>
    LatestIsRestorable

\* An SB3 run never loses progress once published: latest.json never goes back
\* to an earlier step, whatever is killed, resumed or finalized.
SB3LatestNeverRegresses ==
  [][trainer = "sb3" /\ latest # None => /\ latest' # None
                                         /\ latest'.name.step
                                              >= latest.name.step]_vars

\* An error in any phase is recorded: a container that has ended with one does
\* not leave the run rendering or evaluating for ever.
\* Claimed, and not what the code does (README, section 3).
FailureIsRecorded == exit = "error" => status \notin {"rendering", "evaluating"}

\* A terminal status lasts until another container is launched.
\* Claimed, and not what the code does (README, section 3).
TerminalStatusStays ==
  [][launches' = launches /\ status \in {"completed", "failed"} =>
       status' = status]_vars
=============================================================================
