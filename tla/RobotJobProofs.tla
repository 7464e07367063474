--------------------------- MODULE RobotJobProofs ---------------------------
(***************************************************************************)
(* Proofs about RobotJob, for any robot, setup, releases, deployments,      *)
(* motions, training profile and cadences.                                  *)
(***************************************************************************)
EXTENDS RobotJob, FiniteSetTheorems, WellFoundedInduction, TLAPS

All == {Phases[i] : i \in DOMAIN Phases}
Names == {"robot", "setup", "manifest"}
Probing == {"phases", "probe", "report"}
Training == {"start", "learn", "checkpoint", "evaluate", "progress", "artifacts",
             "manifest"}

Inputs(kind) == bucket[kind].inputs
Report == bucket["prepare"].report
Listed == bucket["train"].manifest

Rows ==
  /\ attempt = [state |-> attempt.state, phase |-> attempt.phase,
                fingerprint |-> attempt.fingerprint]
  /\ run = [state |-> run.state, phase |-> run.phase,
            fingerprint |-> run.fingerprint]
  /\ writer = [kind |-> writer.kind, member |-> writer.member,
               documents |-> writer.documents]
  /\ writer.kind # None => writer.member # 0

(* The fields of the objects under one prefix.                              *)
IsFolder(p) ==
  /\ p = [inputs |-> p.inputs, probe |-> p.probe, report |-> p.report,
          status |-> p.status, progress |-> p.progress,
          checkpoints |-> p.checkpoints, artifacts |-> p.artifacts,
          manifest |-> p.manifest]
  /\ p.inputs = [n \in Names |-> p.inputs[n]]
  /\ p.artifacts = [a \in ArtifactNames |-> p.artifacts[a]]

Objects == /\ bucket = [kind \in Kinds |-> bucket[kind]]
           /\ \A kind \in Kinds : IsFolder(bucket[kind])

(* The fields of a container.                                               *)
IsBox(b) ==
  b = [mode |-> b.mode, provider |-> b.provider, pc |-> b.pc, own |-> b.own,
       documents |-> b.documents, phase |-> b.phase, refused |-> b.refused,
       step |-> b.step, nextCheckpoint |-> b.nextCheckpoint,
       nextEvaluation |-> b.nextEvaluation, best |-> b.best,
       evaluations |-> b.evaluations, metrics |-> b.metrics, put |-> b.put]

BoxFields == IsBox(box)

Types == TypeOK /\ Rows /\ Objects /\ BoxFields

(* Who may still write: the request of a job, until its container is there. *)
Requests ==
  /\ writer.kind = None => writer = Idle
  /\ attempt.state = "none" =>
       /\ writer = Idle /\ box = NoBox /\ proven = {} /\ run.state = "none"
       /\ Report = None
  /\ writer.kind = "prepare" =>
       /\ attempt.state = "queued" /\ run.state = "none"
       /\ box = NoBox /\ proven = {} /\ Report = None
       /\ writer.documents.robot = Robot /\ writer.documents.setup = Setup
  /\ writer.kind = "train" =>
       /\ attempt.state = "accepted" /\ run.state = "queued" /\ box.mode # "train"
       /\ writer.documents.robot = Robot /\ writer.documents.setup = Setup
       /\ writer.documents.manifest.fingerprint = attempt.fingerprint
  /\ run.state # "none" =>
       attempt.state = "accepted" /\ run.fingerprint = attempt.fingerprint
  /\ box.mode = "train" => run.state \notin {"none", "queued"}

(* Documents are of the robot and setup; those of a training say what was   *)
(* accepted; a container past their validation has the ones in the bucket.  *)
Documents ==
  /\ \A kind \in Kinds : /\ Inputs(kind)["robot"] \in {None, Robot}
                         /\ Inputs(kind)["setup"] \in {None, Setup}
  /\ Inputs("train")["manifest"] # None =>
       /\ attempt.state = "accepted"
       /\ Inputs("train")["manifest"].fingerprint = attempt.fingerprint
  /\ box.documents # None \/ box.pc \in Probing \cup Training =>
       /\ box.mode \in Kinds
       /\ box.documents = Inputs(box.mode)
       /\ \A n \in Names : Inputs(box.mode)[n] # None

(* A report says accepted only after every phase, on the inputs it names.   *)
ReportInv ==
  Report # None =>
    /\ Report.status \in {"accepted", "failed"}
    /\ Report.status = "accepted" => proven = All
    /\ Report.fingerprint = Inputs("prepare")["manifest"].fingerprint
    /\ \A n \in Names : Inputs("prepare")[n] # None

(* A container that prepares has proven the phases it went through, and one *)
(* that ended is gone.                                                      *)
Preparing ==
  /\ box.mode = None => box = NoBox
  /\ box.provider # "running" => box.pc = "gone"
  /\ box.pc \in {"gone", "load"} \cup Probing \cup Training
  /\ box.pc \in Probing => box.mode = "prepare"
  /\ box.pc = "load" => box.refused = None /\ box.phase = 0
                        /\ (box.mode = "prepare" => proven = {})
  /\ box.pc = "phases" =>
       /\ box.refused = None /\ box.phase < Len(Phases)
       /\ proven = {Phases[i] : i \in 1..box.phase}
  /\ box.pc \in {"probe", "report"} /\ box.refused = None => proven = All
  /\ ReportInv
  /\ attempt.state = "accepted" =>
       /\ Report # None /\ Report.status = "accepted"
       /\ Report.fingerprint = attempt.fingerprint
       /\ box.mode = "prepare" => box.pc = "gone"

(* Artifacts are put in their order, with the bytes of one set of metrics,  *)
(* and listed when all are there.                                           *)
Publishing ==
  /\ box.pc \in Training => box.mode = "train"
  /\ box.mode # "train" => Listed = None
  /\ box.pc # "gone" => Listed = None
  /\ box.pc \in {"load"} \cup (Training \ {"artifacts", "manifest"}) => box.put = 0
  /\ box.pc \in {"artifacts", "manifest"} =>
       \A i \in 1..box.put :
         bucket["train"].artifacts[Artifacts[i]] = ArtifactBytes(box)[Artifacts[i]]
  /\ box.pc = "manifest" => box.put = Len(Artifacts)
                            /\ bucket["train"].status = "completed"
  /\ ListedIsWhole

IInv == Types /\ Requests /\ Documents /\ Preparing /\ Publishing

USE DEF vars

-----------------------------------------------------------------------------
(* How many phases, artifacts and members there are.                        *)
LEMMA Lengths3 ==
  /\ Len(Phases) = 5 /\ DOMAIN Phases = 1..5
  /\ Len(Artifacts) = 11 /\ DOMAIN Artifacts = 1..11
  /\ Len(Members) = 3 /\ \A i \in 1..3 : Members[i] \in Names
<1>1. Len(Phases) = 5 /\ DOMAIN Phases = 1..5
  BY DEF Phases
<1>2. Len(Artifacts) = 11 /\ DOMAIN Artifacts = 1..11
  BY DEF Artifacts
<1>3. Len(Members) = 3 /\ Members[1] = "robot" /\ Members[2] = "setup"
      /\ Members[3] = "manifest"
  BY DEF Members
<1>4. \A i \in 1..3 : Members[i] \in Names
  BY <1>3 DEF Names
<1> QED BY <1>1, <1>2, <1>3, <1>4

(* The two kinds of job, and none.                                          *)
LEMMA KindsAreNot ==
  None \notin Kinds /\ "prepare" # "train" /\ Kinds = {"prepare", "train"}
  BY NoneAssumption DEF Kinds

(* A training has at least no steps.                                        *)
LEMMA StepBounds == LearnEnds \in Nat /\ 0 \in Steps
<1>1. LearnEnds \in Nat
  BY ProfileAssumption DEF LearnEnds, Rollouts
<1> QED BY <1>1 DEF Steps

(* Nothing is there at the start.                                           *)
LEMMA InitInv == Init => IInv
<1> SUFFICES ASSUME Init PROVE IInv
  OBVIOUS
<1>1. /\ attempt = NoRow /\ run = NoRow /\ writer = Idle /\ box = NoBox
      /\ bucket = [kind \in Kinds |-> EmptyPrefix] /\ proven = {}
      /\ deployed \in Deployments /\ deploys = 0
  BY DEF Init
<1>3. TypeOK
  <2>1. deploys \in 0..MaxDeploys
    BY <1>1, ProfileAssumption
  <2>2. /\ \A row \in {attempt, run} : row.state = "none"
        /\ writer.kind = None /\ writer.member \in 0..(Len(Members) + 1)
    BY <1>1, Lengths3 DEF NoRow, Idle
  <2>3. /\ box.mode = None /\ box.provider = "none" /\ box.step \in Steps
        /\ box.phase \in 0..Len(Phases) /\ box.put \in 0..Len(Artifacts)
    BY <1>1, Lengths3, StepBounds DEF NoBox
  <2>4. DOMAIN bucket["train"].checkpoints \subseteq Steps
    BY <1>1 DEF EmptyPrefix, Kinds
  <2> QED BY <1>1, <2>1, <2>2, <2>3, <2>4 DEF TypeOK
<1>4. Rows /\ BoxFields
  BY <1>1 DEF Rows, BoxFields, IsBox, NoRow, Idle, NoBox
<1>5. Objects
  <2>1. \A kind \in Kinds : bucket[kind] = EmptyPrefix
    BY <1>1
  <2>2. EmptyPrefix.inputs = [n \in Names |-> EmptyPrefix.inputs[n]]
    BY DEF EmptyPrefix, Names
  <2>3. IsFolder(EmptyPrefix)
    BY <2>2 DEF IsFolder, EmptyPrefix
  <2> QED BY <1>1, <2>1, <2>3 DEF Objects
<1>6. Requests
  BY <1>1, NoneAssumption
     DEF Requests, NoRow, Idle, NoBox, EmptyPrefix, Kinds, Report
<1>7. Documents
  BY <1>1, NoneAssumption
     DEF Documents, NoBox, EmptyPrefix, Kinds, Inputs, Probing,
       Training
<1>8. Preparing
  BY <1>1, NoneAssumption
     DEF Preparing, ReportInv, NoBox, NoRow, EmptyPrefix, Kinds, Report, Probing
<1>9. Publishing
  BY <1>1
     DEF Publishing, NoBox, EmptyPrefix, Kinds, Listed, Training, ListedIsWhole
<1> QED BY <1>3, <1>4, <1>5, <1>6, <1>7, <1>8, <1>9 DEF IInv, Types

-----------------------------------------------------------------------------
(* A step that changes rows and the writer alone.                           *)
RowTypes ==
  /\ \A row \in {attempt, run} :
       row.state \in {"none", "queued", "submitted", "accepted", "completed", "failed"}
  /\ writer.kind \in Kinds \cup {None} /\ writer.member \in 0..(Len(Members) + 1)

(* Types when rows and the writer alone have changed.                       *)
LEMMA RowFrame ==
  ASSUME Types, UNCHANGED <<deployed, deploys, bucket, box, proven>>,
         Rows', RowTypes'
  PROVE  Types'
<1>1. TypeOK'
  BY DEF Types, TypeOK, RowTypes
<1>2. Objects' /\ BoxFields'
  BY DEF Types, Objects, BoxFields, IsBox, Inputs
<1> QED BY <1>1, <1>2 DEF Types

(* A deployment changes what later requests are built with, and nothing     *)
(* else.                                                                    *)
LEMMA DeployInv ==
  ASSUME IInv, NEW d \in Deployments, Deploy(d)
  PROVE  IInv'
<1>1. /\ deploys < MaxDeploys /\ deployed' = d /\ deploys' = deploys + 1
      /\ UNCHANGED <<attempt, run, writer, bucket, box, proven>>
  BY DEF Deploy
<1>2. deploys' \in 0..MaxDeploys
  BY <1>1, ProfileAssumption DEF IInv, Types, TypeOK
<1>3. TypeOK'
  BY <1>1, <1>2 DEF IInv, Types, TypeOK
<1>4. Rows' /\ Objects' /\ BoxFields'
  BY <1>1 DEF IInv, Types, Rows, Objects, BoxFields, IsBox, Inputs
<1>5. Requests' /\ Documents'
  BY <1>1 DEF IInv, Requests, Documents, Inputs, Report
<1>6. Preparing' /\ Publishing'
  BY <1>1
     DEF IInv, Preparing, ReportInv, Publishing, ListedIsWhole, Listed, Report,
          Inputs
<1> QED BY <1>3, <1>4, <1>5, <1>6 DEF IInv, Types

(* The request of a preparation opens its row and its writer.               *)
LEMMA PrepareInv ==
  ASSUME IInv, Prepare
  PROVE  IInv'
<1>1. /\ attempt.state = "none"
      /\ attempt' = [state |-> "queued", phase |-> "queued", fingerprint |-> Current]
      /\ writer' = [kind |-> "prepare", member |-> 1,
                    documents |-> build_input_documents(deployed.image, deployed.release)]
      /\ UNCHANGED <<deployed, deploys, box, proven, run, bucket>>
  BY DEF Prepare, BackendOnly
<1>2. Rows' /\ RowTypes'
  <2>1. Rows'
    BY <1>1 DEF IInv, Types, Rows
  <2>2. 1 \in 0..(Len(Members) + 1) /\ run.state \in {"none", "queued", "submitted",
          "accepted", "completed", "failed"}
    BY Lengths3 DEF IInv, Types, TypeOK
  <2> QED BY <1>1, <2>1, <2>2 DEF RowTypes, Kinds
<1>3. Types'
  BY <1>1, <1>2, RowFrame DEF IInv
<1>4. /\ box = NoBox /\ proven = {} /\ run.state = "none" /\ Report = None
      /\ box.mode = None
  BY <1>1 DEF IInv, Requests, NoBox
<1>5. /\ writer'.kind = "prepare" /\ attempt'.state = "queued"
      /\ writer'.documents.robot = Robot /\ writer'.documents.setup = Setup
  BY <1>1 DEF build_input_documents
<1>6. Requests'
  BY <1>1, <1>4, <1>5, KindsAreNot DEF Requests, Report
<1>7. Inputs("train")["manifest"] = None
  BY <1>1 DEF IInv, Documents
<1>8. Documents'
  BY <1>1, <1>7 DEF IInv, Documents, Inputs
<1>9. Preparing' /\ Publishing'
  BY <1>1, <1>5
     DEF IInv, Preparing, ReportInv, Publishing, ListedIsWhole, Listed, Report,
          Inputs
<1> QED BY <1>3, <1>6, <1>8, <1>9 DEF IInv

(* The request of a training is built for the fingerprint that was          *)
(* accepted.                                                                *)
LEMMA StartTrainingInv ==
  ASSUME IInv, StartTraining
  PROVE  IInv'
<1>1. /\ run.state = "none" /\ attempt.state = "accepted"
      /\ attempt.fingerprint = Current
      /\ run' = [state |-> "queued", phase |-> "queued", fingerprint |-> Current]
      /\ writer' = [kind |-> "train", member |-> 1,
                    documents |-> build_input_documents(deployed.image, deployed.release)]
      /\ UNCHANGED <<deployed, deploys, box, proven, attempt, bucket>>
  BY DEF StartTraining, BackendOnly, MayStart
<1>2. Rows' /\ RowTypes'
  <2>1. Rows'
    BY <1>1 DEF IInv, Types, Rows
  <2>2. 1 \in 0..(Len(Members) + 1)
    BY Lengths3
  <2> QED BY <1>1, <2>1, <2>2 DEF RowTypes, Kinds
<1>3. Types'
  BY <1>1, <1>2, RowFrame DEF IInv
<1>4. /\ writer'.kind = "train" /\ run'.state = "queued"
      /\ run'.fingerprint = attempt.fingerprint
      /\ writer'.documents.robot = Robot /\ writer'.documents.setup = Setup
      /\ writer'.documents.manifest.fingerprint = attempt.fingerprint
  BY <1>1 DEF build_input_documents, Current
<1>5. box.mode # "train"
  BY <1>1 DEF IInv, Requests
<1>6. Requests'
  BY <1>1, <1>4, <1>5, KindsAreNot DEF Requests, Report
<1>7. Documents'
  BY <1>1 DEF IInv, Documents, Inputs
<1>8. Preparing'
  BY <1>1 DEF IInv, Preparing, ReportInv, Report, Inputs
<1>9. Publishing'
  <2>1. Listed = None
    BY <1>5 DEF IInv, Publishing
  <2> QED BY <1>1, <2>1 DEF IInv, Publishing, ListedIsWhole, Listed
<1> QED BY <1>3, <1>6, <1>7, <1>8, <1>9 DEF IInv

-----------------------------------------------------------------------------
(* The states in which a row of either kind may be closed: a poller's.      *)
LEMMA ClosedRow ==
  ASSUME IInv, NEW kind \in Kinds, NEW state \in {"accepted", "completed", "failed"},
         NEW phase, Polling(kind), SetRow(kind, state, phase),
         kind = "prepare" =>
           state # "completed"
           /\ (state = "accepted" => /\ Report # None /\ Report.status = "accepted"
                                     /\ Report.fingerprint = attempt.fingerprint
                                     /\ box.pc = "gone"),
         UNCHANGED <<deployed, deploys, bucket, box, proven, writer>>
  PROVE  IInv'
<1>1. CASE kind = "prepare"
  <2>1. /\ attempt.state = "submitted" /\ box.mode = "prepare" /\ run' = run
        /\ attempt' = [attempt EXCEPT !.state = state, !.phase = phase]
    BY <1>1 DEF Polling, SetRow, Row
  <2>2. /\ attempt'.state = state /\ attempt'.fingerprint = attempt.fingerprint
        /\ attempt' = [state |-> attempt'.state, phase |-> attempt'.phase,
                       fingerprint |-> attempt'.fingerprint]
    BY <2>1 DEF IInv, Types, Rows
  <2>3. run.state = "none" /\ writer.kind \notin Kinds
    BY <2>1 DEF IInv, Requests, Kinds
  <2>4. Rows' /\ RowTypes'
    BY <2>1, <2>2 DEF IInv, Types, TypeOK, Rows, RowTypes
  <2>5. Types'
    BY <2>4, RowFrame DEF IInv
  <2>6. Requests'
    BY <2>1, <2>2, <2>3 DEF IInv, Requests, Kinds, Report
  <2>7. Documents'
    BY <2>1, <2>2 DEF IInv, Documents, Inputs
  <2>8. Preparing'
    BY <1>1, <2>1, <2>2 DEF IInv, Preparing, ReportInv, Report, Inputs
  <2>9. Publishing'
    BY <2>1 DEF IInv, Publishing, ListedIsWhole, Listed
  <2> QED BY <2>5, <2>6, <2>7, <2>8, <2>9 DEF IInv
<1>2. CASE kind = "train"
  <2>1. /\ run.state = "submitted" /\ box.mode = "train" /\ attempt' = attempt
        /\ run' = [run EXCEPT !.state = state, !.phase = phase]
    BY <1>2 DEF Polling, SetRow, Row
  <2>2. /\ run'.state = state /\ run'.fingerprint = run.fingerprint
        /\ run' = [state |-> run'.state, phase |-> run'.phase,
                   fingerprint |-> run'.fingerprint]
    BY <2>1 DEF IInv, Types, Rows
  <2>3. Rows' /\ RowTypes'
    BY <2>1, <2>2 DEF IInv, Types, TypeOK, Rows, RowTypes
  <2>4. Types'
    BY <2>3, RowFrame DEF IInv
  <2>5. Requests'
    BY <2>1, <2>2 DEF IInv, Requests, Report
  <2>6. Documents'
    BY <2>1 DEF IInv, Documents, Inputs
  <2>7. Preparing'
    BY <2>1 DEF IInv, Preparing, ReportInv, Report, Inputs
  <2>8. Publishing'
    BY <2>1, <2>2 DEF IInv, Publishing, ListedIsWhole, Listed
  <2> QED BY <2>4, <2>5, <2>6, <2>7, <2>8 DEF IInv
<1> QED BY <1>1, <1>2 DEF Kinds

(* A failed or late job is closed.                                          *)
LEMMA PollFailedInv ==
  ASSUME IInv, NEW kind \in Kinds, PollFailed(kind) \/ PollDeadline(kind)
  PROVE  IInv'
<1>1. /\ Polling(kind) /\ UNCHANGED <<deployed, deploys, box, proven, writer, bucket>>
      /\ SetRow(kind, "failed", "execution") \/ SetRow(kind, "failed", "deadline")
  BY DEF PollFailed, PollDeadline, BackendOnly
<1> QED BY <1>1, ClosedRow

(* An outcome is taken from the report of this row's inputs, or none is.    *)
LEMMA FinalizePreparationInv ==
  ASSUME IInv, FinalizePreparation
  PROVE  IInv'
<1>1. /\ Polling("prepare") /\ box.provider = "completed" /\ "prepare" \in Kinds
      /\ UNCHANGED <<deployed, deploys, box, proven, writer, bucket>>
  BY DEF FinalizePreparation, BackendOnly, Kinds
<1>2. box.pc = "gone"
  BY <1>1 DEF IInv, Preparing, ReportInv
<1>3. CASE SetRow("prepare", "failed", "finalization")
  BY <1>1, <1>3, ClosedRow
<1>4. CASE /\ Report # None /\ Report.fingerprint = attempt.fingerprint
           /\ SetRow("prepare", Report.status, Report.failure_phase)
  <2>1. PICK state, phase : state = Report.status /\ phase = Report.failure_phase
    OBVIOUS
  <2>2. state \in {"accepted", "failed"}
    BY <1>4, <2>1 DEF IInv, Preparing, ReportInv
  <2> QED BY <1>1, <1>2, <1>4, <2>1, <2>2, ClosedRow
<1> QED BY <1>3, <1>4 DEF FinalizePreparation, read_preparation_report, Report

(* A training that completed is closed one way or the other.                *)
LEMMA FinalizeTrainingInv ==
  ASSUME IInv, FinalizeTraining
  PROVE  IInv'
<1>1. /\ Polling("train") /\ "train" \in Kinds /\ "train" # "prepare"
      /\ UNCHANGED <<deployed, deploys, box, proven, writer, bucket>>
      /\ SetRow("train", "completed", None) \/ SetRow("train", "failed", "finalization")
  BY DEF FinalizeTraining, BackendOnly, Kinds
<1> QED BY <1>1, ClosedRow

-----------------------------------------------------------------------------
(* The writer of a kind puts members of its documents, or deletes them.     *)
Written(kind, inputs) ==
  /\ inputs = [n \in Names |-> inputs[n]]
  /\ \A n \in Names : inputs[n] \in {Inputs(kind)[n], writer.documents[n], None}
  /\ bucket' = [bucket EXCEPT ![kind].inputs = inputs]

(* What a writer writes, and that no container works on its job.            *)
LEMMA WriterOf ==
  ASSUME IInv, writer # Idle
  PROVE  /\ writer.kind \in Kinds
         /\ writer.documents["robot"] = Robot /\ writer.documents["setup"] = Setup
         /\ writer.kind = "train" =>
              writer.documents["manifest"].fingerprint = attempt.fingerprint
         /\ Row(writer.kind).state = "queued" /\ box.mode # writer.kind
<1>1. writer.kind \in Kinds
  BY DEF IInv, Types, TypeOK, Requests
<1>2. CASE writer.kind = "prepare"
  BY <1>2, KindsAreNot DEF IInv, Requests, Row, NoBox
<1>3. CASE writer.kind = "train"
  BY <1>3, KindsAreNot DEF IInv, Requests, Row
<1> QED BY <1>1, <1>2, <1>3 DEF Kinds

(* Writing inputs leaves every other object.                                *)
LEMMA WrittenObjects ==
  ASSUME Objects, NEW kind \in Kinds, NEW inputs, Written(kind, inputs)
  PROVE  /\ Objects'
         /\ bucket'[kind].inputs = inputs
         /\ \A k \in Kinds \ {kind} : bucket'[k] = bucket[k]
         /\ \A k \in Kinds : /\ bucket'[k].report = bucket[k].report
                             /\ bucket'[k].status = bucket[k].status
                             /\ bucket'[k].artifacts = bucket[k].artifacts
                             /\ bucket'[k].manifest = bucket[k].manifest
                             /\ bucket'[k].checkpoints = bucket[k].checkpoints
<1>1. /\ bucket' = [bucket EXCEPT ![kind] = [bucket[kind] EXCEPT !.inputs = inputs]]
      /\ inputs = [n \in Names |-> inputs[n]] /\ IsFolder(bucket[kind])
  BY DEF Written, Objects
<1>2. PICK p : p = [bucket[kind] EXCEPT !.inputs = inputs]
  OBVIOUS
<1>3. /\ IsFolder(p) /\ p.inputs = inputs /\ p.report = bucket[kind].report
      /\ p.status = bucket[kind].status /\ p.artifacts = bucket[kind].artifacts
      /\ p.manifest = bucket[kind].manifest /\ p.checkpoints = bucket[kind].checkpoints
  BY <1>1, <1>2 DEF IsFolder
<1>4. /\ bucket' = [k \in Kinds |-> bucket'[k]] /\ bucket'[kind] = p
      /\ \A k \in Kinds \ {kind} : bucket'[k] = bucket[k]
  BY <1>1, <1>2 DEF Objects
<1>5. Objects'
  BY <1>3, <1>4 DEF Objects
<1> QED BY <1>3, <1>4, <1>5

(* Writing inputs touches no job that a container works on.                 *)
LEMMA WrittenInv ==
  ASSUME IInv, writer # Idle, NEW inputs, NEW phase, Written(writer.kind, inputs),
         UNCHANGED <<deployed, deploys, box, proven>>, Rows', RowTypes',
         \/ UNCHANGED <<attempt, run>> /\ writer'.kind = writer.kind
            /\ writer'.documents = writer.documents
         \/ SetRow(writer.kind, "failed", phase) /\ writer' = Idle
  PROVE  IInv'
<1>1. PICK kind \in Kinds : kind = writer.kind
  BY WriterOf
<1>2. /\ Objects' /\ bucket'[kind].inputs = inputs
      /\ \A k \in Kinds \ {kind} : bucket'[k] = bucket[k]
      /\ \A k \in Kinds : /\ bucket'[k].report = bucket[k].report
                          /\ bucket'[k].status = bucket[k].status
                          /\ bucket'[k].artifacts = bucket[k].artifacts
                          /\ bucket'[k].manifest = bucket[k].manifest
                          /\ bucket'[k].checkpoints = bucket[k].checkpoints
  BY <1>1, WrittenObjects DEF IInv, Types
<1>3. Types'
  <2>1. TypeOK' /\ BoxFields'
    BY <1>2 DEF IInv, Types, TypeOK, RowTypes, BoxFields, IsBox, Kinds
  <2> QED BY <1>2, <2>1 DEF Types
<1>4. /\ inputs["robot"] \in {None, Robot} /\ inputs["setup"] \in {None, Setup}
      /\ kind = "train" /\ inputs["manifest"] # None =>
           attempt.state = "accepted"
           /\ inputs["manifest"].fingerprint = attempt.fingerprint
  <2>1. /\ \A n \in Names : inputs[n] \in {Inputs(kind)[n], writer.documents[n], None}
        /\ writer.documents["robot"] = Robot /\ writer.documents["setup"] = Setup
        /\ kind = "train" =>
             writer.documents["manifest"].fingerprint = attempt.fingerprint
    BY <1>1, WriterOf DEF Written
  <2>2. kind = "train" => attempt.state = "accepted"
    BY <1>1 DEF IInv, Requests
  <2> QED BY <2>1, <2>2 DEF IInv, Documents, Names
<1>5. /\ box.mode # kind
      /\ kind = "prepare" => Report = None /\ attempt.state = "queued"
                             /\ run.state = "none" /\ box = NoBox /\ proven = {}
      /\ kind = "train" => attempt.state = "accepted" /\ run.state = "queued"
  BY <1>1, WriterOf DEF IInv, Requests
<1>6. CASE UNCHANGED <<attempt, run>> /\ writer'.kind = writer.kind
           /\ writer'.documents = writer.documents
  <2>1. Requests'
    BY <1>1, <1>2, <1>5, <1>6, KindsAreNot DEF IInv, Requests, Report
  <2>2. Documents'
    BY <1>2, <1>4, <1>5, <1>6, KindsAreNot DEF IInv, Documents, Inputs
  <2>3. Preparing'
    BY <1>2, <1>5, <1>6, KindsAreNot
       DEF IInv, Preparing, ReportInv, Report, Inputs
  <2>4. Publishing'
    BY <1>2, <1>6, KindsAreNot
       DEF IInv, Publishing, ListedIsWhole, Listed, Readable
  <2> QED BY <1>3, <2>1, <2>2, <2>3, <2>4 DEF IInv
<1>7. CASE SetRow(kind, "failed", phase) /\ writer' = Idle
  <2>1. CASE kind = "prepare"
    <3>1. /\ attempt' = [attempt EXCEPT !.state = "failed", !.phase = phase]
          /\ run' = run
      BY <1>7, <2>1 DEF SetRow, Row
    <3>2. attempt'.state = "failed" /\ attempt'.fingerprint = attempt.fingerprint
          /\ writer'.kind = None
      BY <1>7, <3>1 DEF IInv, Types, Rows, Idle
    <3>3. Requests'
      BY <1>2, <1>5, <1>7, <2>1, <3>1, <3>2, KindsAreNot
         DEF IInv, Requests, Report, NoBox
    <3>4. Inputs("train")["manifest"] = None
      BY <1>5, <2>1 DEF IInv, Documents
    <3>5. Documents'
      BY <1>2, <1>4, <1>5, <2>1, <3>2, <3>4, KindsAreNot
         DEF IInv, Documents, Inputs
    <3>6. Preparing'
      BY <1>2, <1>5, <2>1, <3>2, KindsAreNot
         DEF IInv, Preparing, ReportInv, Report, Inputs
    <3>7. Publishing'
      BY <1>2, <3>1, KindsAreNot
         DEF IInv, Publishing, ListedIsWhole, Listed, Readable
    <3> QED BY <1>3, <3>3, <3>5, <3>6, <3>7 DEF IInv
  <2>2. CASE kind = "train"
    <3>1. /\ run' = [run EXCEPT !.state = "failed", !.phase = phase]
          /\ attempt' = attempt
      BY <1>7, <2>2, KindsAreNot DEF SetRow, Row
    <3>2. run'.state = "failed" /\ run'.fingerprint = run.fingerprint
          /\ writer'.kind = None
      BY <1>7, <3>1 DEF IInv, Types, Rows, Idle
    <3>3. Requests'
      BY <1>2, <1>5, <1>7, <2>2, <3>1, <3>2, KindsAreNot
         DEF IInv, Requests, Report
    <3>4. Documents'
      BY <1>2, <1>4, <1>5, <2>2, <3>1, KindsAreNot DEF IInv, Documents, Inputs
    <3>5. Preparing'
      BY <1>2, <1>5, <2>2, <3>1, KindsAreNot
         DEF IInv, Preparing, ReportInv, Report, Inputs
    <3>6. Publishing'
      BY <1>2, <3>1, <3>2, KindsAreNot
         DEF IInv, Publishing, ListedIsWhole, Listed, Readable
    <3> QED BY <1>3, <3>3, <3>4, <3>5, <3>6 DEF IInv
  <2> QED BY <2>1, <2>2 DEF Kinds
<1> QED BY <1>1, <1>6, <1>7

(* Putting the next member of the inputs.                                   *)
LEMMA PutInputInv ==
  ASSUME IInv, PutInput
  PROVE  IInv'
<1>1. /\ writer # Idle /\ writer.member <= 3
      /\ LET name == Members[writer.member]
         IN  bucket' = [bucket EXCEPT ![writer.kind].inputs[name] =
                          writer.documents[name]]
      /\ writer' = [writer EXCEPT !.member = @ + 1]
      /\ UNCHANGED <<deployed, deploys, box, proven, attempt, run>>
  BY Lengths3 DEF PutInput, BackendOnly
<1>2. writer.kind \in Kinds /\ writer.member \in 1..3
  <2>1. writer.kind \in Kinds
    BY <1>1, WriterOf
  <2>2. writer.member \in 0..4 /\ writer.member # 0
    BY <2>1, Lengths3, KindsAreNot DEF IInv, Types, TypeOK, Rows
  <2> QED BY <1>1, <2>1, <2>2
<1>3. PICK name \in Names : name = Members[writer.member]
  BY <1>2, Lengths3
<1>4. PICK inputs : inputs = [Inputs(writer.kind) EXCEPT ![name] = writer.documents[name]]
  OBVIOUS
<1>5. Written(writer.kind, inputs)
  <2>1. /\ bucket = [k \in Kinds |-> bucket[k]] /\ IsFolder(bucket[writer.kind])
    BY <1>2 DEF IInv, Types, Objects
  <2>2. Inputs(writer.kind) = [n \in Names |-> Inputs(writer.kind)[n]]
    BY <2>1 DEF IsFolder, Inputs
  <2>3. bucket' = [bucket EXCEPT ![writer.kind].inputs = inputs]
    BY <1>1, <1>3, <1>4 DEF Inputs
  <2> QED BY <1>4, <2>2, <2>3 DEF Written
<1>6. /\ writer'.kind = writer.kind /\ writer'.documents = writer.documents
      /\ writer'.member = writer.member + 1
      /\ writer' = [kind |-> writer'.kind, member |-> writer'.member,
                    documents |-> writer'.documents]
  BY <1>1 DEF IInv, Types, Rows
<1>7. Rows' /\ RowTypes'
  <2>1. writer'.member \in 0..4 /\ writer'.member # 0
    BY <1>2, <1>6
  <2> QED BY <1>1, <1>6, <2>1, Lengths3 DEF IInv, Types, TypeOK, Rows, RowTypes
<1> QED BY <1>1, <1>5, <1>6, <1>7, WrittenInv

(* A put that failed leaves members of the documents, or nothing.           *)
LEMMA PutInputFailsInv ==
  ASSUME IInv, PutInputFails
  PROVE  IInv'
<1>1. writer # Idle /\ writer' = Idle
      /\ SetRow(writer.kind, "failed", "input-publication")
      /\ UNCHANGED <<deployed, deploys, box, proven>>
  BY DEF PutInputFails, BackendOnly
<1>2. writer.kind \in Kinds
  BY <1>1, WriterOf
<1>3. PICK left : bucket' = [bucket EXCEPT ![writer.kind].inputs =
                    [name \in DOMAIN @ |-> IF name \in left
                                           THEN writer.documents[name] ELSE None]]
  BY DEF PutInputFails
<1>4. PICK inputs : inputs = [n \in Names |-> IF n \in left THEN writer.documents[n]
                                                            ELSE None]
  OBVIOUS
<1>5. Written(writer.kind, inputs)
  <2>1. /\ bucket = [k \in Kinds |-> bucket[k]] /\ IsFolder(bucket[writer.kind])
    BY <1>2 DEF IInv, Types, Objects
  <2>2. DOMAIN bucket[writer.kind].inputs = Names
    BY <2>1 DEF IsFolder
  <2>3. bucket' = [bucket EXCEPT ![writer.kind].inputs = inputs]
    BY <1>3, <1>4, <2>2
  <2> QED BY <1>4, <2>3 DEF Written
<1>6. Rows' /\ RowTypes'
  <2>1. /\ writer'.kind = None /\ writer'.member = 0
        /\ writer' = [kind |-> writer'.kind, member |-> writer'.member,
                      documents |-> writer'.documents]
    BY <1>1 DEF Idle
  <2>2. /\ attempt' \in {attempt, [attempt EXCEPT !.state = "failed",
                                                  !.phase = "input-publication"]}
        /\ run' \in {run, [run EXCEPT !.state = "failed",
                                      !.phase = "input-publication"]}
    BY <1>1 DEF SetRow, Row
  <2>3. /\ attempt' = [state |-> attempt'.state, phase |-> attempt'.phase,
                       fingerprint |-> attempt'.fingerprint]
        /\ attempt'.state \in {attempt.state, "failed"}
    BY <2>2 DEF IInv, Types, Rows
  <2>4. /\ run' = [state |-> run'.state, phase |-> run'.phase,
                   fingerprint |-> run'.fingerprint]
        /\ run'.state \in {run.state, "failed"}
    BY <2>2 DEF IInv, Types, Rows
  <2>5. 0 \in 0..(Len(Members) + 1)
    BY Lengths3
  <2> QED BY <2>1, <2>3, <2>4, <2>5 DEF IInv, Types, TypeOK, Rows, RowTypes
<1> QED BY <1>1, <1>5, <1>6, WrittenInv

-----------------------------------------------------------------------------
(* A container starts when its inputs are all put, and for one job once.    *)
LEMMA SubmitInv ==
  ASSUME IInv, Submit
  PROVE  IInv'
<1>1. /\ writer # Idle /\ writer' = Idle
      /\ UNCHANGED <<deployed, deploys, bucket, proven>>
  BY DEF Submit
<1>2. PICK kind \in Kinds : kind = writer.kind
  BY <1>1, WriterOf
<1>3. PICK state \in {"submitted", "failed"}, phase \in {"starting", "submission"} :
        /\ SetRow(kind, state, phase)
        /\ \/ /\ state = "submitted"
              /\ box' = [NoBox EXCEPT !.mode = kind, !.provider = "running",
                           !.pc = "load", !.own = ReleaseOf[deployed.image]]
           \/ state = "failed" /\ box' = box
  BY <1>2 DEF Submit
<1>4. /\ writer'.kind = None /\ writer'.member = 0
      /\ writer' = [kind |-> writer'.kind, member |-> writer'.member,
                    documents |-> writer'.documents]
  BY <1>1 DEF Idle
<1>5. Rows' /\ RowTypes'
  <2>1. /\ attempt' \in {attempt, [attempt EXCEPT !.state = state, !.phase = phase]}
        /\ run' \in {run, [run EXCEPT !.state = state, !.phase = phase]}
    BY <1>3 DEF SetRow, Row
  <2>2. /\ attempt' = [state |-> attempt'.state, phase |-> attempt'.phase,
                       fingerprint |-> attempt'.fingerprint]
        /\ attempt'.state \in {attempt.state, state}
    BY <2>1 DEF IInv, Types, Rows
  <2>3. /\ run' = [state |-> run'.state, phase |-> run'.phase,
                   fingerprint |-> run'.fingerprint]
        /\ run'.state \in {run.state, state}
    BY <2>1 DEF IInv, Types, Rows
  <2>4. 0 \in 0..(Len(Members) + 1)
    BY Lengths3
  <2> QED BY <1>4, <2>2, <2>3, <2>4 DEF IInv, Types, TypeOK, Rows, RowTypes
<1>6. CASE state = "submitted"
  <2>1. /\ box'.mode = kind /\ box'.provider = "running" /\ box'.pc = "load"
        /\ box'.documents = None /\ box'.phase = 0 /\ box'.refused = None
        /\ box'.step = 0 /\ box'.put = 0 /\ BoxFields'
    BY <1>3, <1>6 DEF NoBox, BoxFields, IsBox
  <2>2. Types'
    <3>1. 0 \in Steps /\ 0 \in 0..Len(Phases) /\ 0 \in 0..Len(Artifacts)
      BY Lengths3, StepBounds
    <3>2. TypeOK'
      BY <1>1, <1>5, <2>1, <3>1 DEF IInv, Types, TypeOK, RowTypes
    <3>3. Objects'
      BY <1>1 DEF IInv, Types, Objects
    <3> QED BY <1>5, <2>1, <3>2, <3>3 DEF Types
  <2>3. box.mode # kind
    BY <1>1, <1>2, WriterOf
  <2>4. CASE kind = "prepare"
    <3>1. /\ attempt' = [attempt EXCEPT !.state = state, !.phase = phase] /\ run' = run
          /\ attempt.state = "queued" /\ run.state = "none" /\ proven = {}
          /\ Report = None /\ box = NoBox
      BY <1>2, <1>3, <2>4 DEF SetRow, Row, IInv, Requests
    <3>2. attempt'.state = "submitted" /\ attempt'.fingerprint = attempt.fingerprint
      BY <1>6, <3>1 DEF IInv, Types, Rows
    <3>3. Requests'
      BY <1>1, <1>4, <2>1, <2>4, <3>1, <3>2, KindsAreNot
         DEF IInv, Requests, Report
    <3>4. Documents'
      BY <1>1, <2>1, <3>1, <3>2 DEF IInv, Documents, Inputs, Probing, Training
    <3>5. Preparing'
      BY <1>1, <2>1, <2>4, <3>1, <3>2, KindsAreNot
         DEF IInv, Preparing, ReportInv, Report, Inputs, Probing
    <3>6. Listed = None
      BY <3>1, KindsAreNot DEF IInv, Publishing, NoBox
    <3>7. Publishing'
      BY <1>1, <2>1, <3>6 DEF Publishing, ListedIsWhole, Listed, Training
    <3> QED BY <2>2, <3>3, <3>4, <3>5, <3>7 DEF IInv
  <2>5. CASE kind = "train"
    <3>1. /\ run' = [run EXCEPT !.state = state, !.phase = phase] /\ attempt' = attempt
          /\ attempt.state = "accepted" /\ run.state = "queued"
      BY <1>2, <1>3, <2>5, KindsAreNot DEF SetRow, Row, IInv, Requests
    <3>2. run'.state = "submitted" /\ run'.fingerprint = run.fingerprint
      BY <1>6, <3>1 DEF IInv, Types, Rows
    <3>3. Requests'
      BY <1>1, <1>4, <2>1, <2>5, <3>1, <3>2, KindsAreNot
         DEF IInv, Requests, Report
    <3>4. Documents'
      BY <1>1, <2>1, <3>1 DEF IInv, Documents, Inputs, Probing, Training
    <3>5. Preparing'
      BY <1>1, <2>1, <2>5, <3>1, KindsAreNot
         DEF IInv, Preparing, ReportInv, Report, Inputs, Probing
    <3>6. Listed = None
      BY <2>3, <2>5 DEF IInv, Publishing
    <3>7. Publishing'
      BY <1>1, <2>1, <2>5, <3>6 DEF Publishing, ListedIsWhole, Listed, Training
    <3> QED BY <2>2, <3>3, <3>4, <3>5, <3>7 DEF IInv
  <2> QED BY <2>4, <2>5 DEF Kinds
<1>7. CASE state = "failed"
  <2>1. SetRow(writer.kind, "failed", phase) /\ box' = box
    BY <1>2, <1>3, <1>7
  <2>2. Written(kind, Inputs(kind))
    <3>1. bucket = [k \in Kinds |-> bucket[k]] /\ IsFolder(bucket[kind])
      BY DEF IInv, Types, Objects
    <3>2. [bucket[kind] EXCEPT !.inputs = bucket[kind].inputs] = bucket[kind]
      BY <3>1 DEF IsFolder
    <3>3. [bucket EXCEPT ![kind] = [bucket[kind] EXCEPT !.inputs = bucket[kind].inputs]]
            = bucket
      BY <3>1, <3>2
    <3> QED BY <1>1, <3>1, <3>3 DEF Written, IsFolder, Inputs
  <2> QED BY <1>1, <1>2, <1>5, <2>1, <2>2, WrittenInv
<1> QED BY <1>3, <1>6, <1>7

-----------------------------------------------------------------------------
(* The container.  While it runs no request is open, and a preparation that *)
(* still runs has not been accepted.                                        *)
LEMMA Running ==
  ASSUME IInv, box.pc # "gone"
  PROVE  /\ box.mode \in Kinds /\ box.mode # None /\ writer.kind = None
         /\ attempt.state # "none" /\ box.provider = "running" /\ Listed = None
         /\ box.mode = "prepare" => attempt.state # "accepted"
         /\ box.mode = "train" => attempt.state = "accepted" /\ run.state # "none"
<1>1. box # NoBox /\ box.mode \in Kinds /\ box.mode # None
  BY KindsAreNot DEF IInv, Types, TypeOK, Preparing, NoBox
<1>2. attempt.state # "none" /\ writer.kind # "prepare"
  BY <1>1 DEF IInv, Requests
<1>3. /\ box.mode = "prepare" => attempt.state # "accepted"
      /\ box.mode = "train" => attempt.state = "accepted" /\ run.state # "none"
  BY DEF IInv, Preparing, Requests
<1>4. writer.kind # "train"
  BY <1>1, <1>3, KindsAreNot DEF IInv, Requests
<1>5. writer.kind = None
  BY <1>2, <1>4, KindsAreNot DEF IInv, Types, TypeOK
<1>6. box.provider = "running" /\ Listed = None
  BY DEF IInv, Preparing, Publishing
<1> QED BY <1>1, <1>2, <1>3, <1>5, <1>6

(* What a step of the container leaves as it is, and the types of the rest. *)
ContainerFrame ==
  /\ UNCHANGED <<deployed, deploys, attempt, run, writer>>
  /\ box'.mode = box.mode /\ box'.documents = box.documents
  /\ IsBox(box') /\ Objects'
  /\ \A kind \in Kinds : bucket'[kind].inputs = bucket[kind].inputs
  /\ DOMAIN bucket'["train"].checkpoints \subseteq Steps
  /\ proven' \subseteq All
  /\ box'.provider \in {"none", "running", "completed", "failed"}
  /\ box'.step \in Steps /\ box'.phase \in 0..5 /\ box'.put \in 0..11
  /\ box'.pc \in Probing \cup Training => box.pc \in Probing \cup Training

(* Such a step disturbs neither types nor requests nor documents.           *)
LEMMA ContainerFrameInv ==
  ASSUME IInv, box.pc # "gone", ContainerFrame
  PROVE  Types' /\ Requests' /\ Documents'
<1>1. Types'
  <2>1. TypeOK'
    BY Lengths3 DEF IInv, Types, TypeOK, ContainerFrame, All
  <2>2. Rows' /\ BoxFields' /\ Objects'
    BY DEF IInv, Types, Rows, BoxFields, ContainerFrame
  <2> QED BY <2>1, <2>2 DEF Types
<1>2. Requests'
  <2>1. attempt'.state # "none" /\ writer'.kind \notin Kinds
    BY Running, KindsAreNot DEF ContainerFrame
  <2> QED BY <2>1 DEF IInv, Requests, ContainerFrame, Kinds
<1>3. Documents'
  <2>1. \A kind \in Kinds : Inputs(kind)' = Inputs(kind)
    BY DEF ContainerFrame, Inputs
  <2>2. box.documents' # None \/ box.pc' \in Probing \cup Training =>
          /\ box'.mode \in Kinds
          /\ box'.documents = bucket'[box'.mode].inputs
          /\ \A n \in Names : bucket'[box'.mode].inputs[n] # None
    BY DEF IInv, Documents, ContainerFrame, Inputs
  <2>3. /\ \A kind \in Kinds : /\ bucket'[kind].inputs["robot"] \in {None, Robot}
                               /\ bucket'[kind].inputs["setup"] \in {None, Setup}
        /\ bucket'["train"].inputs["manifest"] # None =>
             attempt'.state = "accepted"
             /\ bucket'["train"].inputs["manifest"].fingerprint = attempt'.fingerprint
    BY DEF IInv, Documents, ContainerFrame, Inputs, Kinds
  <2> QED BY <2>2, <2>3 DEF Documents, Inputs
<1> QED BY <1>1, <1>2, <1>3

(* The bytes of the artifacts depend on the metrics and the documents.      *)
LEMMA BytesSame ==
  ASSUME NEW b, NEW c, b.metrics = c.metrics, b.documents = c.documents
  PROVE  ArtifactBytes(b) = ArtifactBytes(c)
BY DEF ArtifactBytes, Bundle

(* A put replaces one prefix.                                               *)
LEMMA PutsObjects ==
  ASSUME Objects, NEW kind \in Kinds, NEW p, IsFolder(p), Puts(kind, p)
  PROVE  /\ Objects' /\ bucket'[kind] = p
         /\ \A k \in Kinds \ {kind} : bucket'[k] = bucket[k]
<1>1. /\ bucket' = [k \in Kinds |-> bucket'[k]] /\ bucket'[kind] = p
      /\ \A k \in Kinds \ {kind} : bucket'[k] = bucket[k]
  BY DEF Objects, Puts
<1> QED BY <1>1 DEF Objects

(* A container that ends leaves a report that is right, and a listing that  *)
(* is whole, or none.                                                       *)
LEMMA ExitInv ==
  ASSUME IInv, box.pc # "gone", NEW code, box' = Exits(code),
         UNCHANGED <<deployed, deploys, attempt, run, writer, proven>>,
         Objects', \A kind \in Kinds : bucket'[kind].inputs = bucket[kind].inputs,
         DOMAIN bucket'["train"].checkpoints \subseteq Steps,
         ReportInv', ListedIsWhole',
         box.mode = "prepare" => Listed' = Listed,
         box.mode = "train" => Report' = Report
  PROVE  IInv'
<1>1. PICK provider \in {"completed", "failed"} :
        box' = [box EXCEPT !.pc = "gone", !.provider = provider]
  BY DEF Exits
<1>2. /\ box'.mode = box.mode /\ box'.documents = box.documents /\ IsBox(box')
      /\ box'.provider = provider /\ box'.pc = "gone" /\ box'.step = box.step
      /\ box'.phase = box.phase /\ box'.put = box.put
  BY <1>1 DEF IInv, Types, BoxFields, IsBox
<1>3. ContainerFrame
  BY <1>2, Lengths3
     DEF IInv, Types, TypeOK, ContainerFrame, All, Probing, Training
<1>4. Types' /\ Requests' /\ Documents'
  BY <1>3, ContainerFrameInv
<1>5. Preparing'
  <2>1. attempt'.state = "accepted" =>
          /\ Report' # None /\ Report'.status = "accepted"
          /\ Report'.fingerprint = attempt'.fingerprint
    BY Running, KindsAreNot DEF IInv, Preparing
  <2> QED BY <1>2, <2>1, Running DEF Preparing, Probing, Training
<1>6. Publishing'
  BY <1>2, Running, KindsAreNot DEF Publishing, Training
<1> QED BY <1>4, <1>5, <1>6 DEF IInv

(* Dying writes nothing.                                                    *)
LEMMA DiesInv ==
  ASSUME IInv, box.pc # "gone", NEW code, box' = Exits(code), BoxOnly, UNCHANGED bucket
  PROVE  IInv'
<1>1. Objects' /\ ReportInv' /\ ListedIsWhole'
  BY
     DEF IInv, Types, Objects, Preparing, ReportInv, Publishing, ListedIsWhole,
          BoxOnly,
         Report, Inputs
<1>2. /\ \A kind \in Kinds : bucket'[kind].inputs = bucket[kind].inputs
      /\ DOMAIN bucket'["train"].checkpoints \subseteq Steps
      /\ Listed' = Listed /\ Report' = Report
  BY DEF IInv, Types, TypeOK, Listed, Report
<1> QED BY <1>1, <1>2, ExitInv DEF BoxOnly

(* Loading takes the documents of the bucket, if they are valid.            *)
LEMMA LoadInv ==
  ASSUME IInv, Load
  PROVE  IInv'
<1>1. /\ box.pc = "load" /\ box.pc # "gone"
      /\ UNCHANGED <<deployed, deploys, attempt, run, writer, proven, bucket>>
  BY DEF Load, BoxOnly
<1>2. CASE box' = Exits(2)
  BY <1>1, <1>2, DiesInv DEF BoxOnly
<1>3. CASE /\ validate_documents(Here.inputs, box.own)
           /\ box' = [box EXCEPT !.documents = Here.inputs,
                        !.pc = IF box.mode = "prepare" THEN "phases" ELSE "start",
                        !.nextCheckpoint = CheckpointEvery,
                        !.nextEvaluation = EvaluationEvery]
  <2>1. PICK pc : pc = IF box.mode = "prepare" THEN "phases" ELSE "start"
    OBVIOUS
  <2>2. /\ box'.mode = box.mode /\ box'.documents = Here.inputs /\ IsBox(box')
        /\ box'.pc = pc /\ box'.provider = box.provider /\ box'.put = box.put
        /\ box'.phase = box.phase /\ box'.refused = box.refused
        /\ box'.step = box.step
    BY <1>3, <2>1 DEF IInv, Types, BoxFields, IsBox
  <2>3. box.mode \in Kinds /\ writer.kind = None /\ attempt.state # "none"
        /\ Listed = None /\ box.provider = "running" /\ box.put = 0
        /\ box.refused = None /\ box.phase = 0
        /\ (box.mode = "prepare" => attempt.state # "accepted" /\ proven = {})
    BY <1>1, Running DEF IInv, Preparing, Publishing
  <2>4. \A n \in Names : Inputs(box.mode)[n] # None
    BY <1>3 DEF validate_documents, Names, Inputs, Here
  <2>5. Types'
    <3>1. TypeOK'
      BY <1>1, <2>2 DEF IInv, Types, TypeOK
    <3> QED BY <1>1, <2>2, <3>1 DEF IInv, Types, Rows, Objects, BoxFields
  <2>6. Requests'
    BY <1>1, <2>2, <2>3, KindsAreNot DEF IInv, Requests
  <2>7. Documents'
    BY <1>1, <2>2, <2>3, <2>4 DEF IInv, Documents, Inputs, Here
  <2>8. Preparing'
    <3>1. ReportInv' /\ Report' = Report
      BY <1>1 DEF IInv, Preparing, ReportInv, Report, Inputs
    <3>2. CASE box.mode = "prepare"
      <4>1. pc = "phases"
        BY <2>1, <3>2
      <4>2. 0 < Len(Phases) /\ {Phases[i] : i \in 1..0} = {}
        BY Lengths3
      <4> QED BY <1>1, <2>2, <2>3, <3>1, <3>2, <4>1, <4>2, KindsAreNot
              DEF Preparing, Probing
    <3>3. CASE box.mode = "train"
      <4>1. pc = "start" /\ box.mode # "prepare"
        BY <2>1, <3>3
      <4>2. attempt.state = "accepted" =>
              /\ Report # None /\ Report.status = "accepted"
              /\ Report.fingerprint = attempt.fingerprint
        BY DEF IInv, Preparing
      <4> QED BY <1>1, <2>2, <2>3, <3>1, <3>3, <4>1, <4>2, KindsAreNot
              DEF Preparing, Probing, Training
    <3> QED BY <2>3, <3>2, <3>3 DEF Kinds
  <2>9. Publishing'
    <3>1. Listed' = None /\ pc \in {"phases", "start"}
          /\ (pc = "start" => box.mode = "train")
      BY <1>1, <2>1, <2>3 DEF Listed, Kinds
    <3> QED BY <2>2, <2>3, <3>1 DEF Publishing, ListedIsWhole, Listed, Training
  <2> QED BY <2>5, <2>6, <2>7, <2>8, <2>9 DEF IInv
<1> QED BY <1>2, <1>3 DEF Load

-----------------------------------------------------------------------------
(* A step of a preparation between its phases and its report: what is left  *)
(* to show is what it has proven.                                           *)
LEMMA ProbingInv ==
  ASSUME IInv, box.pc \in Probing, ContainerFrame, box'.pc \in Probing,
         box'.provider = box.provider, ReportInv', Listed' = Listed,
         box'.pc = "phases" =>
           /\ box'.refused = None /\ box'.phase < Len(Phases)
           /\ proven' = {Phases[i] : i \in 1..box'.phase},
         box'.pc \in {"probe", "report"} /\ box'.refused = None => proven' = All
  PROVE  IInv'
<1>1. box.pc # "gone" /\ box.pc # "load" /\ box.mode = "prepare"
      /\ box'.pc \notin {"gone", "load"} \cup Training
  BY DEF Probing, Training, IInv, Preparing
<1>2. Types' /\ Requests' /\ Documents'
  BY <1>1, ContainerFrameInv
<1>3. Preparing'
  BY <1>1, Running DEF Preparing, ContainerFrame
<1>4. Publishing'
  BY <1>1, Running
     DEF Publishing, ContainerFrame, Training, ListedIsWhole, Listed
<1> QED BY <1>2, <1>3, <1>4 DEF IInv

(* The shape of the frame when the bucket is as it was.                     *)
LEMMA UntouchedBucket ==
  ASSUME IInv, UNCHANGED bucket, proven \subseteq proven', proven' \subseteq All
  PROVE  /\ Objects' /\ ReportInv' /\ Listed' = Listed /\ Report' = Report
         /\ \A kind \in Kinds : bucket'[kind].inputs = bucket[kind].inputs
         /\ DOMAIN bucket'["train"].checkpoints \subseteq Steps
<1>1. Objects' /\ Listed' = Listed /\ Report' = Report
  BY DEF IInv, Types, Objects, Listed, Report
<1>2. DOMAIN bucket'["train"].checkpoints \subseteq Steps
  BY DEF IInv, Types, TypeOK
<1>3. ReportInv'
  BY DEF IInv, Preparing, ReportInv, Report, Inputs
<1> QED BY <1>1, <1>2, <1>3

(* A phase is recorded as it is passed, one after the other.                *)
LEMMA PassPhaseInv ==
  ASSUME IInv, PassPhase
  PROVE  IInv'
<1> DEFINE k == box.phase + 1
<1>1. /\ box.pc = "phases" /\ box.phase < 5
      /\ proven' = proven \cup {Phases[k]}
      /\ box' = [box EXCEPT !.phase = k,
                            !.pc = IF k = 5 THEN "probe" ELSE "phases"]
      /\ UNCHANGED <<deployed, deploys, attempt, run, writer, bucket>>
  BY Lengths3 DEF PassPhase
<1>2. PICK pc \in {"phases", "probe"} :
        box' = [box EXCEPT !.phase = k, !.pc = pc] /\ (pc = "probe" <=> k = 5)
  BY <1>1
<1>3. /\ box'.mode = box.mode /\ box'.documents = box.documents /\ IsBox(box')
      /\ box'.pc = pc /\ box'.provider = box.provider /\ box'.put = box.put
      /\ box'.phase = k /\ box'.refused = box.refused /\ box'.step = box.step
  BY <1>2 DEF IInv, Types, BoxFields, IsBox
<1>4. /\ box.refused = None /\ box.phase \in 0..4 /\ k \in 1..5
      /\ proven = {Phases[i] : i \in 1..box.phase} /\ proven \subseteq All
  BY <1>1, Lengths3 DEF IInv, Types, TypeOK, Preparing, All
<1>5. proven' = {Phases[i] : i \in 1..k} /\ proven' \subseteq All
  <2>1. 1..k = (1..box.phase) \cup {k} /\ 1..k \subseteq 1..5
    BY <1>4
  <2> QED BY <1>1, <1>4, <2>1, Lengths3 DEF All
<1>6. /\ Objects' /\ ReportInv' /\ Listed' = Listed
      /\ \A kind \in Kinds : bucket'[kind].inputs = bucket[kind].inputs
      /\ DOMAIN bucket'["train"].checkpoints \subseteq Steps
  BY <1>1, <1>5, UntouchedBucket
<1>7. ContainerFrame
  BY <1>1, <1>3, <1>4, <1>5, <1>6, Lengths3
     DEF ContainerFrame, IInv, Types, TypeOK, Probing
<1>8. box.pc \in Probing /\ box'.pc \in Probing
  BY <1>1, <1>3 DEF Probing
<1>9. pc = "phases" => k < Len(Phases)
  BY <1>2, <1>4, Lengths3
<1>10. pc = "probe" => proven' = All
  BY <1>2, <1>5, Lengths3 DEF All
<1> HIDE DEF k
<1> QED BY <1>3, <1>4, <1>5, <1>6, <1>7, <1>8, <1>9, <1>10, ProbingInv

(* A refused phase goes to the report with what was proven before it.       *)
LEMMA RefusePhaseInv ==
  ASSUME IInv, RefusePhase
  PROVE  IInv'
<1>1. /\ box.pc = "phases" /\ box.phase \in 0..4
      /\ UNCHANGED <<deployed, deploys, attempt, run, writer, bucket, proven>>
  BY Lengths3 DEF RefusePhase, BoxOnly, IInv, Types, TypeOK, Preparing
<1>2. PICK refused : /\ box' = [box EXCEPT !.refused = refused, !.pc = "probe"]
                     /\ refused \in All \cup {"render"}
  <2>1. box.phase + 1 \in DOMAIN Phases
    BY <1>1, Lengths3
  <2>2. Phases[box.phase + 1] \in All
    BY <2>1 DEF All
  <2>3. \/ box' = [box EXCEPT !.refused = Phases[box.phase + 1], !.pc = "probe"]
        \/ box' = [box EXCEPT !.refused = "render", !.pc = "probe"]
    BY DEF RefusePhase
  <2> QED BY <2>2, <2>3
<1>3. refused # None
  <2>1. Phases[3] = "render"
    BY DEF Phases
  <2> QED BY <1>2, <2>1, NoneAssumption, Lengths3 DEF All
<1>4. /\ box'.mode = box.mode /\ box'.documents = box.documents /\ IsBox(box')
      /\ box'.pc = "probe" /\ box'.provider = box.provider /\ box'.put = box.put
      /\ box'.phase = box.phase /\ box'.refused = refused /\ box'.step = box.step
  BY <1>2 DEF IInv, Types, BoxFields, IsBox
<1>5. proven' \subseteq All
  BY <1>1 DEF IInv, Types, TypeOK, All
<1>6. /\ Objects' /\ ReportInv' /\ Listed' = Listed
      /\ \A kind \in Kinds : bucket'[kind].inputs = bucket[kind].inputs
      /\ DOMAIN bucket'["train"].checkpoints \subseteq Steps
  BY <1>1, <1>5, UntouchedBucket
<1>7. ContainerFrame
  BY <1>1, <1>4, <1>5, <1>6, Lengths3
     DEF ContainerFrame, IInv, Types, TypeOK, Probing
<1>8. box.pc \in Probing /\ box'.pc \in Probing
  BY <1>1, <1>4 DEF Probing
<1> QED BY <1>3, <1>4, <1>6, <1>7, <1>8, ProbingInv

(* The frame of the render phase touches nothing the rest reads.            *)
LEMMA PutProbeInv ==
  ASSUME IInv, PutProbe
  PROVE  IInv'
<1>1. /\ box.pc = "probe" /\ box.pc # "gone" /\ box.mode = "prepare"
      /\ "prepare" \in Kinds
      /\ UNCHANGED <<deployed, deploys, attempt, run, writer, proven>>
  BY KindsAreNot DEF PutProbe, BoxOnly, IInv, Preparing, Probing
<1>2. proven' \subseteq All
  BY <1>1 DEF IInv, Types, TypeOK, All
<1>3. /\ Objects' /\ ReportInv' /\ Listed' = Listed
      /\ \A kind \in Kinds : bucket'[kind].inputs = bucket[kind].inputs
      /\ DOMAIN bucket'["train"].checkpoints \subseteq Steps
  <2>1. CASE UNCHANGED bucket
    BY <1>1, <1>2, <2>1, UntouchedBucket
  <2>2. CASE Puts("prepare", [Here EXCEPT !.probe = TRUE])
    <3>1. PICK p : p = [Here EXCEPT !.probe = TRUE]
      OBVIOUS
    <3>2. /\ IsFolder(p) /\ p.inputs = bucket["prepare"].inputs
          /\ p.report = bucket["prepare"].report
      <4>1. IsFolder(Here) /\ Here = bucket["prepare"]
        BY <1>1 DEF IInv, Types, Objects, Here
      <4>2. IsFolder(p) /\ p.inputs = Here.inputs /\ p.report = Here.report
        BY <3>1, <4>1 DEF IsFolder
      <4> QED BY <4>1, <4>2
    <3>3. /\ Objects' /\ bucket'["prepare"] = p
          /\ \A k \in Kinds \ {"prepare"} : bucket'[k] = bucket[k]
      BY <1>1, <2>2, <3>1, <3>2, PutsObjects DEF IInv, Types
    <3>4. ReportInv' /\ Listed' = Listed
      BY <1>1, <3>2, <3>3, KindsAreNot
         DEF IInv, Preparing, ReportInv, Report, Listed, Inputs
    <3>5. DOMAIN bucket'["train"].checkpoints \subseteq Steps
      BY <3>3, KindsAreNot DEF IInv, Types, TypeOK
    <3> QED BY <3>2, <3>3, <3>4, <3>5, KindsAreNot
  <2> QED BY <2>1, <2>2 DEF PutProbe, Goes
<1>4. CASE box' = Exits(2)
  <2>1. ListedIsWhole'
    BY <1>1, <1>3, Running DEF ListedIsWhole, Listed
  <2> QED BY <1>1, <1>3, <1>4, <2>1, ExitInv, KindsAreNot
<1>5. CASE box' = [box EXCEPT !.pc = "report"]
  <2>1. /\ box'.mode = box.mode /\ box'.documents = box.documents /\ IsBox(box')
        /\ box'.pc = "report" /\ box'.provider = box.provider /\ box'.put = box.put
        /\ box'.phase = box.phase /\ box'.refused = box.refused
        /\ box'.step = box.step
    BY <1>5 DEF IInv, Types, BoxFields, IsBox
  <2>2. ContainerFrame
    BY <1>1, <1>2, <1>3, <2>1, Lengths3
       DEF ContainerFrame, IInv, Types, TypeOK, Probing
  <2>3. box.pc \in Probing /\ box'.pc \in Probing
    BY <1>1, <2>1 DEF Probing
  <2>4. box'.refused = None => proven' = All
    BY <1>1, <2>1 DEF IInv, Preparing
  <2> QED BY <1>3, <2>1, <2>2, <2>3, <2>4, ProbingInv
<1> QED BY <1>4, <1>5 DEF PutProbe, Answered, Goes

(* The report says accepted when every phase was passed, and names the      *)
(* inputs the container has loaded.                                         *)
LEMMA PutReportInv ==
  ASSUME IInv, PutReport
  PROVE  IInv'
<1>1. /\ box.pc = "report" /\ box.pc # "gone" /\ box.mode = "prepare"
      /\ "prepare" \in Kinds
      /\ UNCHANGED <<deployed, deploys, attempt, run, writer, proven>>
  BY KindsAreNot DEF PutReport, BoxOnly, IInv, Preparing, Probing
<1>2. PICK report : report = [fingerprint |-> box.documents.manifest.fingerprint,
                              status |-> Status(box), failure_phase |-> box.refused]
  OBVIOUS
<1>3. PICK p : p = [Here EXCEPT !.report = report]
  OBVIOUS
<1>4. /\ IsFolder(p) /\ p.inputs = bucket["prepare"].inputs /\ p.report = report
  <2>1. IsFolder(Here) /\ Here = bucket["prepare"]
    BY <1>1 DEF IInv, Types, Objects, Here
  <2>2. IsFolder(p) /\ p.inputs = Here.inputs /\ p.report = report
    BY <1>3, <2>1 DEF IsFolder
  <2> QED BY <2>1, <2>2
<1>5. /\ Objects' /\ bucket'["prepare"] = p
      /\ \A k \in Kinds \ {"prepare"} : bucket'[k] = bucket[k]
  BY <1>1, <1>2, <1>3, <1>4, PutsObjects DEF IInv, Types, PutReport
<1>6. ReportInv'
  <2>1. /\ report.status \in {"accepted", "failed"}
        /\ report.status = "accepted" => box.refused = None
    BY <1>2 DEF Status
  <2>2. box.refused = None => proven = All
    BY <1>1 DEF IInv, Preparing
  <2>3. /\ report.fingerprint = Inputs("prepare")["manifest"].fingerprint
        /\ \A n \in Names : Inputs("prepare")[n] # None
    <3>1. /\ box.documents = Inputs("prepare")
          /\ \A n \in Names : Inputs("prepare")[n] # None
      BY <1>1 DEF IInv, Documents, Probing
    <3>2. report.fingerprint = box.documents.manifest.fingerprint
      BY <1>2
    <3> QED BY <3>1, <3>2
  <2> QED BY <1>1, <1>4, <1>5, <2>1, <2>2, <2>3 DEF ReportInv, Report, Inputs
<1>7. Listed' = Listed /\ ListedIsWhole'
      /\ DOMAIN bucket'["train"].checkpoints \subseteq Steps
      /\ \A kind \in Kinds : bucket'[kind].inputs = bucket[kind].inputs
  <2>1. bucket'["train"] = bucket["train"]
    BY <1>5, KindsAreNot
  <2> QED BY <1>1, <1>4, <1>5, <2>1, Running, KindsAreNot
          DEF IInv, Types, TypeOK, Listed, ListedIsWhole
<1>8. PICK code \in {0, 2} : box' = Exits(code)
  BY DEF PutReport, Answered
<1> QED BY <1>1, <1>5, <1>6, <1>7, <1>8, ExitInv, KindsAreNot

-----------------------------------------------------------------------------
(* A step of a training up to its listing: what is left to show is what is  *)
(* there of the artifacts.                                                  *)
LEMMA TrainingInv ==
  ASSUME IInv, box.pc \in Training, ContainerFrame, box'.pc \in Training,
         box'.provider = box.provider, proven' = proven,
         Report' = Report, Listed' = Listed,
         box'.pc \notin {"artifacts", "manifest"} => box'.put = 0,
         box'.pc \in {"artifacts", "manifest"} =>
           \A i \in 1..box'.put :
             bucket'["train"].artifacts[Artifacts[i]]
               = ArtifactBytes(box')[Artifacts[i]],
         box'.pc = "manifest" => box'.put = Len(Artifacts)
                                 /\ bucket'["train"].status = "completed"
  PROVE  IInv'
<1>1. /\ box.pc # "gone" /\ box.mode = "train" /\ Listed = None
      /\ box'.pc \notin {"gone", "load"} \cup Probing
  BY DEF Probing, Training, IInv, Publishing
<1>2. Types' /\ Requests' /\ Documents'
  BY <1>1, ContainerFrameInv
<1>3. Preparing'
  <2>1. ReportInv'
    BY DEF IInv, Preparing, ReportInv, ContainerFrame, Inputs, Kinds
  <2>2. attempt'.state = "accepted" =>
          /\ Report' # None /\ Report'.status = "accepted"
          /\ Report'.fingerprint = attempt'.fingerprint
    BY DEF IInv, Preparing, ContainerFrame
  <2>3. box.provider = "running" /\ box.mode # None /\ box.mode # "prepare"
    BY <1>1, Running, KindsAreNot
  <2> QED BY <1>1, <2>1, <2>2, <2>3 DEF Preparing, ContainerFrame, Probing
<1>4. Publishing'
  BY <1>1 DEF Publishing, ContainerFrame, Training, ListedIsWhole, Listed
<1> QED BY <1>2, <1>3, <1>4 DEF IInv

(* What an object of the training that is neither input nor listing leaves  *)
(* as it is.                                                                *)
Adds(p) ==
  /\ IsFolder(p) /\ p.inputs = Here.inputs /\ p.manifest = Here.manifest
  /\ DOMAIN p.checkpoints \subseteq Steps

(* Such an object leaves inputs, report and listing.                        *)
LEMMA AddsInv ==
  ASSUME IInv, box.pc \in Training, NEW p, Adds(p), Puts("train", p)
  PROVE  /\ Objects' /\ Report' = Report /\ Listed' = Listed /\ Listed = None
         /\ bucket'["train"] = p
         /\ \A kind \in Kinds : bucket'[kind].inputs = bucket[kind].inputs
         /\ DOMAIN bucket'["train"].checkpoints \subseteq Steps
<1>1. box.mode = "train" /\ box.pc # "gone" /\ "train" \in Kinds
      /\ Here = bucket["train"]
  BY DEF IInv, Publishing, Training, Kinds, Here
<1>2. /\ Objects' /\ bucket'["train"] = p
      /\ \A k \in Kinds \ {"train"} : bucket'[k] = bucket[k]
  BY <1>1, PutsObjects DEF IInv, Types, Adds
<1>3. Report' = Report /\ Listed' = Listed /\ Listed = None
  BY <1>1, <1>2, Running, KindsAreNot DEF Adds, Report, Listed
<1> QED BY <1>1, <1>2, <1>3, KindsAreNot DEF Adds

(* Its put may be there and the container gone.                             *)
LEMMA AddsAndDies ==
  ASSUME IInv, box.pc \in Training, NEW p, Adds(p), Puts("train", p), BoxOnly,
         box' = Exits(2)
  PROVE  IInv'
<1>1. box.mode = "train" /\ box.pc # "gone"
  BY DEF IInv, Publishing, Training
<1>2. ReportInv' /\ ListedIsWhole'
  BY AddsInv
     DEF IInv, Preparing, ReportInv, ListedIsWhole, Listed, BoxOnly, Inputs,
       Kinds, Report
<1> QED BY <1>1, <1>2, AddsInv, ExitInv, KindsAreNot DEF BoxOnly

(* The frame of a step of the training that puts an object, or none.        *)
LEMMA TrainingFrame ==
  ASSUME IInv, box.pc \in Training, BoxOnly, IsBox(box'),
         \/ UNCHANGED bucket
         \/ \E p : Adds(p) /\ Puts("train", p),
         box'.mode = box.mode, box'.documents = box.documents,
         box'.provider = box.provider, box'.phase = box.phase,
         box'.step \in Steps, box'.put \in 0..11
  PROVE  ContainerFrame /\ Report' = Report /\ Listed' = Listed
<1>1. /\ Objects' /\ Report' = Report /\ Listed' = Listed
      /\ \A kind \in Kinds : bucket'[kind].inputs = bucket[kind].inputs
      /\ DOMAIN bucket'["train"].checkpoints \subseteq Steps
  <2>1. CASE UNCHANGED bucket
    BY <2>1, UntouchedBucket DEF BoxOnly, IInv, Types, TypeOK, All
  <2>2. CASE \E p : Adds(p) /\ Puts("train", p)
    BY <2>2, AddsInv
  <2> QED BY <2>1, <2>2
<1> QED BY <1>1, Lengths3 DEF ContainerFrame, BoxOnly, IInv, Types, TypeOK, All

(* A step before the artifacts: nothing of them is there, or claimed.       *)
LEMMA LearningInv ==
  ASSUME IInv, box.pc \in Training \ {"artifacts", "manifest"},
         BoxOnly, IsBox(box'),
         \/ UNCHANGED bucket
         \/ \E p : Adds(p) /\ Puts("train", p),
         box'.mode = box.mode, box'.documents = box.documents,
         box'.provider = box.provider, box'.phase = box.phase,
         box'.step \in Steps, box'.put = box.put,
         box'.pc \in Training \ {"manifest"}
  PROVE  IInv'
<1>1. box.put = 0 /\ box.pc \in Training
  BY DEF IInv, Publishing
<1>2. ContainerFrame /\ Report' = Report /\ Listed' = Listed
  BY <1>1, TrainingFrame
<1>3. box'.put = 0 /\ 1..0 = {}
  BY <1>1
<1>4. \A i \in 1..box'.put :
        bucket'["train"].artifacts[Artifacts[i]] = ArtifactBytes(box')[Artifacts[i]]
  BY <1>3
<1>5. box'.pc \in Training /\ box'.pc # "manifest" /\ proven' = proven
  BY DEF BoxOnly, Training
<1> QED BY <1>1, <1>2, <1>3, <1>4, <1>5, TrainingInv

(* The callback goes to one of three places.                                *)
LEMMA DueFirstIn ==
  ASSUME NEW b
  PROVE  DueFirst(b) \in Training \ {"artifacts", "manifest"}
BY DEF DueFirst, Training

(* The status of a training says that it trains.                            *)
LEMMA PutTrainingInv ==
  ASSUME IInv, PutTraining
  PROVE  IInv'
<1>1. /\ box.pc = "start" /\ box.pc \in Training \ {"artifacts", "manifest"}
      /\ box.pc \in Training /\ BoxOnly
  BY DEF PutTraining, Training
<1>2. PICK p : p = [Here EXCEPT !.status = "training"]
  OBVIOUS
<1>3. Adds(p) /\ Puts("train", p)
  <2>1. IsFolder(Here) /\ DOMAIN Here.checkpoints \subseteq Steps
    BY <1>1 DEF IInv, Types, TypeOK, Objects, Here, Publishing, Kinds
  <2>2. Adds(p)
    BY <1>2, <2>1 DEF IsFolder, Adds
  <2> QED BY <1>2, <2>2 DEF PutTraining
<1>4. CASE box' = Exits(2)
  BY <1>1, <1>3, <1>4, AddsAndDies
<1>5. CASE box' = [box EXCEPT !.pc = "learn"]
  <2>1. /\ IsBox(box') /\ box'.mode = box.mode /\ box'.documents = box.documents
        /\ box'.provider = box.provider /\ box'.phase = box.phase
        /\ box'.step = box.step /\ box'.put = box.put /\ box'.pc = "learn"
    BY <1>5 DEF IInv, Types, BoxFields, IsBox
  <2>2. box.step \in Steps /\ box'.pc \in Training \ {"manifest"}
    BY <2>1 DEF IInv, Types, TypeOK, Training
  <2> QED BY <1>1, <1>3, <2>1, <2>2, LearningInv
<1> QED BY <1>4, <1>5 DEF PutTraining, Answered

(* A step of the training stays within its steps.                           *)
LEMMA LearnStepInv ==
  ASSUME IInv, LearnStep
  PROVE  IInv'
<1>1. /\ box.pc = "learn" /\ box.pc \in Training \ {"artifacts", "manifest"}
      /\ BoxOnly /\ UNCHANGED bucket /\ box.step < LearnEnds
  BY DEF LearnStep, Training
<1>2. PICK b, pc : b = [box EXCEPT !.step = @ + 1] /\ pc = DueFirst(b)
                   /\ box' = [b EXCEPT !.pc = pc]
  BY DEF LearnStep
<1>3. /\ IsBox(box') /\ box'.mode = box.mode /\ box'.documents = box.documents
      /\ box'.provider = box.provider /\ box'.phase = box.phase
      /\ box'.step = box.step + 1 /\ box'.put = box.put /\ box'.pc = pc
  BY <1>2 DEF IInv, Types, BoxFields, IsBox
<1>4. box'.step \in Steps
  BY <1>1, <1>3, StepBounds DEF IInv, Types, TypeOK, Steps
<1>5. box'.pc \in Training \ {"manifest"}
  BY <1>2, <1>3, DueFirstIn
<1> QED BY <1>1, <1>3, <1>4, <1>5, LearningInv

(* A checkpoint is named by a step of the training.                         *)
LEMMA PutCheckpointInv ==
  ASSUME IInv, PutCheckpoint
  PROVE  IInv'
<1>1. /\ box.pc = "checkpoint" /\ box.pc \in Training \ {"artifacts", "manifest"}
      /\ box.pc \in Training /\ BoxOnly /\ box.step \in Steps
  BY DEF PutCheckpoint, Training, IInv, Types, TypeOK
<1>2. PICK checkpoints :
        checkpoints = [s \in DOMAIN Here.checkpoints \cup {box.step} |->
                         IF s = box.step THEN Updates(box.step)
                                         ELSE Here.checkpoints[s]]
  OBVIOUS
<1>3. PICK p : p = [Here EXCEPT !.checkpoints = checkpoints]
  OBVIOUS
<1>4. Adds(p) /\ Puts("train", p)
  <2>1. IsFolder(Here) /\ DOMAIN Here.checkpoints \subseteq Steps
    BY <1>1 DEF IInv, Types, TypeOK, Objects, Here, Publishing, Kinds
  <2>2. DOMAIN checkpoints \subseteq Steps
    BY <1>1, <1>2, <2>1
  <2>3. Adds(p)
    BY <1>3, <2>1, <2>2 DEF IsFolder, Adds
  <2> QED BY <1>2, <1>3, <2>3 DEF PutCheckpoint
<1>5. CASE box' = Exits(2)
  BY <1>1, <1>4, <1>5, AddsAndDies
<1>6. CASE box' # Exits(2)
  <2>1. PICK due, b, pc : /\ b = [box EXCEPT !.nextCheckpoint = due]
                          /\ pc = DueFirst(b) /\ box' = [b EXCEPT !.pc = pc]
    BY <1>6 DEF PutCheckpoint, Answered
  <2>2. /\ IsBox(box') /\ box'.mode = box.mode /\ box'.documents = box.documents
        /\ box'.provider = box.provider /\ box'.phase = box.phase
        /\ box'.step = box.step /\ box'.put = box.put /\ box'.pc = pc
    BY <2>1 DEF IInv, Types, BoxFields, IsBox
  <2>3. box'.step \in Steps /\ box'.pc \in Training \ {"manifest"}
    BY <1>1, <2>1, <2>2, DueFirstIn
  <2> QED BY <1>1, <1>4, <2>2, <2>3, LearningInv
<1> QED BY <1>5, <1>6

(* An evaluation is the container's own.                                    *)
LEMMA EvaluateInv ==
  ASSUME IInv, Evaluate
  PROVE  IInv'
<1>1. /\ box.pc = "evaluate" /\ box.pc \in Training \ {"artifacts", "manifest"}
      /\ BoxOnly /\ UNCHANGED bucket /\ box.step \in Steps
  BY DEF Evaluate, Training, IInv, Types, TypeOK
<1>2. PICK evaluations, best :
        box' = [box EXCEPT !.evaluations = evaluations, !.best = best,
                           !.pc = "progress"]
  BY DEF Evaluate
<1>3. /\ IsBox(box') /\ box'.mode = box.mode /\ box'.documents = box.documents
      /\ box'.provider = box.provider /\ box'.phase = box.phase
      /\ box'.step = box.step /\ box'.put = box.put /\ box'.pc = "progress"
  BY <1>2 DEF IInv, Types, BoxFields, IsBox
<1>4. box'.pc \in Training \ {"manifest"}
  BY <1>3 DEF Training
<1> QED BY <1>1, <1>3, <1>4, LearningInv

(* Progress is an object of its own.                                        *)
LEMMA PutProgressInv ==
  ASSUME IInv, PutProgress
  PROVE  IInv'
<1>1. /\ box.pc = "progress" /\ box.pc \in Training \ {"artifacts", "manifest"}
      /\ box.pc \in Training /\ BoxOnly /\ box.step \in Steps
  BY DEF PutProgress, Training, IInv, Types, TypeOK
<1>2. PICK p : p = [Here EXCEPT !.progress = {box.step}]
  OBVIOUS
<1>3. Adds(p) /\ Puts("train", p)
  <2>1. IsFolder(Here) /\ DOMAIN Here.checkpoints \subseteq Steps
    BY <1>1 DEF IInv, Types, TypeOK, Objects, Here, Publishing, Kinds
  <2>2. Adds(p)
    BY <1>2, <2>1 DEF IsFolder, Adds
  <2> QED BY <1>2, <2>2 DEF PutProgress
<1>4. CASE box' = Exits(2)
  BY <1>1, <1>3, <1>4, AddsAndDies
<1>5. CASE box' # Exits(2)
  <2>1. PICK due, b, pc : /\ b = [box EXCEPT !.nextEvaluation = due]
                          /\ pc = DueFirst(b) /\ box' = [b EXCEPT !.pc = pc]
    BY <1>5 DEF PutProgress, Answered
  <2>2. /\ IsBox(box') /\ box'.mode = box.mode /\ box'.documents = box.documents
        /\ box'.provider = box.provider /\ box'.phase = box.phase
        /\ box'.step = box.step /\ box'.put = box.put /\ box'.pc = pc
    BY <2>1 DEF IInv, Types, BoxFields, IsBox
  <2>3. box'.step \in Steps /\ box'.pc \in Training \ {"manifest"}
    BY <1>1, <2>1, <2>2, DueFirstIn
  <2> QED BY <1>1, <1>3, <2>2, <2>3, LearningInv
<1> QED BY <1>4, <1>5

(* The metrics are fixed before the first artifact is put.                  *)
LEMMA LearnReturnsInv ==
  ASSUME IInv, LearnReturns
  PROVE  IInv'
<1>1. /\ box.pc = "learn" /\ box.pc \in Training \ {"artifacts", "manifest"}
      /\ BoxOnly /\ UNCHANGED bucket /\ box.step \in Steps
  BY DEF LearnReturns, Training, IInv, Types, TypeOK
<1>2. PICK metrics : box' = [box EXCEPT !.metrics = metrics, !.pc = "artifacts"]
  BY DEF LearnReturns
<1>3. /\ IsBox(box') /\ box'.mode = box.mode /\ box'.documents = box.documents
      /\ box'.provider = box.provider /\ box'.phase = box.phase
      /\ box'.step = box.step /\ box'.put = box.put /\ box'.pc = "artifacts"
  BY <1>2 DEF IInv, Types, BoxFields, IsBox
<1>4. box'.pc \in Training \ {"manifest"}
  BY <1>3 DEF Training
<1> QED BY <1>1, <1>3, <1>4, LearningInv

-----------------------------------------------------------------------------
(* The artifacts put so far have the bytes that will be listed.             *)
LEMMA PutArtifactInv ==
  ASSUME IInv, PutArtifact
  PROVE  IInv'
<1> DEFINE n == box.put + 1
           a == Artifacts[n]
<1>1. /\ box.pc = "artifacts" /\ box.pc \in Training /\ BoxOnly
      /\ box.put \in 0..10 /\ n \in 1..11
      /\ Puts("train", [Here EXCEPT !.artifacts[a] = ArtifactBytes(box)[a]])
      /\ box' \in {[box EXCEPT !.put = n], Exits(2)}
  BY Lengths3 DEF PutArtifact, Answered, Training, IInv, Types, TypeOK
<1>2. a \in ArtifactNames
  BY <1>1, Lengths3 DEF ArtifactNames
<1> HIDE DEF a
<1>3. PICK p : p = [Here EXCEPT !.artifacts[a] = ArtifactBytes(box)[a]]
  OBVIOUS
<1>4. /\ IsFolder(Here) /\ DOMAIN Here.checkpoints \subseteq Steps
      /\ Here = bucket["train"]
  BY <1>1 DEF IInv, Types, TypeOK, Objects, Here, Publishing, Kinds
<1>5. PICK artifacts : /\ artifacts = [Here.artifacts EXCEPT ![a] = ArtifactBytes(box)[a]]
                       /\ p = [Here EXCEPT !.artifacts = artifacts]
  BY <1>3
<1>6. /\ artifacts = [x \in ArtifactNames |-> artifacts[x]]
      /\ artifacts[a] = ArtifactBytes(box)[a]
      /\ \A x \in ArtifactNames \ {a} : artifacts[x] = Here.artifacts[x]
  BY <1>2, <1>4, <1>5 DEF IsFolder
<1>7. Adds(p) /\ p.artifacts = artifacts
  BY <1>4, <1>5, <1>6 DEF IsFolder, Adds
<1>8. Puts("train", p)
  BY <1>1, <1>3
<1>9. CASE box' = Exits(2)
  BY <1>1, <1>7, <1>8, <1>9, AddsAndDies
<1>10. CASE box' = [box EXCEPT !.put = n]
  <2>1. /\ IsBox(box') /\ box'.mode = box.mode /\ box'.documents = box.documents
        /\ box'.provider = box.provider /\ box'.phase = box.phase
        /\ box'.step = box.step /\ box'.put = n /\ box'.pc = box.pc
        /\ box'.metrics = box.metrics
    BY <1>10 DEF IInv, Types, BoxFields, IsBox
  <2>2. box'.step \in Steps /\ box'.put \in 0..11
    BY <1>1, <2>1 DEF IInv, Types, TypeOK
  <2>3. ContainerFrame /\ Report' = Report /\ Listed' = Listed
    BY <1>1, <1>7, <1>8, <2>1, <2>2, TrainingFrame
  <2>4. ArtifactBytes(box') = ArtifactBytes(box)
    <3>1. PICK b : b = box'
      OBVIOUS
    <3> QED BY <2>1, <3>1, BytesSame
  <2>5. bucket'["train"] = p
    BY <1>1, <1>7, <1>8, AddsInv
  <2>6. \A i \in 1..n : artifacts[Artifacts[i]] = ArtifactBytes(box)[Artifacts[i]]
    <3> SUFFICES ASSUME NEW i \in 1..n
                 PROVE  artifacts[Artifacts[i]] = ArtifactBytes(box)[Artifacts[i]]
      OBVIOUS
    <3>1. i \in 1..11 /\ (i = n \/ i \in 1..box.put)
      BY <1>1
    <3>2. Artifacts[i] \in ArtifactNames
      BY <3>1, Lengths3 DEF ArtifactNames
    <3>3. CASE Artifacts[i] = a
      BY <1>6, <3>3
    <3>4. CASE Artifacts[i] # a
      <4>1. i \in 1..box.put
        BY <3>1, <3>4 DEF a
      <4>2. Here.artifacts[Artifacts[i]] = ArtifactBytes(box)[Artifacts[i]]
        BY <1>1, <1>4, <4>1 DEF IInv, Publishing
      <4> QED BY <1>6, <3>2, <3>4, <4>2
    <3> QED BY <3>3, <3>4
  <2>7. box'.pc = "artifacts" /\ proven' = proven
    BY <1>1, <2>1 DEF BoxOnly
  <2>8. \A i \in 1..box'.put : bucket'["train"].artifacts[Artifacts[i]]
                                = ArtifactBytes(box')[Artifacts[i]]
    BY <1>7, <2>1, <2>4, <2>5, <2>6
  <2>9. box'.pc \in Training /\ box'.pc # "manifest"
    BY <2>7 DEF Training
  <2> HIDE DEF n
  <2> QED BY <1>1, <2>1, <2>3, <2>7, <2>8, <2>9, TrainingInv
<1> QED BY <1>1, <1>9, <1>10

(* The status says completed when every artifact is there.                  *)
LEMMA PutCompletedInv ==
  ASSUME IInv, PutCompleted
  PROVE  IInv'
<1>1. /\ box.pc = "artifacts" /\ box.pc \in Training /\ BoxOnly /\ box.put = 11
      /\ box' \in {[box EXCEPT !.pc = "manifest"], Exits(2)}
  BY Lengths3 DEF PutCompleted, AllArtifactsPut, Answered, Training
<1>2. PICK p : p = [Here EXCEPT !.status = "completed"]
  OBVIOUS
<1>3. /\ IsFolder(Here) /\ DOMAIN Here.checkpoints \subseteq Steps
      /\ Here = bucket["train"]
  BY <1>1 DEF IInv, Types, TypeOK, Objects, Here, Publishing, Kinds
<1>4. /\ Adds(p) /\ p.artifacts = Here.artifacts /\ p.status = "completed"
      /\ Puts("train", p)
  <2>1. Adds(p) /\ p.artifacts = Here.artifacts /\ p.status = "completed"
    BY <1>2, <1>3 DEF IsFolder, Adds
  <2> QED BY <1>2, <2>1 DEF PutCompleted
<1>5. CASE box' = Exits(2)
  BY <1>1, <1>4, <1>5, AddsAndDies
<1>6. CASE box' = [box EXCEPT !.pc = "manifest"]
  <2>1. /\ IsBox(box') /\ box'.mode = box.mode /\ box'.documents = box.documents
        /\ box'.provider = box.provider /\ box'.phase = box.phase
        /\ box'.step = box.step /\ box'.put = box.put /\ box'.pc = "manifest"
        /\ box'.metrics = box.metrics
    BY <1>6 DEF IInv, Types, BoxFields, IsBox
  <2>2. box'.step \in Steps /\ box'.put \in 0..11
    BY <1>1, <2>1 DEF IInv, Types, TypeOK
  <2>3. ContainerFrame /\ Report' = Report /\ Listed' = Listed
    BY <1>1, <1>4, <2>1, <2>2, TrainingFrame
  <2>4. ArtifactBytes(box') = ArtifactBytes(box)
    <3>1. PICK b : b = box'
      OBVIOUS
    <3> QED BY <2>1, <3>1, BytesSame
  <2>5. bucket'["train"] = p
    BY <1>1, <1>4, AddsInv
  <2>6. \A i \in 1..box'.put : bucket'["train"].artifacts[Artifacts[i]]
                                = ArtifactBytes(box')[Artifacts[i]]
    BY <1>1, <1>3, <1>4, <2>1, <2>4, <2>5 DEF IInv, Publishing
  <2>7. /\ box'.put = Len(Artifacts) /\ bucket'["train"].status = "completed"
        /\ box'.pc \in Training /\ proven' = proven
    BY <1>1, <1>4, <2>1, <2>5, Lengths3 DEF Training, BoxOnly
  <2> QED BY <1>1, <2>1, <2>3, <2>6, <2>7, TrainingInv
<1> QED BY <1>1, <1>5, <1>6

(* The listing names what is there.                                         *)
LEMMA PutManifestInv ==
  ASSUME IInv, PutManifest
  PROVE  IInv'
<1>1. /\ box.pc = "manifest" /\ box.pc # "gone" /\ box.mode = "train"
      /\ "train" \in Kinds /\ "train" # "prepare" /\ Here = bucket["train"]
      /\ UNCHANGED <<deployed, deploys, attempt, run, writer, proven>>
  BY DEF PutManifest, BoxOnly, IInv, Publishing, Training, Kinds, Here
<1>2. PICK p : p = [Here EXCEPT !.manifest = ArtifactBytes(box)]
  OBVIOUS
<1>3. IsFolder(Here) /\ DOMAIN Here.checkpoints \subseteq Steps
  BY <1>1 DEF IInv, Types, TypeOK, Objects
<1>4. /\ IsFolder(p) /\ p.inputs = Here.inputs /\ p.artifacts = Here.artifacts
      /\ p.status = Here.status /\ p.checkpoints = Here.checkpoints
      /\ p.manifest = ArtifactBytes(box)
  BY <1>2, <1>3 DEF IsFolder
<1>5. /\ Objects' /\ bucket'["train"] = p
      /\ \A k \in Kinds \ {"train"} : bucket'[k] = bucket[k]
  BY <1>1, <1>2, <1>4, PutsObjects DEF IInv, Types, PutManifest
<1>6. \A a \in ArtifactNames : p.artifacts[a] = p.manifest[a]
  BY <1>1, <1>4, Lengths3 DEF IInv, Publishing, ArtifactNames
<1>7. Readable(p) \/ p.manifest = None
  BY <1>4, <1>6 DEF Readable, ArtifactBytes
<1>8. p.artifacts["policy_bundle"].model = p.artifacts["final_policy"]
      /\ p.artifacts["policy_bundle"].fingerprint = run.fingerprint
  <2>1. "policy_bundle" \in ArtifactNames /\ "final_policy" \in ArtifactNames
    <3>1. Artifacts[8] = "policy_bundle" /\ Artifacts[1] = "final_policy"
      BY DEF Artifacts
    <3> QED BY <3>1, Lengths3 DEF ArtifactNames
  <2>2. /\ ArtifactBytes(box)["policy_bundle"] = Bundle(box)
        /\ ArtifactBytes(box)["final_policy"] = box.metrics.published.model
    BY <2>1 DEF ArtifactBytes
  <2>3. /\ Bundle(box).model = box.metrics.published.model
        /\ Bundle(box).fingerprint = box.documents.manifest.fingerprint
    BY DEF Bundle
  <2>4. box.documents.manifest.fingerprint = run.fingerprint
    <3>1. /\ box.documents = Inputs("train")
          /\ Inputs("train")["manifest"] # None
      BY <1>1 DEF IInv, Documents, Training, Names
    <3>2. Inputs("train")["manifest"].fingerprint = attempt.fingerprint
      BY <3>1 DEF IInv, Documents
    <3>3. run.fingerprint = attempt.fingerprint
      BY <1>1, Running DEF IInv, Requests
    <3> QED BY <3>1, <3>2, <3>3
  <2> QED BY <1>4, <1>6, <2>1, <2>2, <2>3, <2>4
<1>9. ListedIsWhole' /\ ReportInv' /\ Report' = Report
  <2>1. p.status = "completed"
    BY <1>1, <1>4 DEF IInv, Publishing
  <2>2. ListedIsWhole'
    BY <1>1, <1>5, <1>7, <1>8, <2>1 DEF ListedIsWhole
  <2>3. bucket'["prepare"] = bucket["prepare"]
    BY <1>1, <1>5 DEF Kinds
  <2>4. ReportInv' /\ Report' = Report
    BY <1>1, <2>3 DEF IInv, Preparing, ReportInv, Report, Inputs
  <2> QED BY <2>2, <2>4
<1>10. /\ \A kind \in Kinds : bucket'[kind].inputs = bucket[kind].inputs
       /\ DOMAIN bucket'["train"].checkpoints \subseteq Steps
  BY <1>1, <1>3, <1>4, <1>5
<1>11. PICK code \in {0, 2} : box' = Exits(code)
  BY DEF PutManifest, Answered
<1> QED BY <1>1, <1>5, <1>9, <1>10, <1>11, ExitInv

-----------------------------------------------------------------------------
(* Every step preserves the invariant.                                      *)
LEMMA StepInv ==
  ASSUME IInv, [Next]_vars
  PROVE  IInv'
<1>1. CASE UNCHANGED vars
  <2>1. /\ Types' /\ Requests' /\ Documents'
    BY <1>1
       DEF IInv, Types, TypeOK, Rows, Objects, BoxFields, Requests, Documents,
         Inputs, Report
  <2>2. Preparing' /\ Publishing'
    BY <1>1
       DEF IInv, Preparing, ReportInv, Publishing, ListedIsWhole, Listed,
            Report,
         Inputs
  <2> QED BY <2>1, <2>2 DEF IInv
<1>2. CASE Backend
  <2>1. ASSUME NEW d \in Deployments, Deploy(d) PROVE IInv'
    BY <2>1, DeployInv
  <2>2. ASSUME NEW kind \in Kinds, PollFailed(kind) \/ PollDeadline(kind) PROVE IInv'
    BY <2>2, PollFailedInv
  <2>3. CASE Prepare \/ StartTraining
    BY <2>3, PrepareInv, StartTrainingInv
  <2>4. CASE PutInput \/ PutInputFails \/ Submit
    BY <2>4, PutInputInv, PutInputFailsInv, SubmitInv
  <2>5. CASE FinalizePreparation \/ FinalizeTraining
    BY <2>5, FinalizePreparationInv, FinalizeTrainingInv
  <2> QED BY <1>2, <2>1, <2>2, <2>3, <2>4, <2>5 DEF Backend
<1>3. CASE Container
  <2>1. CASE Dies
    BY <2>1, DiesInv DEF Dies
  <2>2. CASE Load \/ PassPhase \/ RefusePhase \/ PutProbe \/ PutReport
    BY <2>2, LoadInv, PassPhaseInv, RefusePhaseInv, PutProbeInv, PutReportInv
  <2>3. CASE PutTraining \/ LearnStep \/ PutCheckpoint \/ Evaluate
    BY <2>3, PutTrainingInv, LearnStepInv, PutCheckpointInv, EvaluateInv
  <2>4. CASE PutProgress \/ LearnReturns \/ PutArtifact \/ PutCompleted \/ PutManifest
    BY <2>4, PutProgressInv, LearnReturnsInv, PutArtifactInv, PutCompletedInv,
       PutManifestInv
  <2> QED BY <1>3, <2>1, <2>2, <2>3, <2>4 DEF Container
<1> QED BY <1>1, <1>2, <1>3 DEF Next

(* The invariant holds always.                                              *)
LEMMA AlwaysIInv == Spec => []IInv
<1>1. Init => IInv
  BY InitInv
<1>2. IInv /\ [Next]_vars => IInv'
  BY StepInv
<1> QED BY <1>1, <1>2, PTL DEF Spec

(* Every variable of the job has its type, whatever the profile is.         *)
THEOREM Typing == Spec => []TypeOK
<1>1. IInv => TypeOK
  BY DEF IInv, Types
<1> QED BY <1>1, AlwaysIInv, PTL

(* A preparation is accepted only if every mandatory phase ran to its end,  *)
(* on the inputs of its own fingerprint (run_preparation, main's exit code, *)
(* _finalize_preparation).                                                  *)
THEOREM Proven == Spec => []AcceptedIsProven
<1>1. IInv => AcceptedIsProven
  BY DEF IInv, Preparing, ReportInv, AcceptedIsProven, Report, Inputs, All
<1> QED BY <1>1, AlwaysIInv, PTL

(* A training runs on what an accepted preparation proved, whatever was     *)
(* deployed in between (start_robot_setup_training, validate_documents).    *)
THEOREM SameInputs == Spec => []TrainsWhatWasAccepted
<1>1. ASSUME IInv, box.mode = "train", box.documents # None
      PROVE  /\ attempt.state = "accepted"
             /\ box.documents.manifest.fingerprint = attempt.fingerprint
             /\ box.documents.robot = bucket["prepare"].inputs.robot
             /\ box.documents.setup = bucket["prepare"].inputs.setup
             /\ bucket["train"].inputs = box.documents
  <2>1. /\ box.documents = Inputs("train")
        /\ \A n \in Names : Inputs("train")[n] # None
    BY <1>1 DEF IInv, Documents
  <2>2. /\ attempt.state = "accepted"
        /\ Inputs("train")["manifest"].fingerprint = attempt.fingerprint
    BY <1>1, <2>1 DEF IInv, Documents, Names
  <2>3. \A n \in Names : Inputs("prepare")[n] # None
    BY <2>2, <1>1 DEF IInv, Preparing, ReportInv
  <2>4. /\ Inputs("train")["robot"] = Inputs("prepare")["robot"]
        /\ Inputs("train")["setup"] = Inputs("prepare")["setup"]
    BY <1>1, <2>1, <2>3 DEF IInv, Documents, Names, Kinds
  <2> QED BY <2>1, <2>2, <2>4 DEF Inputs
<1>2. IInv => TrainsWhatWasAccepted
  BY <1>1 DEF TrainsWhatWasAccepted
<1> QED BY <1>2, AlwaysIInv, PTL

(* A listed result is all there, and the policy of the bundle is the        *)
(* published one (the order of the puts at the end of run_training).        *)
THEOREM WholeListing == Spec => []ListedIsWhole
<1>1. IInv => ListedIsWhole
  BY DEF IInv, Publishing
<1> QED BY <1>1, AlwaysIInv, PTL

-----------------------------------------------------------------------------
(* A set of naturals with 0 and every successor is all of them: how what a  *)
(* recursive function computes is shown, without an operator to instantiate.*)
LEMMA SetInduction ==
  ASSUME NEW S, 0 \in S, \A m \in Nat : m \in S => m + 1 \in S
  PROVE  \A m \in Nat : m \in S
<1> DEFINE T == {m \in Nat : m \notin S}
<1> SUFFICES ASSUME T # {} PROVE FALSE
  OBVIOUS
<1>1. PICK m \in T : \A k \in T : ~(<<k, m>> \in OpToRel(<, Nat))
  BY NatLessThanWellFounded, WFMin
<1>2. m \in Nat /\ m # 0 /\ \A k \in T : ~(k < m)
  BY <1>1 DEF OpToRel
<1>3. m - 1 \in Nat /\ m - 1 < m /\ (m - 1) + 1 = m
  BY <1>2
<1>4. m - 1 \in S
  BY <1>2, <1>3
<1>5. m \in S
  BY <1>3, <1>4
<1> QED BY <1>1, <1>5

(* The episode after each step of a trace.                                  *)
LEMMA PlayedIs ==
  ASSUME NEW settled, NEW trace, Len(trace) \in Nat
  PROVE  Played(settled, trace) =
           [k \in 0..Len(trace) |->
              IF k = 0 THEN Reset(settled)
              ELSE Advance(Played(settled, trace)[k - 1], trace[k])]
<1> DEFINE Computes(f, n) ==
             f = [k \in 0..n |-> IF k = 0 THEN Reset(settled)
                                          ELSE Advance(f[k - 1], trace[k])]
           some == {n \in Nat : \E f : Computes(f, n)}
<1>1. 0 \in some
  <2> DEFINE f == [k \in 0..0 |-> Reset(settled)]
  <2>1. Computes(f, 0)
    OBVIOUS
  <2> QED BY <2>1
<1>2. ASSUME NEW n \in Nat, n \in some PROVE n + 1 \in some
  <2>1. PICK f : Computes(f, n)
    BY <1>2
  <2> DEFINE g == [k \in 0..(n + 1) |-> IF k = n + 1 THEN Advance(f[n], trace[n + 1])
                                                     ELSE f[k]]
  <2>2. ASSUME NEW k \in 0..(n + 1)
        PROVE  g[k] = IF k = 0 THEN Reset(settled) ELSE Advance(g[k - 1], trace[k])
    <3>1. CASE k = n + 1
      <4>1. k # 0 /\ k - 1 = n /\ n \in 0..(n + 1) /\ n # n + 1
        BY <3>1
      <4>2. g[k - 1] = f[n] /\ g[k] = Advance(f[n], trace[n + 1])
        BY <3>1, <4>1
      <4> QED BY <3>1, <4>1, <4>2
    <3>2. CASE k # n + 1
      <4>1. k \in 0..n
        BY <3>2
      <4>2. g[k] = f[k] /\ (k # 0 => k - 1 \in 0..(n + 1) /\ k - 1 # n + 1)
        BY <3>2, <4>1
      <4>3. k # 0 => g[k - 1] = f[k - 1]
        BY <4>2
      <4>4. f[k] = IF k = 0 THEN Reset(settled) ELSE Advance(f[k - 1], trace[k])
        BY <2>1, <4>1
      <4> QED BY <4>2, <4>3, <4>4
    <3> QED BY <3>1, <3>2
  <2>3. Computes(g, n + 1)
    BY <2>2
  <2> HIDE DEF g
  <2> QED BY <2>3
<1>3. Len(trace) \in some
  <2> HIDE DEF some
  <2> QED BY <1>1, <1>2, SetInduction
<1>4. \E f : Computes(f, Len(trace))
  BY <1>3
<1>5. Played(settled, trace) = CHOOSE f : Computes(f, Len(trace))
  BY DEF Played
<1> QED BY <1>4, <1>5

(* The rewards of the first episodes.                                       *)
LEMMA RewardsAre ==
  ASSUME NEW played, Len(played) \in Nat
  PROVE  Rewards(played) =
           [k \in 0..Len(played) |->
              IF k = 0 THEN 0 ELSE Rewards(played)[k - 1] + played[k].reward]
<1> DEFINE Sums(f, n) ==
             f = [k \in 0..n |-> IF k = 0 THEN 0 ELSE f[k - 1] + played[k].reward]
           some == {n \in Nat : \E f : Sums(f, n)}
<1>1. 0 \in some
  <2> DEFINE f == [k \in 0..0 |-> 0]
  <2>1. Sums(f, 0)
    OBVIOUS
  <2> QED BY <2>1
<1>2. ASSUME NEW n \in Nat, n \in some PROVE n + 1 \in some
  <2>1. PICK f : Sums(f, n)
    BY <1>2
  <2> DEFINE g == [k \in 0..(n + 1) |-> IF k = n + 1 THEN f[n] + played[n + 1].reward
                                                     ELSE f[k]]
  <2>2. ASSUME NEW k \in 0..(n + 1)
        PROVE  g[k] = IF k = 0 THEN 0 ELSE g[k - 1] + played[k].reward
    <3>1. CASE k = n + 1
      <4>1. k # 0 /\ k - 1 = n /\ n \in 0..(n + 1) /\ n # n + 1
        BY <3>1
      <4>2. g[k - 1] = f[n] /\ g[k] = f[n] + played[n + 1].reward
        BY <3>1, <4>1
      <4> QED BY <3>1, <4>1, <4>2
    <3>2. CASE k # n + 1
      <4>1. k \in 0..n
        BY <3>2
      <4>2. g[k] = f[k] /\ (k # 0 => k - 1 \in 0..(n + 1) /\ k - 1 # n + 1)
        BY <3>2, <4>1
      <4>3. k # 0 => g[k - 1] = f[k - 1]
        BY <4>2
      <4>4. f[k] = IF k = 0 THEN 0 ELSE f[k - 1] + played[k].reward
        BY <2>1, <4>1
      <4> QED BY <4>2, <4>3, <4>4
    <3> QED BY <3>1, <3>2
  <2>3. Sums(g, n + 1)
    BY <2>2
  <2> HIDE DEF g
  <2> QED BY <2>3
<1>3. Len(played) \in some
  <2> HIDE DEF some
  <2> QED BY <1>1, <1>2, SetInduction
<1>4. \E f : Sums(f, Len(played))
  BY <1>3
<1>5. Rewards(played) = CHOOSE f : Sums(f, Len(played))
  BY DEF Rewards
<1> QED BY <1>4, <1>5

-----------------------------------------------------------------------------
(* The fields of an episode whose reward is a number.                       *)
IsEpisode(e) ==
  /\ e = [steps |-> e.steps, unsupported |-> e.unsupported, stance |-> e.stance,
          reward |-> e.reward, reference |-> e.reference, x0 |-> e.x0, y0 |-> e.y0,
          last |-> e.last, reason |-> e.reason]
  /\ e.reward \in Int

(* Every motion plays to an episode whose reward is a number.               *)
LEMMA PlayReward ==
  ASSUME NEW trace \in Motions
  PROVE  Play(Settled, trace).reward \in Int
<1>1. Len(trace) \in Nat /\ DOMAIN trace = 1..Len(trace)
      /\ \A k \in 1..Len(trace) : trace[k].pay \in Int
  BY MotionsAssumption
<1> DEFINE f == Played(Settled, trace)
           S == {m \in Nat : m <= Len(trace) => IsEpisode(f[m])}
<1>2. \A k \in 0..Len(trace) :
        f[k] = IF k = 0 THEN Reset(Settled) ELSE Advance(f[k - 1], trace[k])
  BY <1>1, PlayedIs
<1>3. 0 \in S
  <2>1. f[0] = Reset(Settled)
    BY <1>1, <1>2
  <2>2. IsEpisode(Reset(Settled))
    BY DEF IsEpisode, Reset
  <2> QED BY <2>1, <2>2
<1>4. ASSUME NEW m \in Nat, m \in S PROVE m + 1 \in S
  <2> SUFFICES ASSUME m + 1 <= Len(trace) PROVE IsEpisode(f[m + 1])
    OBVIOUS
  <2>1. m + 1 \in 1..Len(trace) /\ m + 1 # 0 /\ (m + 1) - 1 = m /\ m <= Len(trace)
        /\ m + 1 \in 0..Len(trace)
    BY <1>1
  <2> HIDE DEF f
  <2>2. f[m + 1] = Advance(f[m], trace[m + 1])
    <3>1. f[m + 1] = IF m + 1 = 0 THEN Reset(Settled)
                     ELSE Advance(f[(m + 1) - 1], trace[m + 1])
      BY <1>2, <2>1
    <3> QED BY <2>1, <3>1
  <2>3. IsEpisode(f[m]) /\ trace[m + 1].pay \in Int
    BY <1>1, <1>4, <2>1
  <2>4. PICK e, s : e = f[m] /\ s = trace[m + 1]
    OBVIOUS
  <2>5. IsEpisode(Step(e, s))
    <3>1. PICK r : r = TerminationReason(e, s)
      OBVIOUS
    <3>2. PICK lost \in {0, 1} : lost = IF Terminated(r) THEN 1 ELSE 0
      OBVIOUS
    <3>3. e.reward \in Int /\ s.pay \in Int
      BY <2>3, <2>4 DEF IsEpisode
    <3>4. Step(e, s) =
            [e EXCEPT !.steps = @ + 1,
                      !.unsupported = @ + (IF s.unsupported THEN 1 ELSE 0),
                      !.stance = @ + s.stance,
                      !.reward = @ + s.pay - lost,
                      !.last = s, !.reason = r]
      BY <3>1, <3>2 DEF Step
    <3>5. Step(e, s) = [steps |-> e.steps + 1,
                        unsupported |-> e.unsupported + (IF s.unsupported THEN 1 ELSE 0),
                        stance |-> e.stance + s.stance,
                        reward |-> e.reward + s.pay - lost,
                        reference |-> e.reference, x0 |-> e.x0, y0 |-> e.y0,
                        last |-> s, reason |-> r]
      BY <2>3, <2>4, <3>4 DEF IsEpisode
    <3>6. e.reward + s.pay - lost \in Int
      BY <3>3
    <3> QED BY <3>5, <3>6 DEF IsEpisode
  <2> QED BY <2>2, <2>3, <2>4, <2>5 DEF Advance
<1>5. \A m \in Nat : m \in S
  <2> HIDE DEF S
  <2> QED BY <1>3, <1>4, SetInduction
<1>6. IsEpisode(f[Len(trace)])
  BY <1>1, <1>5
<1> QED BY <1>6 DEF Play, IsEpisode

(* A function from 1..n is a sequence of n.                                 *)
LEMMA SequenceOf ==
  ASSUME NEW S, NEW n \in Nat, NEW f \in [1..n -> S]
  PROVE  f \in Seq(S) /\ Len(f) = n /\ DOMAIN f = 1..n
  OBVIOUS

(* The success rate and the reward of every evaluation are numbers.         *)
Numbers(r) == r.success_rate \in Int /\ r.reward \in Int

LEMMA EvaluationNumbers ==
  ASSUME NEW r \in Evaluations(ProgressSeeds, ProgressEpisodes)
  PROVE  Numbers(r)
<1> DEFINE n == ProgressEpisodes
           Episodes == {Play(Settled, trace) : trace \in Motions}
<1>1. PICK moves \in [1..n -> Motions] :
        r = EvaluatePolicy(ProgressSeeds, [i \in 1..n |-> Play(Settled, moves[i])])
  BY DEF Evaluations
<1> DEFINE played == [i \in 1..n |-> Play(Settled, moves[i])]
<1>2. n \in Nat \ {0}
  BY ProfileAssumption
<1>3. played \in [1..n -> Episodes]
  OBVIOUS
<1>4. Len(played) = n
  <2> HIDE DEF n, Episodes, played
  <2> QED BY <1>2, <1>3, SequenceOf
<1>5. \A k \in 1..n : played[k].reward \in Int
  BY PlayReward
<1> HIDE DEF played, n
<1>6. r.reward = Rewards(played)[n]
  BY <1>1, <1>4 DEF EvaluatePolicy, played, n
<1>7. r.success_rate = (100 * Cardinality({i \in 1..n : Success(played[i])})) \div n
  BY <1>1, <1>4 DEF EvaluatePolicy, played, n
<1>8. r.success_rate \in Int
  <2>1. IsFiniteSet(1..n)
    BY <1>2, FS_Interval
  <2>2. Cardinality({i \in 1..n : Success(played[i])}) \in Nat
    BY <2>1, FS_Subset, FS_CardinalityType
  <2> QED BY <1>2, <1>7, <2>2
<1>9. Rewards(played)[n] \in Int
  <2> DEFINE g == Rewards(played)
             S == {m \in Nat : m <= n => g[m] \in Int}
  <2>1. \A k \in 0..n : g[k] = IF k = 0 THEN 0 ELSE g[k - 1] + played[k].reward
    BY <1>2, <1>4, RewardsAre
  <2> HIDE DEF g
  <2>2. 0 \in S
    BY <1>2, <2>1
  <2>3. ASSUME NEW m \in Nat, m \in S PROVE m + 1 \in S
    <3> SUFFICES ASSUME m + 1 <= n PROVE g[m + 1] \in Int
      OBVIOUS
    <3>1. m + 1 \in 1..n /\ m + 1 \in 0..n /\ m + 1 # 0 /\ (m + 1) - 1 = m /\ m <= n
      BY <1>2
    <3>2. g[m + 1] = IF m + 1 = 0 THEN 0 ELSE g[(m + 1) - 1] + played[m + 1].reward
      BY <2>1, <3>1
    <3>3. g[m] \in Int /\ played[m + 1].reward \in Int
      BY <1>5, <2>3, <3>1
    <3> QED BY <3>1, <3>2, <3>3
  <2>4. \A m \in Nat : m \in S
    <3> HIDE DEF S
    <3> QED BY <2>2, <2>3, SetInduction
  <2> QED BY <1>2, <2>4 DEF g
<1> QED BY <1>6, <1>8, <1>9 DEF Numbers

(* Whoever is no worse than somebody better is better.                      *)
LEMMA Ranked ==
  ASSUME NEW a, NEW b, NEW c, Numbers(a), Numbers(b), Numbers(c)
  PROVE  /\ ~Better(a, a)
         /\ Better(a, b) /\ ~Better(c, b) => Better(a, c) /\ ~Better(c, a)
  BY DEF Better, checkpoint_rank, Numbers

-----------------------------------------------------------------------------
(* The steps at which a checkpoint falls due, and a profile that evaluates  *)
(* checkpoints only, one of them within the training: custom_robot_contract *)
(* gives both cadences one value.                                           *)
Multiples == {d * CheckpointEvery : d \in Nat}
EvaluatesCheckpoints == EvaluationEvery \in Multiples /\ EvaluationEvery <= LearnEnds

Results == Evaluations(ProgressSeeds, ProgressEpisodes)
Saved == bucket["train"].checkpoints
Learning == {"start", "learn", "checkpoint", "evaluate", "progress"}

(* When the next checkpoint and the next evaluation of a container are due: *)
(* an evaluation falls on a checkpoint, and follows its put.                *)
Cadence(b, saved) ==
  /\ b.pc \in {"load", "start"} => b.step = 0 /\ b.evaluations = <<>>
  /\ b.pc = "load" => b.best = None
  /\ b.pc \in Learning => b.nextCheckpoint \in Nat /\ b.nextEvaluation \in Nat
  /\ b.pc \in {"start", "learn"} => b.step < b.nextCheckpoint
  /\ b.pc = "checkpoint" => b.step = b.nextCheckpoint
  /\ b.pc \in {"start", "learn", "checkpoint"} =>
       /\ b.nextEvaluation - b.nextCheckpoint \in Multiples
       /\ b.evaluations = <<>> => b.nextEvaluation = EvaluationEvery
  /\ b.pc \in {"evaluate", "progress"} =>
       /\ b.step = b.nextEvaluation
       /\ b.nextCheckpoint = b.step + CheckpointEvery
       /\ b.step \in DOMAIN saved
  /\ b.pc = "progress" => b.evaluations # <<>>

(* The entry of the first of the best evaluations.                          *)
Leads(entries, i) ==
  \A j \in 1..Len(entries) : /\ ~Better(entries[j].result, entries[i].result)
                             /\ j < i => Better(entries[i].result, entries[j].result)
Record(entry) == [result |-> entry.result, step |-> entry.step,
                  model |-> Updates(entry.step)]

(* The record of the best checkpoint is of the first of the best entries.   *)
BestSoFar(entries, best, saved) ==
  /\ entries \in Seq([step : DOMAIN saved, result : Results])
  /\ entries = <<>> => best = None
  /\ entries # <<>> =>
       \E i \in 1..Len(entries) : Leads(entries, i) /\ best = Record(entries[i])

(* The metrics of a container that publishes.                               *)
Chosen(b) ==
  /\ b.evaluations # <<>> /\ b.metrics.evaluations = b.evaluations
  /\ b.metrics.published = [model |-> b.best.model, timesteps |-> b.best.step]

Follows(b, saved) ==
  /\ Cadence(b, saved)
  /\ b.pc \in Training => BestSoFar(b.evaluations, b.best, saved)
  /\ b.pc \in {"artifacts", "manifest"} => Chosen(b)

BestInv ==
  /\ \A s \in DOMAIN Saved : Saved[s] = Updates(s)
  /\ Follows(box, Saved)
  /\ PublishedIsEarliestBest

(* A multiple that is not zero is one or more.                              *)
LEMMA MultipleBelow ==
  ASSUME NEW n \in Multiples, n # 0
  PROVE  n - CheckpointEvery \in Multiples /\ n >= CheckpointEvery
<1>1. PICK d \in Nat : n = d * CheckpointEvery
  BY DEF Multiples
<1>2. CheckpointEvery \in Nat \ {0}
  BY ProfileAssumption
<1>3. d # 0
  BY <1>1, <1>2
<1>4. d - 1 \in Nat /\ n - CheckpointEvery = (d - 1) * CheckpointEvery
  BY <1>1, <1>2, <1>3
<1>5. (d - 1) * CheckpointEvery \in Nat
  BY <1>2, <1>4
<1>6. n - CheckpointEvery \in Multiples
  BY <1>4 DEF Multiples
<1> QED BY <1>1, <1>2, <1>4, <1>5, <1>6

(* Multiples are naturals.                                                  *)
LEMMA MultiplesAre == Multiples \subseteq Nat
<1>1. CheckpointEvery \in Nat
  BY ProfileAssumption
<1> QED BY <1>1 DEF Multiples

(* What fell due at this step is next due one period later.                 *)
LEMMA NextDueIs ==
  ASSUME NEW due \in Nat, NEW every \in Nat \ {0}, LearnEnds >= 1
  PROVE  NextDue(due, every, due) = due + every
<1> DEFINE S == {due + k * every : k \in 0..LearnEnds}
           Good(n) == n > due /\ (n > due => n - every <= due)
<1>1. due + every \in S /\ Good(due + every)
  <2>1. 1 \in 0..LearnEnds /\ due + 1 * every = due + every
    BY StepBounds
  <2> QED BY <2>1
<1>2. ASSUME NEW n \in S, Good(n) PROVE n = due + every
  <2>1. PICK k \in 0..LearnEnds : n = due + k * every
    OBVIOUS
  <2>2. k \in Nat /\ k * every \in Nat
    BY StepBounds
  <2>3. k * every > 0 /\ k * every <= every
    BY <1>2, <2>1, <2>2
  <2>4. k # 0
    BY <2>3
  <2>5. ~(k >= 2)
    <3> SUFFICES ASSUME k >= 2 PROVE FALSE
      OBVIOUS
    <3>1. PICK j \in Nat : k = j + 2
      BY <2>2
    <3>2. k * every = j * every + 2 * every /\ j * every \in Nat
      BY <3>1
    <3> QED BY <2>3, <3>2
  <2>6. k = 1
    BY <2>2, <2>4, <2>5
  <2> QED BY <2>1, <2>6
<1>3. NextDue(due, every, due) = CHOOSE n \in S : Good(n)
  BY DEF NextDue
<1> HIDE DEF S, Good
<1> QED BY <1>1, <1>2, <1>3

(* The record of an evaluated checkpoint is not None.                       *)
LEMMA RecordsAre ==
  ASSUME NEW result \in Results, NEW s \in Steps
  PROVE  [result |-> result, step |-> s, model |-> Updates(s)] # None
<1>1. Updates(s) \in Int
  BY StepBounds, ProfileAssumption DEF Updates, Steps
<1>2. [result |-> result, step |-> s, model |-> Updates(s)]
        \in [result : Results, step : Steps, model : Int]
  BY <1>1
<1> QED BY <1>2, BestAssumption DEF Results

(* The best of one more evaluation.                                         *)
LEMMA OneMore ==
  ASSUME NEW saved, DOMAIN saved \subseteq Steps, NEW entries, NEW best,
         BestSoFar(entries, best, saved),
         NEW result \in Results, NEW s \in DOMAIN saved, NEW next,
         next = IF best = None \/ Better(result, best.result)
                THEN [result |-> result, step |-> s, model |-> Updates(s)]
                ELSE best
  PROVE  /\ BestSoFar(Append(entries, [step |-> s, result |-> result]), next, saved)
         /\ Append(entries, [step |-> s, result |-> result]) # <<>>
<1> DEFINE entry == [step |-> s, result |-> result]
           more == Append(entries, entry)
           n == Len(entries)
           Entry == [step : DOMAIN saved, result : Results]
<1>1. entries \in Seq(Entry) /\ entry \in Entry
  BY DEF BestSoFar
<1>2. /\ more \in Seq(Entry) /\ Len(more) = n + 1 /\ n \in Nat
      /\ more[n + 1] = entry /\ \A j \in 1..n : more[j] = entries[j]
  <2> HIDE DEF entry, Entry
  <2> QED BY <1>1
<1>3. /\ \A j \in 1..n : entries[j].result \in Results /\ entries[j].step \in Steps
      /\ entry.result = result /\ entry.step = s
  <2>1. \A j \in 1..n : entries[j] \in Entry
    <3> HIDE DEF Entry, entry
    <3> QED BY <1>1
  <2>2. \A e \in Entry : e.result \in Results /\ e.step \in DOMAIN saved
    OBVIOUS
  <2> QED BY <2>1, <2>2
<1>4. more # <<>>
  <2>1. Len(<<>>) = 0 /\ n + 1 # 0
    BY <1>2
  <2> QED BY <1>2, <2>1
<1>5. Numbers(result) /\ \A j \in 1..n : Numbers(entries[j].result)
  BY <1>3, EvaluationNumbers DEF Results
<1> HIDE DEF more, entry
<1>6. \E i \in 1..(n + 1) : Leads(more, i) /\ next = Record(more[i])
  <2>1. CASE entries = <<>>
    <3>1. n = 0 /\ best = None
      BY <2>1 DEF BestSoFar
    <3>2. next = Record(more[1]) /\ 1 \in 1..(n + 1)
      BY <1>2, <1>3, <3>1 DEF Record
    <3>3. Leads(more, 1)
      <4>1. \A j \in 1..Len(more) : j = 1
        BY <1>2, <3>1
      <4>2. more[1].result = result
        BY <1>2, <1>3, <3>1
      <4>3. ~Better(result, result)
        BY <1>5, Ranked
      <4> QED BY <4>1, <4>2, <4>3 DEF Leads
    <3> QED BY <3>2, <3>3
  <2>2. CASE entries # <<>>
    <3>1. PICK i \in 1..n : Leads(entries, i) /\ best = Record(entries[i])
      BY <2>2 DEF BestSoFar
    <3>2. best # None /\ best.result = entries[i].result
      BY <1>3, <3>1, RecordsAre DEF Record
    <3>3. CASE Better(result, best.result)
      <4>1. next = Record(more[n + 1]) /\ n + 1 \in 1..(n + 1)
        BY <1>2, <1>3, <3>3 DEF Record
      <4>2. \A j \in 1..n : /\ ~Better(entries[j].result, result)
                            /\ Better(result, entries[j].result)
        BY <1>5, <3>1, <3>2, <3>3, Ranked DEF Leads
      <4>3. ~Better(result, result)
        BY <1>5, Ranked
      <4>4. more[n + 1].result = result
        BY <1>2, <1>3
      <4>5. ASSUME NEW j \in 1..(n + 1)
            PROVE  /\ ~Better(more[j].result, result)
                   /\ j < n + 1 => Better(result, more[j].result)
        <5>1. CASE j = n + 1
          BY <1>2, <4>3, <4>4, <5>1
        <5>2. CASE j \in 1..n
          BY <1>2, <4>2, <5>2
        <5> QED BY <1>2, <5>1, <5>2
      <4>6. Leads(more, n + 1)
        BY <1>2, <4>4, <4>5 DEF Leads
      <4> QED BY <4>1, <4>6
    <3>4. CASE ~Better(result, best.result)
      <4>1. next = Record(more[i]) /\ i \in 1..(n + 1) /\ more[i] = entries[i]
        BY <1>2, <3>1, <3>2, <3>4
      <4>2. ASSUME NEW j \in 1..(n + 1)
            PROVE  /\ ~Better(more[j].result, entries[i].result)
                   /\ j < i => Better(entries[i].result, more[j].result)
        <5>1. CASE j = n + 1
          BY <1>2, <1>3, <3>2, <3>4, <5>1
        <5>2. CASE j \in 1..n
          BY <1>2, <3>1, <5>2 DEF Leads
        <5> QED BY <1>2, <5>1, <5>2
      <4>3. Leads(more, i)
        BY <1>2, <4>1, <4>2 DEF Leads
      <4> QED BY <4>1, <4>3
    <3> QED BY <3>3, <3>4
  <2> QED BY <2>1, <2>2
<1> QED BY <1>2, <1>4, <1>6 DEF BestSoFar, more, entry

-----------------------------------------------------------------------------
(* What the next state has to show.                                         *)
LEMMA NextBest ==
  ASSUME NEW b, box' = b, NEW saved, Saved' = saved,
         \A s \in DOMAIN saved : saved[s] = Updates(s), Follows(b, saved),
         PublishedIsEarliestBest'
  PROVE  BestInv'
BY DEF BestInv, Follows, Cadence, BestSoFar, Leads, Record, Chosen

(* A container that neither loads nor trains has nothing to show.           *)
LEMMA ElsewhereBest ==
  ASSUME BestInv, box'.pc \notin Training \cup {"load"}, Saved' = Saved,
         PublishedIsEarliestBest'
  PROVE  BestInv'
<1>1. PICK b : b = box'
  OBVIOUS
<1>2. Follows(b, Saved)
  BY <1>1 DEF Follows, Cadence, Training, Learning
<1> QED BY <1>1, <1>2, NextBest DEF BestInv

(* Nothing is listed, and nothing claimed.                                  *)
LEMMA Unlisted ==
  ASSUME Listed' = None
  PROVE  PublishedIsEarliestBest'
BY DEF Listed, PublishedIsEarliestBest

(* The published policy of metrics m is the one saved of the first of the   *)
(* best entries.                                                            *)
Earliest(m, saved, policy) ==
  /\ \E i \in DOMAIN m.evaluations :
       /\ m.published.timesteps = m.evaluations[i].step
       /\ \A j \in DOMAIN m.evaluations :
            /\ ~Better(m.evaluations[j].result, m.evaluations[i].result)
            /\ j < i => Better(m.evaluations[i].result, m.evaluations[j].result)
  /\ m.published.timesteps \in DOMAIN saved
  /\ saved[m.published.timesteps] = policy

(* It is what the property says of a listing, in this state and the next.   *)
LEMMA EarliestIs ==
  /\ PublishedIsEarliestBest <=>
       (bucket["train"].manifest # None =>
          Earliest(bucket["train"].manifest["metrics_json"],
                   bucket["train"].checkpoints,
                   bucket["train"].artifacts["final_policy"]))
  /\ PublishedIsEarliestBest' <=>
       (bucket'["train"].manifest # None =>
          Earliest(bucket'["train"].manifest["metrics_json"],
                   bucket'["train"].checkpoints,
                   bucket'["train"].artifacts["final_policy"]))
<1> DEFINE Beats(a, b) == \/ a.success_rate > b.success_rate
                          \/ (a.success_rate = b.success_rate /\ a.reward > b.reward)
<1>1. ASSUME NEW a, NEW b PROVE Beats(a, b) <=> Better(a, b)
  BY DEF Better, checkpoint_rank
<1>2. PublishedIsEarliestBest <=>
       (bucket["train"].manifest # None =>
          Earliest(bucket["train"].manifest["metrics_json"],
                   bucket["train"].checkpoints,
                   bucket["train"].artifacts["final_policy"]))
  BY <1>1 DEF PublishedIsEarliestBest, Earliest
<1>3. PublishedIsEarliestBest' <=>
       (bucket'["train"].manifest # None =>
          Earliest(bucket'["train"].manifest["metrics_json"],
                   bucket'["train"].checkpoints,
                   bucket'["train"].artifacts["final_policy"]))
  BY <1>1 DEF PublishedIsEarliestBest, Earliest
<1> QED BY <1>2, <1>3

(* A step that leaves the objects a listing names.                          *)
LEMMA ListedKept ==
  ASSUME BestInv,
         /\ bucket'["train"].manifest = bucket["train"].manifest
         /\ bucket'["train"].checkpoints = bucket["train"].checkpoints
         /\ bucket'["train"].artifacts = bucket["train"].artifacts
  PROVE  PublishedIsEarliestBest' /\ Saved' = Saved
<1>1. Saved' = Saved
  BY DEF Saved
<1>2. PublishedIsEarliestBest
  BY DEF BestInv
<1> QED BY <1>1, <1>2, EarliestIs

(* The backend writes inputs and rows.                                      *)
LEMMA BackendBest ==
  ASSUME IInv, BestInv, Backend
  PROVE  BestInv'
<1>1. /\ bucket'["train"].manifest = bucket["train"].manifest
      /\ bucket'["train"].checkpoints = bucket["train"].checkpoints
      /\ bucket'["train"].artifacts = bucket["train"].artifacts
  <2>1. CASE PutInput
    <3>1. /\ writer # Idle /\ writer.member <= 3
          /\ bucket' = [bucket EXCEPT ![writer.kind].inputs[Members[writer.member]] =
                          writer.documents[Members[writer.member]]]
      BY <2>1, Lengths3 DEF PutInput
    <3>2. writer.kind \in Kinds
      BY <3>1, WriterOf
    <3>3. IsFolder(bucket["train"]) /\ bucket = [k \in Kinds |-> bucket[k]]
          /\ "train" \in Kinds
      BY DEF IInv, Types, Objects, Kinds
    <3>4. PICK p : p = [bucket["train"] EXCEPT !.inputs[Members[writer.member]] =
                          writer.documents[Members[writer.member]]]
      OBVIOUS
    <3>5. bucket'["train"] \in {bucket["train"], p}
      BY <3>1, <3>2, <3>3, <3>4
    <3>6. /\ p.manifest = bucket["train"].manifest
          /\ p.checkpoints = bucket["train"].checkpoints
          /\ p.artifacts = bucket["train"].artifacts
      BY <3>3, <3>4 DEF IsFolder
    <3> QED BY <3>5, <3>6
  <2>2. CASE PutInputFails
    <3>1. writer # Idle
      BY <2>2 DEF PutInputFails
    <3>2. PICK inputs : bucket' = [bucket EXCEPT ![writer.kind].inputs = inputs]
      BY <2>2 DEF PutInputFails
    <3>3. writer.kind \in Kinds
      BY <3>1, WriterOf
    <3>4. IsFolder(bucket["train"]) /\ bucket = [k \in Kinds |-> bucket[k]]
          /\ "train" \in Kinds
      BY DEF IInv, Types, Objects, Kinds
    <3>5. PICK p : p = [bucket["train"] EXCEPT !.inputs = inputs]
      OBVIOUS
    <3>6. bucket'["train"] \in {bucket["train"], p}
      BY <3>2, <3>3, <3>4, <3>5
    <3>7. /\ p.manifest = bucket["train"].manifest
          /\ p.checkpoints = bucket["train"].checkpoints
          /\ p.artifacts = bucket["train"].artifacts
      BY <3>4, <3>5 DEF IsFolder
    <3> QED BY <3>6, <3>7
  <2>3. CASE UNCHANGED bucket
    BY <2>3
  <2> QED BY <2>1, <2>2, <2>3
          DEF Backend, Deploy, Prepare, StartTraining, Submit, PollFailed,
              PollDeadline, FinalizePreparation, FinalizeTraining
<1>2. PublishedIsEarliestBest' /\ Saved' = Saved
  BY <1>1, ListedKept
<1>3. CASE UNCHANGED box
  BY <1>2, <1>3, NextBest DEF BestInv
<1>4. CASE Submit
  <2>1. CASE UNCHANGED box
    BY <1>3, <2>1
  <2>2. CASE box' = [NoBox EXCEPT !.mode = writer.kind, !.provider = "running",
                       !.pc = "load", !.own = ReleaseOf[deployed.image]]
    <3>1. PICK b : b = box'
      OBVIOUS
    <3>2. b.pc = "load" /\ b.step = 0 /\ b.evaluations = <<>> /\ b.best = None
      BY <2>2, <3>1 DEF NoBox
    <3>3. Follows(b, Saved)
      BY <3>2 DEF Follows, Cadence, Training, Learning
    <3> QED BY <1>2, <3>1, <3>3, NextBest DEF BestInv
  <2> QED BY <1>4, <2>1, <2>2 DEF Submit
<1> QED BY <1>3, <1>4
        DEF Backend, Deploy, Prepare, StartTraining, PutInput, PutInputFails,
            PollFailed, PollDeadline, FinalizePreparation, FinalizeTraining,
            BackendOnly

(* A container that ends without listing.                                   *)
LEMMA ExitBest ==
  ASSUME IInv, BestInv, NEW code, box' = Exits(code), Saved' = Saved,
         PublishedIsEarliestBest'
  PROVE  BestInv'
<1>1. box'.pc = "gone"
  BY DEF Exits, IInv, Types, BoxFields, IsBox
<1> QED BY <1>1, ElsewhereBest DEF Training

(* A preparation puts under its own prefix.                                 *)
LEMMA PreparationBest ==
  ASSUME IInv, BestInv, PassPhase \/ RefusePhase \/ PutProbe \/ PutReport \/ Dies
  PROVE  BestInv'
<1>1. bucket'["train"] = bucket["train"]
  <2>1. CASE UNCHANGED bucket
    BY <2>1
  <2>2. ASSUME NEW p, Puts("prepare", p) PROVE bucket'["train"] = bucket["train"]
    BY <2>2, KindsAreNot DEF Puts, IInv, Types, Objects
  <2> QED BY <2>1, <2>2
          DEF PassPhase, RefusePhase, PutProbe, PutReport, Dies, BoxOnly
<1>2. PublishedIsEarliestBest' /\ Saved' = Saved
  BY <1>1, ListedKept
<1>3. box'.pc \notin Training \cup {"load"}
  <2>1. ASSUME NEW code, box' = Exits(code) PROVE box'.pc = "gone"
    BY <2>1 DEF Exits, IInv, Types, BoxFields, IsBox
  <2>2. CASE PassPhase
    <3>0. PICK pc \in {"probe", "phases"} :
            pc = IF box.phase + 1 = Len(Phases) THEN "probe" ELSE "phases"
      OBVIOUS
    <3>1. box' = [box EXCEPT !.phase = box.phase + 1, !.pc = pc]
      BY <2>2, <3>0 DEF PassPhase
    <3> QED BY <3>1 DEF IInv, Types, BoxFields, IsBox, Training
  <2>3. CASE RefusePhase
    BY <2>3 DEF RefusePhase, IInv, Types, BoxFields, IsBox, Training
  <2>4. CASE PutProbe
    BY <2>1, <2>4 DEF PutProbe, Answered, Goes, IInv, Types, BoxFields, IsBox, Training
  <2>5. CASE PutReport \/ Dies
    <3>1. \E code : box' = Exits(code)
      BY <2>5 DEF PutReport, Answered, Dies
    <3> QED BY <2>1, <3>1 DEF Training
  <2> QED BY <2>2, <2>3, <2>4, <2>5
<1> QED BY <1>2, <1>3, ElsewhereBest

(* Loading sets both cadences to their first values.                        *)
LEMMA LoadBest ==
  ASSUME EvaluatesCheckpoints, IInv, BestInv, Load
  PROVE  BestInv'
<1>1. PublishedIsEarliestBest' /\ Saved' = Saved /\ box.pc = "load"
  BY ListedKept DEF Load
<1>2. CASE box' = Exits(2)
  BY <1>1, <1>2, ExitBest
<1>3. CASE box' # Exits(2)
  <2>0. PICK pc \in {"phases", "start"} :
          pc = IF box.mode = "prepare" THEN "phases" ELSE "start"
    OBVIOUS
  <2>1. box' = [box EXCEPT !.documents = Here.inputs, !.pc = pc,
                  !.nextCheckpoint = CheckpointEvery,
                  !.nextEvaluation = EvaluationEvery]
    BY <1>3, <2>0 DEF Load
  <2>2. PICK b : b = box'
    OBVIOUS
  <2>3. /\ b.pc = pc /\ b.nextCheckpoint = CheckpointEvery
        /\ b.nextEvaluation = EvaluationEvery /\ b.step = box.step
        /\ b.evaluations = box.evaluations /\ b.best = box.best
    BY <2>1, <2>2 DEF IInv, Types, BoxFields, IsBox
  <2>4. box.step = 0 /\ box.evaluations = <<>> /\ box.best = None
    BY <1>1 DEF BestInv, Follows, Cadence
  <2>5. /\ CheckpointEvery \in Nat \ {0} /\ EvaluationEvery \in Nat \ {0}
        /\ EvaluationEvery - CheckpointEvery \in Multiples
    BY ProfileAssumption, MultipleBelow DEF EvaluatesCheckpoints
  <2>6. Cadence(b, Saved)
    BY <2>3, <2>4, <2>5 DEF Cadence, Learning
  <2>7. BestSoFar(b.evaluations, b.best, Saved)
    BY <2>3, <2>4 DEF BestSoFar
  <2>8. Follows(b, Saved)
    BY <2>3, <2>6, <2>7 DEF Follows
  <2> QED BY <1>1, <2>2, <2>8, NextBest DEF BestInv
<1> QED BY <1>2, <1>3

-----------------------------------------------------------------------------
(* A sequence stays one when its elements' set grows.                       *)
LEMMA WiderEntries ==
  ASSUME NEW S, NEW T, S \subseteq T, NEW entries \in Seq(S)
  PROVE  entries \in Seq(T)
  OBVIOUS

(* A step of the training that puts an object.                              *)
LEMMA PutsBest ==
  ASSUME IInv, box.pc \in Training, NEW p, Adds(p), Puts("train", p),
         \A s \in DOMAIN p.checkpoints : p.checkpoints[s] = Updates(s),
         NEW b, box' = b, b.pc = "gone" \/ Follows(b, p.checkpoints)
  PROVE  BestInv'
<1>1. Saved' = p.checkpoints /\ PublishedIsEarliestBest'
  BY AddsInv, Unlisted DEF Saved
<1>2. Follows(b, p.checkpoints)
  BY DEF Follows, Cadence, Training, Learning
<1> QED BY <1>1, <1>2, NextBest

(* A step of the training that puts none.                                   *)
LEMMA StaysBest ==
  ASSUME BestInv, UNCHANGED bucket, NEW b, box' = b, Follows(b, Saved)
  PROVE  BestInv'
<1>1. PublishedIsEarliestBest' /\ Saved' = Saved
  BY ListedKept
<1> QED BY <1>1, NextBest DEF BestInv

(* The place of the callback when no evaluation precedes its checkpoint.    *)
LEMMA DueBest ==
  ASSUME NEW b, NEW c, NEW saved, b.pc = DueFirst(c),
         c.step = b.step, c.nextCheckpoint = b.nextCheckpoint,
         c.nextEvaluation = b.nextEvaluation,
         b.step \in Nat, b.nextCheckpoint \in Nat, b.nextEvaluation \in Nat,
         b.nextEvaluation - b.nextCheckpoint \in Multiples,
         b.step <= b.nextCheckpoint,
         b.evaluations = <<>> => b.nextEvaluation = EvaluationEvery,
         BestSoFar(b.evaluations, b.best, saved)
  PROVE  Follows(b, saved)
<1>1. b.nextEvaluation >= b.nextCheckpoint
  BY MultiplesAre
<1>2. b.pc = IF b.step = b.nextCheckpoint THEN "checkpoint" ELSE "learn"
  BY <1>1 DEF DueFirst
<1>3. Cadence(b, saved)
  BY <1>2 DEF Cadence, Learning
<1> QED BY <1>2, <1>3 DEF Follows

(* The fields of a container that a step of its callback does not assign.   *)
Same(b, c) ==
  /\ b.evaluations = c.evaluations /\ b.best = c.best /\ b.metrics = c.metrics

(* The status of a training says that it trains.                            *)
LEMMA PutTrainingBest ==
  ASSUME IInv, BestInv, PutTraining
  PROVE  BestInv'
<1>1. /\ box.pc = "start" /\ box.pc \in Training /\ Here = bucket["train"]
      /\ IsFolder(Here) /\ DOMAIN Here.checkpoints \subseteq Steps
  BY DEF PutTraining, Training, IInv, Types, TypeOK, Objects, Here, Publishing, Kinds
<1>2. PICK p : p = [Here EXCEPT !.status = "training"]
  OBVIOUS
<1>3. Adds(p) /\ Puts("train", p) /\ p.checkpoints = Saved
  BY <1>1, <1>2 DEF IsFolder, Adds, Saved, PutTraining
<1>4. PICK b : b = box'
  OBVIOUS
<1>5. b.pc = "gone" \/ Follows(b, Saved)
  <2>1. CASE b = Exits(2)
    BY <2>1 DEF Exits, IInv, Types, BoxFields, IsBox
  <2>2. CASE b = [box EXCEPT !.pc = "learn"]
    <3>1. /\ b.pc = "learn" /\ Same(b, box) /\ b.step = box.step
          /\ b.nextCheckpoint = box.nextCheckpoint
          /\ b.nextEvaluation = box.nextEvaluation
      BY <2>2 DEF IInv, Types, BoxFields, IsBox, Same
    <3>2. Cadence(b, Saved)
      BY <1>1, <3>1 DEF BestInv, Follows, Cadence, Learning, Same
    <3>3. BestSoFar(b.evaluations, b.best, Saved)
      BY <1>1, <3>1 DEF BestInv, Follows, Same
    <3> QED BY <3>1, <3>2, <3>3 DEF Follows
  <2> QED BY <1>4, <2>1, <2>2 DEF PutTraining, Answered
<1> QED BY <1>1, <1>3, <1>4, <1>5, PutsBest DEF BestInv

(* One more step does not pass what is due.                                 *)
LEMMA LearnStepBest ==
  ASSUME IInv, BestInv, LearnStep
  PROVE  BestInv'
<1>1. /\ box.pc = "learn" /\ UNCHANGED bucket /\ box.step \in Nat
  BY StepBounds DEF LearnStep, IInv, Types, TypeOK, Steps
<1>2. PICK c : c = [box EXCEPT !.step = @ + 1]
  OBVIOUS
<1>3. PICK b, pc : b = box' /\ pc = DueFirst(c) /\ b = [c EXCEPT !.pc = pc]
  BY <1>2 DEF LearnStep
<1>4. /\ b.pc = DueFirst(c) /\ c.step = b.step /\ b.step = box.step + 1
      /\ c.nextCheckpoint = b.nextCheckpoint /\ c.nextEvaluation = b.nextEvaluation
      /\ b.nextCheckpoint = box.nextCheckpoint
      /\ b.nextEvaluation = box.nextEvaluation /\ Same(b, box)
  BY <1>2, <1>3 DEF IInv, Types, BoxFields, IsBox, Same
<1>5. /\ box.nextCheckpoint \in Nat /\ box.nextEvaluation \in Nat
      /\ box.step < box.nextCheckpoint
      /\ box.nextEvaluation - box.nextCheckpoint \in Multiples
      /\ box.evaluations = <<>> => box.nextEvaluation = EvaluationEvery
      /\ BestSoFar(box.evaluations, box.best, Saved)
  BY <1>1 DEF BestInv, Follows, Cadence, Learning, Training
<1>6. b.step \in Nat /\ b.step <= b.nextCheckpoint
  BY <1>1, <1>4, <1>5
<1>7. Follows(b, Saved)
  BY <1>4, <1>5, <1>6, DueBest DEF Same
<1> QED BY <1>1, <1>3, <1>7, StaysBest

(* A checkpoint is put before the evaluation of its step.                   *)
LEMMA PutCheckpointBest ==
  ASSUME EvaluatesCheckpoints, IInv, BestInv, PutCheckpoint
  PROVE  BestInv'
<1>1. /\ box.pc = "checkpoint" /\ box.pc \in Training /\ Here = bucket["train"]
      /\ IsFolder(Here) /\ Saved = Here.checkpoints
      /\ DOMAIN Saved \subseteq Steps /\ box.step \in Steps /\ box.step \in Nat
  BY StepBounds
     DEF PutCheckpoint, Training, IInv, Types, TypeOK, Objects, Here, Publishing,
         Kinds, Saved, Steps
<1>2. PICK saved :
        saved = [s \in DOMAIN Saved \cup {box.step} |->
                   IF s = box.step THEN Updates(box.step) ELSE Saved[s]]
  OBVIOUS
<1>3. PICK p : p = [Here EXCEPT !.checkpoints = saved]
  OBVIOUS
<1>4. /\ DOMAIN saved = DOMAIN Saved \cup {box.step}
      /\ \A s \in DOMAIN saved : saved[s] = Updates(s)
  BY <1>2 DEF BestInv
<1>5. p.checkpoints = saved /\ Adds(p)
  BY <1>1, <1>3, <1>4 DEF IsFolder, Adds
<1>6. Puts("train", p)
  BY <1>1, <1>2, <1>3 DEF PutCheckpoint
<1>7. PICK b : b = box'
  OBVIOUS
<1>8. CASE b = Exits(2)
  <2>1. b.pc = "gone"
    BY <1>8 DEF Exits, IInv, Types, BoxFields, IsBox
  <2> QED BY <1>1, <1>4, <1>5, <1>6, <1>7, <2>1, PutsBest
<1>9. CASE b # Exits(2)
  <2>1. PICK due, c, pc :
          /\ due = NextDue(box.nextCheckpoint, CheckpointEvery, box.step)
          /\ c = [box EXCEPT !.nextCheckpoint = due]
          /\ pc = DueFirst(c) /\ b = [c EXCEPT !.pc = pc]
    BY <1>7, <1>9 DEF PutCheckpoint, Answered
  <2>2. /\ b.pc = DueFirst(c) /\ c.step = b.step /\ b.step = box.step
        /\ c.nextCheckpoint = b.nextCheckpoint /\ c.nextEvaluation = b.nextEvaluation
        /\ b.nextCheckpoint = due /\ b.nextEvaluation = box.nextEvaluation
        /\ Same(b, box)
    BY <2>1 DEF IInv, Types, BoxFields, IsBox, Same
  <2>3. /\ box.nextCheckpoint \in Nat /\ box.nextEvaluation \in Nat
        /\ box.step = box.nextCheckpoint
        /\ box.nextEvaluation - box.nextCheckpoint \in Multiples
        /\ box.evaluations = <<>> => box.nextEvaluation = EvaluationEvery
        /\ BestSoFar(box.evaluations, box.best, Saved)
    BY <1>1 DEF BestInv, Follows, Cadence, Learning
  <2>4. CheckpointEvery \in Nat \ {0} /\ LearnEnds >= 1
    BY ProfileAssumption, StepBounds DEF EvaluatesCheckpoints
  <2>5. due = box.step + CheckpointEvery
    BY <2>1, <2>3, <2>4, NextDueIs
  <2>6. BestSoFar(b.evaluations, b.best, saved)
    <3>1. [step : DOMAIN Saved, result : Results]
            \subseteq [step : DOMAIN saved, result : Results]
      BY <1>4
    <3>2. box.evaluations \in Seq([step : DOMAIN saved, result : Results])
      BY <2>3, <3>1, WiderEntries DEF BestSoFar
    <3> QED BY <2>2, <2>3, <3>2 DEF BestSoFar, Same
  <2>7. CASE box.step = box.nextEvaluation
    <3>1. b.pc = "evaluate" /\ box.step \in DOMAIN saved
      BY <1>1, <1>4, <2>2, <2>4, <2>5, <2>7 DEF DueFirst
    <3>2. Cadence(b, saved)
      BY <1>1, <2>2, <2>3, <2>4, <2>5, <2>7, <3>1 DEF Cadence, Learning
    <3>3. Follows(b, saved)
      BY <2>6, <3>1, <3>2 DEF Follows
    <3> QED BY <1>1, <1>4, <1>5, <1>6, <1>7, <3>3, PutsBest
  <2>8. CASE box.step # box.nextEvaluation
    <3>1. box.nextEvaluation - box.nextCheckpoint # 0
      BY <1>1, <2>3, <2>8
    <3>2. (box.nextEvaluation - box.nextCheckpoint) - CheckpointEvery \in Multiples
      BY <2>3, <3>1, MultipleBelow
    <3>3. (box.nextEvaluation - box.nextCheckpoint) - CheckpointEvery
            = b.nextEvaluation - b.nextCheckpoint
      BY <2>2, <2>3, <2>4, <2>5
    <3>4. b.step \in Nat /\ b.nextCheckpoint \in Nat /\ b.step <= b.nextCheckpoint
      BY <1>1, <2>2, <2>4, <2>5
    <3>5. Follows(b, saved)
      BY <2>2, <2>3, <2>6, <3>2, <3>3, <3>4, DueBest DEF Same
    <3> QED BY <1>1, <1>4, <1>5, <1>6, <1>7, <3>5, PutsBest
  <2> QED BY <2>7, <2>8
<1> QED BY <1>8, <1>9

(* An evaluation is of a checkpoint that is there.                          *)
LEMMA EvaluateBest ==
  ASSUME IInv, BestInv, Evaluate
  PROVE  BestInv'
<1>1. /\ box.pc = "evaluate" /\ UNCHANGED bucket /\ DOMAIN Saved \subseteq Steps
  BY DEF Evaluate, IInv, Types, TypeOK, Saved
<1>0. PICK b : b = box'
  OBVIOUS
<1>2. PICK result \in Results :
        b = [box EXCEPT
               !.evaluations = Append(@, [step |-> box.step, result |-> result]),
               !.best = BestOf(box, result), !.pc = "progress"]
  BY <1>0 DEF Evaluate, Results
<1>3. /\ b.pc = "progress" /\ b.step = box.step /\ b.best = BestOf(box, result)
      /\ b.nextCheckpoint = box.nextCheckpoint
      /\ b.nextEvaluation = box.nextEvaluation
      /\ b.evaluations = Append(box.evaluations, [step |-> box.step, result |-> result])
  BY <1>2 DEF IInv, Types, BoxFields, IsBox
<1>4. /\ BestSoFar(box.evaluations, box.best, Saved) /\ box.step \in DOMAIN Saved
      /\ box.nextCheckpoint \in Nat /\ box.nextEvaluation \in Nat
      /\ box.step = box.nextEvaluation
      /\ box.nextCheckpoint = box.step + CheckpointEvery
  BY <1>1 DEF BestInv, Follows, Cadence, Learning, Training
<1>5. /\ BestSoFar(b.evaluations, b.best, Saved) /\ b.evaluations # <<>>
  BY <1>1, <1>2, <1>3, <1>4, OneMore DEF BestOf
<1>6. Cadence(b, Saved)
  BY <1>3, <1>4, <1>5 DEF Cadence, Learning
<1>7. Follows(b, Saved)
  BY <1>3, <1>5, <1>6 DEF Follows
<1> QED BY <1>0, <1>1, <1>7, StaysBest

(* The entries of the evaluations, and their best.                          *)
LEMMA EntriesAre ==
  ASSUME NEW saved, NEW entries \in Seq([step : DOMAIN saved, result : Results])
  PROVE  /\ DOMAIN entries = 1..Len(entries)
         /\ \A i \in 1..Len(entries) : /\ entries[i].step \in DOMAIN saved
                                       /\ entries[i].result \in Results
<1> DEFINE Entry == [step : DOMAIN saved, result : Results]
<1>1. /\ DOMAIN entries = 1..Len(entries)
      /\ \A i \in 1..Len(entries) : entries[i] \in Entry
  <2>1. entries \in Seq(Entry)
    OBVIOUS
  <2> HIDE DEF Entry
  <2> QED BY <2>1
<1>2. \A e \in Entry : e.step \in DOMAIN saved /\ e.result \in Results
  OBVIOUS
<1> QED BY <1>1, <1>2

(* The best of some evaluations is a record.                                *)
LEMMA BestIsRecord ==
  ASSUME NEW saved, DOMAIN saved \subseteq Steps, NEW entries, entries # <<>>,
         NEW best, BestSoFar(entries, best, saved)
  PROVE  best # None
<1>1. PICK i \in 1..Len(entries) : best = Record(entries[i])
  BY DEF BestSoFar
<1>2. entries[i].step \in Steps /\ entries[i].result \in Results
  BY EntriesAre DEF BestSoFar
<1> QED BY <1>1, <1>2, RecordsAre DEF Record

(* The next evaluation falls due a whole number of checkpoints later.       *)
LEMMA PutProgressBest ==
  ASSUME EvaluatesCheckpoints, IInv, BestInv, PutProgress
  PROVE  BestInv'
<1>1. /\ box.pc = "progress" /\ box.pc \in Training /\ Here = bucket["train"]
      /\ IsFolder(Here) /\ Saved = Here.checkpoints
      /\ DOMAIN Saved \subseteq Steps /\ box.step \in Nat
  BY StepBounds
     DEF PutProgress, Training, IInv, Types, TypeOK, Objects, Here, Publishing,
         Kinds, Saved, Steps
<1>2. PICK p : p = [Here EXCEPT !.progress = {box.step}]
  OBVIOUS
<1>3. Adds(p) /\ Puts("train", p) /\ p.checkpoints = Saved
  BY <1>1, <1>2 DEF IsFolder, Adds, PutProgress
<1>4. PICK b : b = box'
  OBVIOUS
<1>5. CASE b = Exits(2)
  <2>1. b.pc = "gone"
    BY <1>5 DEF Exits, IInv, Types, BoxFields, IsBox
  <2> QED BY <1>1, <1>3, <1>4, <2>1, PutsBest DEF BestInv
<1>6. CASE b # Exits(2)
  <2>1. PICK due, c, pc :
          /\ due = NextDue(box.nextEvaluation, EvaluationEvery, box.step)
          /\ c = [box EXCEPT !.nextEvaluation = due]
          /\ pc = DueFirst(c) /\ b = [c EXCEPT !.pc = pc]
    BY <1>4, <1>6 DEF PutProgress, Answered
  <2>2. /\ b.pc = DueFirst(c) /\ c.step = b.step /\ b.step = box.step
        /\ c.nextCheckpoint = b.nextCheckpoint /\ c.nextEvaluation = b.nextEvaluation
        /\ b.nextCheckpoint = box.nextCheckpoint /\ b.nextEvaluation = due
        /\ Same(b, box)
    BY <2>1 DEF IInv, Types, BoxFields, IsBox, Same
  <2>3. /\ box.nextCheckpoint \in Nat /\ box.nextEvaluation \in Nat
        /\ box.step = box.nextEvaluation
        /\ box.nextCheckpoint = box.step + CheckpointEvery
        /\ box.evaluations # <<>>
        /\ BestSoFar(box.evaluations, box.best, Saved)
    BY <1>1 DEF BestInv, Follows, Cadence, Learning
  <2>4. /\ EvaluationEvery \in Nat \ {0} /\ CheckpointEvery \in Nat \ {0}
        /\ LearnEnds >= 1 /\ EvaluationEvery - CheckpointEvery \in Multiples
    BY ProfileAssumption, StepBounds, MultipleBelow DEF EvaluatesCheckpoints
  <2>5. due = box.step + EvaluationEvery
    BY <2>1, <2>3, <2>4, NextDueIs
  <2>6. b.nextEvaluation - b.nextCheckpoint = EvaluationEvery - CheckpointEvery
    BY <1>1, <2>2, <2>3, <2>4, <2>5
  <2>7. /\ b.step \in Nat /\ b.nextCheckpoint \in Nat /\ b.nextEvaluation \in Nat
        /\ b.step <= b.nextCheckpoint
    BY <1>1, <2>2, <2>3, <2>4, <2>5
  <2>8. b.evaluations # <<>> /\ BestSoFar(b.evaluations, b.best, Saved)
    BY <2>2, <2>3 DEF Same
  <2>9. Follows(b, Saved)
    BY <2>2, <2>4, <2>6, <2>7, <2>8, DueBest
  <2> QED BY <1>1, <1>3, <1>4, <2>9, PutsBest DEF BestInv
<1> QED BY <1>5, <1>6

(* Learning ends after the first evaluation: what is published is its best. *)
LEMMA LearnReturnsBest ==
  ASSUME EvaluatesCheckpoints, IInv, BestInv, LearnReturns
  PROVE  BestInv'
<1>1. /\ box.pc = "learn" /\ UNCHANGED bucket /\ box.step = LearnEnds
      /\ DOMAIN Saved \subseteq Steps
  BY DEF LearnReturns, IInv, Types, TypeOK, Saved
<1>2. PICK final, metrics, b :
        /\ metrics = [published |-> Published(box), final |-> final,
                      evaluations |-> box.evaluations]
        /\ b = box' /\ b = [box EXCEPT !.metrics = metrics, !.pc = "artifacts"]
  BY DEF LearnReturns
<1>3. /\ b.pc = "artifacts" /\ b.metrics = metrics
      /\ b.best = box.best /\ b.evaluations = box.evaluations
  BY <1>2 DEF IInv, Types, BoxFields, IsBox
<1>4. /\ box.step < box.nextCheckpoint
      /\ box.nextEvaluation - box.nextCheckpoint \in Multiples
      /\ box.nextEvaluation \in Nat /\ box.nextCheckpoint \in Nat
      /\ box.evaluations = <<>> => box.nextEvaluation = EvaluationEvery
      /\ BestSoFar(box.evaluations, box.best, Saved)
  BY <1>1 DEF BestInv, Follows, Cadence, Learning, Training
<1>5. box.evaluations # <<>>
  <2>1. box.nextEvaluation - box.nextCheckpoint \in Nat
    BY <1>4, MultiplesAre
  <2> QED BY <1>1, <1>4, <2>1, StepBounds DEF EvaluatesCheckpoints
<1>6. box.best # None
  BY <1>1, <1>4, <1>5, BestIsRecord
<1>7. Published(box) = [model |-> box.best.model, timesteps |-> box.best.step]
  BY <1>6 DEF Published
<1>8. Chosen(b)
  BY <1>2, <1>3, <1>5, <1>7 DEF Chosen
<1>9. Follows(b, Saved)
  BY <1>3, <1>4, <1>8 DEF Follows, Cadence, Learning
<1> QED BY <1>1, <1>2, <1>9, StaysBest

(* A put of what was chosen.                                                *)
LEMMA PublishingBest ==
  ASSUME IInv, BestInv, PutArtifact \/ PutCompleted
  PROVE  BestInv'
<1>1. /\ box.pc = "artifacts" /\ box.pc \in Training /\ Here = bucket["train"]
      /\ IsFolder(Here) /\ Saved = Here.checkpoints
      /\ DOMAIN Saved \subseteq Steps
  BY DEF PutArtifact, PutCompleted, Training, IInv, Types, TypeOK, Objects, Here,
         Publishing, Kinds, Saved
<1>2. PICK p : Adds(p) /\ Puts("train", p) /\ p.checkpoints = Saved
  <2>1. CASE PutCompleted
    <3>1. PICK q : q = [Here EXCEPT !.status = "completed"]
      OBVIOUS
    <3>2. Adds(q) /\ Puts("train", q) /\ q.checkpoints = Saved
      BY <1>1, <2>1, <3>1 DEF IsFolder, Adds, PutCompleted
    <3> QED BY <3>2
  <2>2. CASE PutArtifact
    <3>1. PICK a : Puts("train", [Here EXCEPT !.artifacts[a] = ArtifactBytes(box)[a]])
      BY <2>2 DEF PutArtifact
    <3>2. PICK artifacts :
            artifacts = [Here.artifacts EXCEPT ![a] = ArtifactBytes(box)[a]]
      OBVIOUS
    <3>3. PICK q : q = [Here EXCEPT !.artifacts = artifacts]
      OBVIOUS
    <3>4. artifacts = [x \in ArtifactNames |-> artifacts[x]]
      BY <1>1, <3>2 DEF IsFolder
    <3>5. Adds(q) /\ q.checkpoints = Saved
      BY <1>1, <3>3, <3>4 DEF IsFolder, Adds
    <3>6. Puts("train", q)
      BY <3>1, <3>2, <3>3
    <3> QED BY <3>5, <3>6
  <2> QED BY <2>1, <2>2
<1>3. PICK b : b = box'
  OBVIOUS
<1>4. b.pc = "gone" \/ Follows(b, Saved)
  <2>1. CASE b = Exits(2)
    BY <2>1 DEF Exits, IInv, Types, BoxFields, IsBox
  <2>2. CASE b # Exits(2)
    <3>1. \/ b = [box EXCEPT !.put = box.put + 1]
          \/ b = [box EXCEPT !.pc = "manifest"]
      BY <1>3, <2>2 DEF PutArtifact, PutCompleted, Answered
    <3>2. b.pc \in {"artifacts", "manifest"} /\ Same(b, box)
      BY <1>1, <3>1 DEF IInv, Types, BoxFields, IsBox, Same
    <3>3. Chosen(box) /\ BestSoFar(box.evaluations, box.best, Saved)
      BY <1>1 DEF BestInv, Follows
    <3>4. Chosen(b) /\ BestSoFar(b.evaluations, b.best, Saved)
      BY <3>2, <3>3 DEF Chosen, Same
    <3> QED BY <3>2, <3>4 DEF Follows, Cadence, Learning, Training
  <2> QED BY <2>1, <2>2
<1> QED BY <1>1, <1>2, <1>3, <1>4, PutsBest DEF BestInv

(* What is listed is what was chosen.                                       *)
LEMMA PutManifestBest ==
  ASSUME IInv, BestInv, PutManifest
  PROVE  BestInv'
<1>1. /\ box.pc = "manifest" /\ box.pc \in Training /\ Here = bucket["train"]
      /\ IsFolder(Here) /\ Saved = Here.checkpoints /\ Objects /\ "train" \in Kinds
      /\ DOMAIN Saved \subseteq Steps
  BY DEF PutManifest, Training, IInv, Types, TypeOK, Objects, Here, Publishing,
         Kinds, Saved
<1>2. PICK p : p = [Here EXCEPT !.manifest = ArtifactBytes(box)]
  OBVIOUS
<1>3. /\ IsFolder(p) /\ p.artifacts = Here.artifacts /\ p.checkpoints = Saved
      /\ p.manifest = ArtifactBytes(box)
  BY <1>1, <1>2 DEF IsFolder
<1>4. Puts("train", p)
  BY <1>2 DEF PutManifest
<1>5. bucket'["train"] = p
  BY <1>1, <1>3, <1>4, PutsObjects
<1>6. /\ p.manifest["metrics_json"] = box.metrics
      /\ p.artifacts["final_policy"] = box.metrics.published.model
  <2>1. /\ Artifacts[1] = "final_policy" /\ 1 \in 1..Len(Artifacts)
        /\ \E i \in 1..11 : Artifacts[i] = "metrics_json"
    BY Lengths3 DEF Artifacts
  <2>2. "metrics_json" \in ArtifactNames /\ "final_policy" \in ArtifactNames
    BY <2>1, Lengths3 DEF ArtifactNames
  <2>3. box.put = Len(Artifacts)
    BY <1>1 DEF IInv, Publishing
  <2>4. Here.artifacts["final_policy"] = ArtifactBytes(box)["final_policy"]
    BY <1>1, <2>1, <2>3 DEF IInv, Publishing
  <2>5. /\ ArtifactBytes(box)["final_policy"] = box.metrics.published.model
        /\ ArtifactBytes(box)["metrics_json"] = box.metrics
    BY <2>2 DEF ArtifactBytes
  <2> QED BY <1>3, <2>4, <2>5
<1>7. Earliest(box.metrics, Saved, box.metrics.published.model)
  <2>1. Chosen(box) /\ BestSoFar(box.evaluations, box.best, Saved)
    BY <1>1 DEF BestInv, Follows
  <2>2. box.evaluations # <<>> /\ box.metrics.evaluations = box.evaluations
    BY <2>1 DEF Chosen
  <2>3. PICK i \in 1..Len(box.evaluations) :
          Leads(box.evaluations, i) /\ box.best = Record(box.evaluations[i])
    BY <2>1, <2>2 DEF BestSoFar
  <2>4. /\ box.metrics.published.timesteps = box.evaluations[i].step
        /\ box.metrics.published.model = Updates(box.evaluations[i].step)
    BY <2>1, <2>3 DEF Chosen, Record
  <2>5. /\ DOMAIN box.evaluations = 1..Len(box.evaluations)
        /\ box.evaluations[i].step \in DOMAIN Saved
    BY <2>1, <2>3, EntriesAre DEF BestSoFar
  <2>6. Saved[box.evaluations[i].step] = Updates(box.evaluations[i].step)
    BY <2>5 DEF BestInv
  <2> QED BY <2>2, <2>3, <2>4, <2>5, <2>6 DEF Earliest, Leads
<1>8. PublishedIsEarliestBest' /\ Saved' = Saved
  BY <1>3, <1>5, <1>6, <1>7, EarliestIs DEF Saved
<1>9. box'.pc = "gone"
  BY DEF PutManifest, Answered, Exits, IInv, Types, BoxFields, IsBox
<1> QED BY <1>8, <1>9, ElsewhereBest DEF Training

-----------------------------------------------------------------------------
(* At the start nothing is saved, evaluated or listed.                      *)
LEMMA InitBest == Init => BestInv
<1> SUFFICES ASSUME Init PROVE BestInv
  OBVIOUS
<1>1. bucket["train"] = EmptyPrefix /\ box = NoBox
  BY DEF Init, Kinds
<1>2. Saved = EmptyPrefix.checkpoints /\ DOMAIN Saved = {} /\ Listed = None
  BY <1>1 DEF Saved, EmptyPrefix, Listed
<1>3. box.pc = "gone"
  BY <1>1 DEF NoBox
<1>4. Follows(box, Saved)
  BY <1>3 DEF Follows, Cadence, Learning, Training
<1>5. PublishedIsEarliestBest
  BY <1>2 DEF Listed, PublishedIsEarliestBest
<1> QED BY <1>2, <1>4, <1>5 DEF BestInv

(* Every step keeps it.                                                     *)
LEMMA StepBest ==
  ASSUME EvaluatesCheckpoints, IInv, BestInv, [Next]_vars
  PROVE  BestInv'
<1>1. CASE UNCHANGED vars
  <2>1. UNCHANGED <<bucket, box>>
    BY <1>1 DEF vars
  <2>2. PICK b : b = box
    OBVIOUS
  <2>3. Follows(b, Saved)
    BY <2>2 DEF BestInv
  <2> QED BY <2>1, <2>2, <2>3, StaysBest
<1>2. CASE Backend
  BY <1>2, BackendBest
<1>3. CASE Container
  BY <1>3, LoadBest, PreparationBest, PutTrainingBest, LearnStepBest,
     PutCheckpointBest, EvaluateBest, PutProgressBest, LearnReturnsBest,
     PublishingBest, PutManifestBest
     DEF Container
<1> QED BY <1>1, <1>2, <1>3 DEF Next

(* What a training lists is the earliest of the checkpoints that did best,  *)
(* and the metrics name the step at which that very network is saved, for   *)
(* every rollout length, motion and total (DurableProgressCallback and the  *)
(* end of run_training), when evaluations fall on checkpoints, as the       *)
(* profile of the contract has it.                                          *)
THEOREM EarliestBest ==
  ASSUME EvaluatesCheckpoints
  PROVE  Spec => []PublishedIsEarliestBest
<1>1. Init => BestInv
  BY InitBest
<1>2. IInv /\ BestInv /\ [Next]_vars => BestInv'
  BY StepBest
<1>3. BestInv => PublishedIsEarliestBest
  BY DEF BestInv
<1> QED BY <1>1, <1>2, <1>3, AlwaysIInv, PTL DEF Spec
-----------------------------------------------------------------------------
(* What is settled: a closed row, the evidence of an acceptance, a listing. *)
Settles ==
  /\ attempt.state \in {"accepted", "failed"} => attempt' = attempt
  /\ run.state \in {"completed", "failed"} => run' = run
  /\ attempt.state = "accepted" =>
       bucket'["prepare"] = bucket["prepare"] /\ proven' = proven
  /\ Listed # None => bucket'["train"] = bucket["train"]

(* The backend closes a row that is open.                                   *)
LEMMA RowsSettle ==
  ASSUME NEW kind \in Kinds, NEW state, NEW phase, SetRow(kind, state, phase),
         Row(kind).state \notin {"accepted", "completed", "failed"}
  PROVE  /\ attempt.state \in {"accepted", "failed"} => attempt' = attempt
         /\ run.state \in {"completed", "failed"} => run' = run
<1>1. kind = "prepare" \/ kind = "train"
  BY DEF Kinds
<1> QED BY <1>1 DEF SetRow, Row

(* Its writer has a queued row and no container, and writes the inputs of   *)
(* that row alone.                                                          *)
LEMMA WriterSettles ==
  ASSUME IInv, writer # Idle, NEW inputs,
         bucket' = [bucket EXCEPT ![writer.kind].inputs = inputs]
  PROVE  /\ attempt.state = "accepted" => bucket'["prepare"] = bucket["prepare"]
         /\ Listed # None => bucket'["train"] = bucket["train"]
<1>1. writer.kind \in Kinds /\ Row(writer.kind).state = "queued"
      /\ box.mode # writer.kind
  BY WriterOf
<1>2. bucket = [k \in Kinds |-> bucket[k]]
  BY DEF IInv, Types, Objects
<1>3. CASE writer.kind = "prepare"
  <2>1. attempt.state = "queued"
    BY <1>1, <1>3 DEF Row
  <2>2. bucket'["train"] = bucket["train"]
    BY <1>2, <1>3 DEF Kinds
  <2> QED BY <2>1, <2>2
<1>4. CASE writer.kind = "train"
  <2>1. Listed = None
    BY <1>1, <1>4 DEF IInv, Publishing
  <2>2. bucket'["prepare"] = bucket["prepare"]
    BY <1>2, <1>4 DEF Kinds
  <2> QED BY <2>1, <2>2
<1> QED BY <1>1, <1>3, <1>4 DEF Kinds

(* A step of the backend leaves what is settled.                            *)
LEMMA BackendSettles ==
  ASSUME IInv, Backend
  PROVE  Settles
<1>1. CASE UNCHANGED <<attempt, run, bucket, proven>>
  BY <1>1 DEF Settles
<1>2. ASSUME NEW kind \in Kinds, Polling(kind), UNCHANGED <<bucket, proven>>,
             NEW state, NEW phase, SetRow(kind, state, phase)
      PROVE  Settles
  <2>1. Row(kind).state = "submitted"
    BY <1>2 DEF Polling
  <2> QED BY <1>2, <2>1, RowsSettle DEF Settles
<1>3. CASE Prepare \/ StartTraining
  BY <1>3 DEF Prepare, StartTraining, BackendOnly, Settles
<1>4. CASE PutInput
  <2>1. writer # Idle /\ UNCHANGED <<attempt, run, proven>>
    BY <1>4 DEF PutInput, BackendOnly
  <2>2. bucket' = [bucket EXCEPT ![writer.kind].inputs =
                     [@ EXCEPT ![Members[writer.member]] =
                        writer.documents[Members[writer.member]]]]
    BY <1>4 DEF PutInput
  <2>3. PICK inputs : bucket' = [bucket EXCEPT ![writer.kind].inputs = inputs]
    BY <2>2
  <2> QED BY <2>1, <2>3, WriterSettles DEF Settles
<1>5. CASE PutInputFails
  <2>1. PICK left \in SUBSET {Members[i] : i \in 1..writer.member} :
          bucket' = [bucket EXCEPT ![writer.kind].inputs =
                       [name \in DOMAIN @ |-> IF name \in left
                                              THEN writer.documents[name] ELSE None]]
    BY <1>5 DEF PutInputFails
  <2>2. PICK inputs : bucket' = [bucket EXCEPT ![writer.kind].inputs = inputs]
    BY <2>1
  <2>3. writer # Idle /\ proven' = proven
        /\ SetRow(writer.kind, "failed", "input-publication")
    BY <1>5 DEF PutInputFails, BackendOnly
  <2>4. writer.kind \in Kinds /\ Row(writer.kind).state = "queued"
    BY <2>3, WriterOf
  <2>5. /\ attempt.state \in {"accepted", "failed"} => attempt' = attempt
        /\ run.state \in {"completed", "failed"} => run' = run
    BY <2>3, <2>4, RowsSettle
  <2> QED BY <2>2, <2>3, <2>5, WriterSettles DEF Settles
<1>6. CASE Submit
  <2>1. /\ writer # Idle /\ UNCHANGED <<bucket, proven>>
        /\ \/ SetRow(writer.kind, "submitted", "starting")
           \/ SetRow(writer.kind, "failed", "submission")
    BY <1>6 DEF Submit
  <2>2. writer.kind \in Kinds /\ Row(writer.kind).state = "queued"
    BY <2>1, WriterOf
  <2> QED BY <2>1, <2>2, RowsSettle DEF Settles
<1>7. CASE \E kind \in Kinds : PollFailed(kind) \/ PollDeadline(kind)
  BY <1>2, <1>7 DEF PollFailed, PollDeadline, BackendOnly
<1>8. CASE FinalizePreparation \/ FinalizeTraining
  <2>1. PICK kind \in Kinds : Polling(kind) /\ UNCHANGED <<bucket, proven>>
                              /\ \E state, phase : SetRow(kind, state, phase)
    BY <1>8 DEF FinalizePreparation, FinalizeTraining, BackendOnly, Kinds
  <2> QED BY <1>2, <2>1
<1>9. CASE \E d \in Deployments : Deploy(d)
  BY <1>1, <1>9 DEF Deploy
<1> QED BY <1>3, <1>4, <1>5, <1>6, <1>7, <1>8, <1>9 DEF Backend

(* A running container has neither a listing behind it nor, when it         *)
(* prepares, an acceptance; it writes under its own prefix.                 *)
LEMMA ContainerSettles ==
  ASSUME IInv, Container
  PROVE  Settles
<1>1. UNCHANGED <<attempt, run>> /\ box.pc # "gone"
  BY DEF Container, Load, Dies, PassPhase, RefusePhase, PutProbe, PutReport,
         PutTraining, LearnStep, PutCheckpoint, Evaluate, PutProgress,
         LearnReturns, PutArtifact, PutCompleted, PutManifest, BoxOnly
<1>2. Listed = None /\ box.mode \in Kinds
      /\ (box.mode = "prepare" => attempt.state # "accepted")
  BY <1>1, Running
<1>3. ASSUME attempt.state = "accepted"
      PROVE  bucket'["prepare"] = bucket["prepare"] /\ proven' = proven
  <2>1. box.mode = "train" /\ box.pc \notin Probing
    BY <1>2, <1>3 DEF Kinds, IInv, Preparing
  <2>2. CASE Load \/ Dies \/ LearnStep \/ Evaluate \/ LearnReturns
    BY <2>2 DEF Load, Dies, LearnStep, Evaluate, LearnReturns, BoxOnly
  <2>3. CASE PassPhase \/ RefusePhase \/ PutProbe \/ PutReport
    BY <2>1, <2>3 DEF PassPhase, RefusePhase, PutProbe, PutReport, Probing
  <2>4. CASE \/ PutTraining \/ PutCheckpoint \/ PutProgress \/ PutArtifact
             \/ PutCompleted \/ PutManifest
    <3>1. proven' = proven /\ \E p : Puts("train", p)
      BY <2>4 DEF PutTraining, PutCheckpoint, PutProgress, PutArtifact,
                  PutCompleted, PutManifest, BoxOnly
    <3>2. bucket = [k \in Kinds |-> bucket[k]]
      BY DEF IInv, Types, Objects
    <3> QED BY <3>1, <3>2 DEF Puts, Kinds
  <2> QED BY <2>2, <2>3, <2>4 DEF Container
<1> QED BY <1>1, <1>2, <1>3 DEF Settles

(* Once a row is closed it stays as it was closed; once a preparation is    *)
(* accepted nothing under its prefix changes, and once a result is listed   *)
(* nothing under the training prefix does: no late container, poll, retry   *)
(* of a put or deployment gets in between (a submission is made by one      *)
(* process, and a container ends with its report or its listing).           *)
THEOREM SettledStays == Spec => [][Settles]_vars
<1>1. IInv /\ [Next]_vars => [Settles]_vars
  <2> SUFFICES ASSUME IInv, Next PROVE Settles
    OBVIOUS
  <2> QED BY BackendSettles, ContainerSettles DEF Next
<1> QED BY <1>1, AlwaysIInv, PTL DEF Spec

-----------------------------------------------------------------------------
(* A run that the backend calls completed has a whole listing.              *)
CompletedIsListed ==
  run.state = "completed" => Listed # None /\ Readable(bucket["train"])

(* It is called so when the listing was read, and the listing stays.        *)
LEMMA StepCompleted ==
  ASSUME IInv, CompletedIsListed, Next
  PROVE  CompletedIsListed'
<1>1. Settles
  BY BackendSettles, ContainerSettles DEF Next
<1>2. CASE run.state = "completed"
  <2>1. Listed # None /\ Readable(bucket["train"]) /\ bucket'["train"] = bucket["train"]
    BY <1>1, <1>2 DEF Settles, CompletedIsListed
  <2>2. Listed' = Listed /\ Readable(bucket["train"])'
    BY <2>1 DEF Listed, Readable
  <2> QED BY <2>1, <2>2 DEF CompletedIsListed
<1>3. CASE run.state # "completed" /\ run'.state = "completed"
  <2>1. ~Container
    BY <1>3 DEF Container, Load, Dies, PassPhase, RefusePhase, PutProbe, PutReport,
         PutTraining, LearnStep, PutCheckpoint, Evaluate, PutProgress,
         LearnReturns, PutArtifact, PutCompleted, PutManifest, BoxOnly
  <2>2. Backend
    BY <2>1 DEF Next
  <2>3. ASSUME NEW kind \in Kinds, NEW state, NEW phase, SetRow(kind, state, phase),
               state # "completed"
        PROVE  FALSE
    <3>1. run' = run \/ run' = [run EXCEPT !.state = state, !.phase = phase]
      BY <2>3 DEF SetRow, Row
    <3>2. run'.state = run.state \/ run'.state = state
      BY <3>1 DEF IInv, Types, Rows
    <3> QED BY <1>3, <2>3, <3>2
  <2>4. FinalizeTraining
    <3>1. ~(\E d \in Deployments : Deploy(d)) /\ ~Prepare /\ ~StartTraining /\ ~PutInput
      BY <1>3 DEF Deploy, Prepare, StartTraining, PutInput, BackendOnly
    <3>2. ~PutInputFails /\ ~Submit
      BY <2>3, WriterOf DEF PutInputFails, Submit
    <3>3. ~(\E kind \in Kinds : PollFailed(kind) \/ PollDeadline(kind))
      BY <2>3 DEF PollFailed, PollDeadline
    <3>4. ~FinalizePreparation
      BY <1>3 DEF FinalizePreparation, SetRow
    <3> QED BY <2>2, <3>1, <3>2, <3>3, <3>4 DEF Backend
  <2>5. Readable(bucket["train"]) /\ bucket' = bucket
    BY <2>3, <2>4 DEF FinalizeTraining, Kinds
  <2>6. Listed' = Listed /\ Readable(bucket["train"])' /\ Listed # None
    BY <2>5 DEF Listed, Readable
  <2> QED BY <2>6 DEF CompletedIsListed
<1> QED BY <1>2, <1>3 DEF CompletedIsListed

(* Whatever fails, a run that is shown as completed has every artifact its  *)
(* listing names, now and in every later state.                             *)
THEOREM CompletedHasResult == Spec => []CompletedIsListed
<1>1. Init => CompletedIsListed
  BY DEF Init, NoRow, CompletedIsListed
<1>2. IInv /\ CompletedIsListed /\ [Next]_vars => CompletedIsListed'
  <2> SUFFICES ASSUME IInv, CompletedIsListed, [Next]_vars PROVE CompletedIsListed'
    OBVIOUS
  <2>1. CASE UNCHANGED vars
    BY <2>1 DEF vars, CompletedIsListed, Listed, Readable
  <2> QED BY <2>1, StepCompleted
<1> QED BY <1>1, <1>2, AlwaysIInv, PTL DEF Spec
=============================================================================
