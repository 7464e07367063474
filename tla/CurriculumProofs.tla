-------------------------- MODULE CurriculumProofs --------------------------
(***************************************************************************)
(* Proofs about Curriculum, for any step counts, cadence, gates and         *)
(* bindings, any rollouts of any policy, and any number of containers.      *)
(***************************************************************************)
EXTENDS Curriculum, FiniteSetTheorems, TLAPS

T == evidence["transition"]
Input == evidence["input"]
SweepRecord == evidence["sweep"]
PilotBinding == evidence["pilot_transition"]

(* The transition is of a parent that passed the gate at the boundary.      *)
ParentInv ==
  T # None => /\ T \in Transitions /\ T.parent \in passed
              /\ T.parent.step = FlatSteps /\ T.parent.launch <= launches

(* The reserved seeds are untouched until there is a transition, and the    *)
(* input names the one checkpoint they were spent on.                       *)
InputInv ==
  /\ T = None => touched = {} /\ Input = None
  /\ \A c, d \in touched : c = d
  /\ Input # None =>
       /\ Input \in [transition : Transitions, selected : Checkpoints]
       /\ Input.transition = T
       /\ Input.selected.launch = T.parent.launch
       /\ FlatSteps + Input.selected.step <= TotalSteps
       /\ touched = {Input.selected}

(* What is final is what the transition and the input name.                 *)
FinalInv ==
  final # None =>
    /\ T # None /\ Input # None
    /\ final = [selected |-> Input.selected, transition |-> T,
                digests |-> T.digests]

(* The pilot's transition is of the parent and the digests of the sweep,    *)
(* and its evidence is of that transition.                                  *)
PilotInv ==
  /\ SweepRecord # None => SweepRecord.parent \in Checkpoints \cup {None}
  /\ PilotBinding # None =>
       /\ SweepRecord # None
       /\ PilotBinding \in Transitions
       /\ PilotBinding.parent = SweepRecord.parent
       /\ PilotBinding.digests = SweepRecord.digests
  /\ evidence["pilot"] # None => /\ PilotBinding # None
                                 /\ evidence["pilot"].transition = PilotBinding

StoreTypes ==
  /\ evidence = [n \in Immutable |-> evidence[n]]
  /\ tree \in [{"flat", "rough", "pilot"} -> SUBSET Checkpoints]
  /\ \A t \in DOMAIN tree : \A c, d \in tree[t] : c.step = d.step => c = d
  /\ failure \in BOOLEAN
  /\ launches \in 0..MaxLaunches
  /\ passed \subseteq Checkpoints /\ touched \subseteq Checkpoints

StoreInv == StoreTypes /\ ParentInv /\ InputInv /\ FinalInv /\ PilotInv

(* A container that has not bound a transition is of a later launch than    *)
(* the one the store has, if it has one.                                    *)
UnboundJob ==
  /\ pc \in {"flat", "gate", "stop", "bind"} =>
       /\ T # None => T.parent.launch < launches
       /\ job.retained = {}
  /\ pc \in {"gate", "stop", "bind"} =>
       job.flat \in Checkpoints /\ job.flat.launch = launches
  /\ pc = "bind" => job.flat \in passed /\ job.flat.step = FlatSteps

(* A container past it is the one that bound it, and its checkpoints are    *)
(* its own; nothing is evaluated on the reserved seeds before its           *)
(* selection.  A finalization has what the input names.                     *)
BoundJob ==
  /\ pc \in {"rough", "rank", "final", "input"} =>
       /\ T # None /\ job.record = T /\ job.flat = T.parent
       /\ job.digests = T.digests /\ T.parent.launch = launches
       /\ \A c \in job.retained : c.launch = launches
       /\ Input = None
  /\ pc \in {"rough", "rank", "final"} => touched = {}
  /\ pc \in {"final", "input"} =>
       job.selected \in job.retained /\ FlatSteps + job.selected.step <= TotalSteps
  /\ pc = "input" => touched = {job.selected}
  /\ pc = "finalize" => /\ T # None /\ Input # None
                        /\ job.record = T /\ job.selected = Input.selected
                        /\ job.digests = T.digests

(* A pilot under way restores the parent that the sweep selected.           *)
PilotJob ==
  /\ pc = "bind_pilot" => /\ SweepRecord # None
                          /\ job.flat \in Checkpoints
                          /\ job.flat = SweepRecord.parent
                          /\ job.digests = SweepRecord.digests
  /\ pc \in {"pilot", "gate_pilot"} =>
       PilotBinding # None /\ job.record = PilotBinding

JobTypes ==
  /\ job = [mode |-> job.mode, digests |-> job.digests, flat |-> job.flat,
            retained |-> job.retained, selected |-> job.selected,
            record |-> job.record, episodes |-> job.episodes]
  /\ job.digests \in Digests \cup {None}
  /\ pc # "idle" => job.digests \in Digests
  /\ job.retained \subseteq Checkpoints
  /\ job.selected \in job.retained \cup {None}

JobInv == JobTypes /\ UnboundJob /\ BoundJob /\ PilotJob

IInv == StoreInv /\ JobInv

USE DEF vars, store, history

-----------------------------------------------------------------------------
(* A container that ended leaves nothing to say about its memory.           *)
LEMMA EndedJob ==
  ASSUME Ends
  PROVE  JobInv' /\ launches' = launches
<1>1. job' = NoJob /\ pc' = "idle" /\ launches' = launches
  BY DEF Ends
<1>2. JobTypes'
  BY <1>1 DEF JobTypes, NoJob
<1>3. UnboundJob' /\ BoundJob' /\ PilotJob'
  BY <1>1 DEF UnboundJob, BoundJob, PilotJob
<1> QED BY <1>1, <1>2, <1>3 DEF JobInv

(* Raising ends the container; at worst there is a failure record.          *)
LEMMA RaisedJob ==
  ASSUME Raises, StoreTypes
  PROVE  JobInv' /\ launches' = launches /\ failure' \in BOOLEAN
<1>1. Ends /\ failure' \in {failure, TRUE}
  BY DEF Raises
<1> QED BY <1>1, EndedJob DEF StoreTypes

(* What the store says of itself does not depend on trees and failures.     *)
LEMMA StoreFrame ==
  ASSUME StoreInv, UNCHANGED <<evidence, final, passed, touched, launches>>,
         tree' \in [{"flat", "rough", "pilot"} -> SUBSET Checkpoints],
         \A t \in DOMAIN tree' : \A c, d \in tree'[t] : c.step = d.step => c = d,
         failure' \in BOOLEAN
  PROVE  StoreInv'
<1>1. StoreTypes'
  BY DEF StoreInv, StoreTypes
<1>2. ParentInv' /\ InputInv' /\ FinalInv' /\ PilotInv'
  BY DEF StoreInv, ParentInv, InputInv, FinalInv, PilotInv, T, Input,
         SweepRecord, PilotBinding
<1> QED BY <1>1, <1>2 DEF StoreInv

(* A container that ends without writing keeps the invariant.               *)
LEMMA EndedQuietly ==
  ASSUME IInv, Ends, UNCHANGED store, UNCHANGED history
  PROVE  IInv'
<1>1. JobInv' /\ launches' = launches
  BY EndedJob
<1>2. StoreInv'
  BY <1>1, StoreFrame DEF IInv, StoreInv, StoreTypes
<1> QED BY <1>1, <1>2 DEF IInv

(* A container that raises without writing evidence keeps the invariant.    *)
LEMMA RaisedQuietly ==
  ASSUME IInv, Raises, UNCHANGED <<evidence, tree, final, history>>
  PROVE  IInv'
<1>1. JobInv' /\ launches' = launches /\ failure' \in BOOLEAN
  BY RaisedJob DEF IInv, StoreInv
<1>2. StoreInv'
  BY <1>1, StoreFrame DEF IInv, StoreInv, StoreTypes
<1> QED BY <1>1, <1>2 DEF IInv

(* An immutable object is left as it is, or made where there was none.      *)
Put(name, value) ==
  \/ evidence' = evidence
  \/ evidence[name] = None /\ evidence' = [evidence EXCEPT ![name] = value]

(* A put that returns leaves what was asked for.                            *)
LEMMA CreatesPuts ==
  ASSUME StoreTypes, NEW name \in Immutable, NEW value, Creates(name, value)
  PROVE  Put(name, value) /\ evidence'[name] = value
<1>1. evidence = [n \in Immutable |-> evidence[n]]
  BY DEF StoreTypes
<1>2. evidence[name] \in {None, value} /\ evidence' = [evidence EXCEPT ![name] = value]
  BY DEF Creates
<1>3. CASE evidence[name] = value
  <2>1. evidence' = evidence
    BY <1>1, <1>2, <1>3
  <2> QED BY <2>1, <1>3 DEF Put
<1>4. CASE evidence[name] = None
  BY <1>1, <1>2, <1>4 DEF Put
<1> QED BY <1>2, <1>3, <1>4

(* A put that raises may have been made, and ends the container.            *)
LEMMA PutRaisesPuts ==
  ASSUME StoreTypes, NEW name \in Immutable, NEW value, PutRaises(name, value)
  PROVE  /\ Put(name, value)
         /\ JobInv' /\ launches' = launches /\ failure' \in BOOLEAN
<1>1. Raises /\ Put(name, value)
  BY DEF PutRaises, Put
<1> QED BY <1>1, RaisedJob


(* A put of evidence that neither gates nor names anything else.            *)
LEMMA PutAside ==
  ASSUME StoreInv, NEW name \in {"flat_lineage"}, NEW value, Put(name, value),
         UNCHANGED <<tree, final, passed, touched, launches>>, failure' \in BOOLEAN
  PROVE  StoreInv'
<1>1. StoreTypes'
  BY DEF StoreInv, StoreTypes, Put
<1>2. ParentInv' /\ InputInv' /\ FinalInv' /\ PilotInv'
  BY DEF StoreInv, StoreTypes, Put, Immutable, ParentInv, InputInv, FinalInv, PilotInv,
         T, Input, SweepRecord, PilotBinding
<1> QED BY <1>1, <1>2 DEF StoreInv

(* The transition is put once, before anything is named or touched.         *)
LEMMA PutTransition ==
  ASSUME StoreInv, NEW t \in Transitions, Put("transition", t),
         t.parent \in passed, t.parent.step = FlatSteps, t.parent.launch <= launches,
         UNCHANGED <<tree, final, passed, touched, launches>>, failure' \in BOOLEAN
  PROVE  StoreInv'
<1>1. StoreTypes'
  BY DEF StoreInv, StoreTypes, Put
<1>2. CASE evidence' = evidence
  BY <1>1, <1>2, StoreFrame DEF StoreInv, StoreTypes
<1>3. CASE T = None /\ evidence' = [evidence EXCEPT !["transition"] = t]
  <2>1. /\ T' = t /\ Input' = Input /\ SweepRecord' = SweepRecord
        /\ PilotBinding' = PilotBinding /\ evidence'["pilot"] = evidence["pilot"]
    BY <1>3 DEF StoreInv, StoreTypes, Immutable, T, Input, SweepRecord, PilotBinding
  <2>2. ParentInv'
    BY <2>1 DEF ParentInv
  <2>3. Input = None /\ final = None
    BY <1>3 DEF StoreInv, InputInv, FinalInv
  <2>4. InputInv'
    BY <1>3, <2>1, <2>3, NoneAssumption DEF StoreInv, InputInv
  <2>5. FinalInv' /\ PilotInv'
    BY <2>1, <2>3 DEF StoreInv, FinalInv, PilotInv
  <2> QED BY <1>1, <2>2, <2>4, <2>5 DEF StoreInv
<1> QED BY <1>2, <1>3 DEF Put, T

(* The input names the checkpoint the reserved seeds were spent on.         *)
LEMMA PutInput ==
  ASSUME StoreInv, T # None,
         NEW i \in [transition : Transitions, selected : Checkpoints], Put("input", i),
         i.transition = T, i.selected.launch = T.parent.launch,
         FlatSteps + i.selected.step <= TotalSteps, touched = {i.selected},
         UNCHANGED <<tree, final, passed, touched, launches>>, failure' \in BOOLEAN
  PROVE  StoreInv'
<1>1. StoreTypes'
  BY DEF StoreInv, StoreTypes, Put
<1>2. CASE evidence' = evidence
  BY <1>1, <1>2, StoreFrame DEF StoreInv, StoreTypes
<1>3. CASE Input = None /\ evidence' = [evidence EXCEPT !["input"] = i]
  <2>1. /\ T' = T /\ Input' = i /\ SweepRecord' = SweepRecord
        /\ PilotBinding' = PilotBinding /\ evidence'["pilot"] = evidence["pilot"]
    BY <1>3 DEF StoreInv, StoreTypes, Immutable, T, Input, SweepRecord, PilotBinding
  <2>2. final = None
    BY <1>3 DEF StoreInv, FinalInv
  <2>3. ParentInv' /\ InputInv'
    BY <2>1 DEF StoreInv, ParentInv, InputInv
  <2>4. FinalInv' /\ PilotInv'
    BY <2>1, <2>2 DEF StoreInv, FinalInv, PilotInv
  <2> QED BY <1>1, <2>3, <2>4 DEF StoreInv
<1> QED BY <1>2, <1>3 DEF Put, Input

(* A sweep is put once, before any pilot.                                   *)
LEMMA PutSweep ==
  ASSUME StoreInv, NEW r, r.parent \in Checkpoints \cup {None}, Put("sweep", r),
         UNCHANGED <<tree, final, passed, touched, launches>>, failure' \in BOOLEAN
  PROVE  StoreInv'
<1>1. StoreTypes'
  BY DEF StoreInv, StoreTypes, Put
<1>2. CASE evidence' = evidence
  BY <1>1, <1>2, StoreFrame DEF StoreInv, StoreTypes
<1>3. CASE SweepRecord = None /\ evidence' = [evidence EXCEPT !["sweep"] = r]
  <2>1. /\ T' = T /\ Input' = Input /\ SweepRecord' = r
        /\ PilotBinding' = PilotBinding /\ evidence'["pilot"] = evidence["pilot"]
    BY <1>3 DEF StoreInv, StoreTypes, Immutable, T, Input, SweepRecord, PilotBinding
  <2>2. ParentInv' /\ InputInv' /\ FinalInv'
    BY <2>1 DEF StoreInv, ParentInv, InputInv, FinalInv
  <2>3. PilotInv'
    BY <1>3, <2>1 DEF StoreInv, PilotInv
  <2> QED BY <1>1, <2>2, <2>3 DEF StoreInv
<1> QED BY <1>2, <1>3 DEF Put, SweepRecord

(* A pilot's transition is put once, before its evidence.                   *)
LEMMA PutPilotBinding ==
  ASSUME StoreInv, NEW t \in Transitions, Put("pilot_transition", t),
         SweepRecord # None, t.parent = SweepRecord.parent,
         t.digests = SweepRecord.digests,
         UNCHANGED <<tree, final, passed, touched, launches>>, failure' \in BOOLEAN
  PROVE  StoreInv'
<1>1. StoreTypes'
  BY DEF StoreInv, StoreTypes, Put
<1>2. CASE evidence' = evidence
  BY <1>1, <1>2, StoreFrame DEF StoreInv, StoreTypes
<1>3. CASE PilotBinding = None /\ evidence' = [evidence EXCEPT !["pilot_transition"] = t]
  <2>1. /\ T' = T /\ Input' = Input /\ SweepRecord' = SweepRecord
        /\ PilotBinding' = t /\ evidence'["pilot"] = evidence["pilot"]
    BY <1>3 DEF StoreInv, StoreTypes, Immutable, T, Input, SweepRecord, PilotBinding
  <2>2. ParentInv' /\ InputInv' /\ FinalInv'
    BY <2>1 DEF StoreInv, ParentInv, InputInv, FinalInv
  <2>3. PilotInv'
    BY <1>3, <2>1, NoneAssumption DEF StoreInv, PilotInv
  <2> QED BY <1>1, <2>2, <2>3 DEF StoreInv
<1> QED BY <1>2, <1>3 DEF Put, PilotBinding

(* A pilot's evidence is of the transition that is bound.                   *)
LEMMA PutPilot ==
  ASSUME StoreInv, NEW r, Put("pilot", r), PilotBinding # None,
         r.transition = PilotBinding,
         UNCHANGED <<tree, final, passed, touched, launches>>, failure' \in BOOLEAN
  PROVE  StoreInv'
<1>1. StoreTypes'
  BY DEF StoreInv, StoreTypes, Put
<1>2. CASE evidence' = evidence
  BY <1>1, <1>2, StoreFrame DEF StoreInv, StoreTypes
<1>3. CASE evidence' = [evidence EXCEPT !["pilot"] = r]
  <2>1. /\ T' = T /\ Input' = Input /\ SweepRecord' = SweepRecord
        /\ PilotBinding' = PilotBinding /\ evidence'["pilot"] = r
    BY <1>3 DEF StoreInv, StoreTypes, Immutable, T, Input, SweepRecord, PilotBinding
  <2>2. ParentInv' /\ InputInv' /\ FinalInv' /\ PilotInv'
    BY <2>1 DEF StoreInv, ParentInv, InputInv, FinalInv, PilotInv
  <2> QED BY <1>1, <2>2 DEF StoreInv
<1> QED BY <1>2, <1>3 DEF Put

(* A publication keeps one checkpoint of each name.                         *)
LEMMA PublishKeepsTree ==
  ASSUME StoreTypes, NEW prefix \in {"flat", "rough", "pilot"},
         NEW c \in Checkpoints, Publish(prefix, c)
  PROVE  /\ tree' \in [{"flat", "rough", "pilot"} -> SUBSET Checkpoints]
         /\ \A t \in DOMAIN tree' : \A x, y \in tree'[t] : x.step = y.step => x = y
  BY DEF StoreTypes, Publish

(* What a container trains is a checkpoint of its launch.                   *)
LEMMA TrainedType ==
  ASSUME StoreTypes, NEW step \in Nat
  PROVE  Trained(step) \in Checkpoints /\ Trained(step).launch = launches
                                       /\ Trained(step).step = step
  BY DEF StoreTypes, Trained, Checkpoints

(* The next step a phase retains is a natural number.                       *)
LEMMA NextRetainedType ==
  ASSUME NEW S \in SUBSET Checkpoints, NEW n \in Nat, NEW step \in NextRetained(S, n)
  PROVE  step \in Nat
<1>1. Cadence \in Nat
  BY StepsAssumption
<1>2. ASSUME NEW c \in S
      PROVE  c.step + Cadence \in Nat
  BY <1>1 DEF Checkpoints
<1> QED BY <1>2 DEF NextRetained, Latest

(* A step of the container's memory alone leaves the store's part.          *)
LEMMA StoreStutter ==
  ASSUME StoreInv, UNCHANGED <<store, history, launches>>
  PROVE  StoreInv'
  BY StoreFrame DEF StoreInv, StoreTypes

-----------------------------------------------------------------------------
(* Nothing is there at the start.                                           *)
LEMMA InitInv == Init => IInv
<1> SUFFICES ASSUME Init PROVE IInv
  OBVIOUS
<1>1. StoreTypes
  <2>1. evidence = [n \in Immutable |-> evidence[n]]
    BY DEF Init
  <2>2. MaxLaunches \in Nat /\ launches = 0 /\ failure = FALSE
    BY StepsAssumption DEF Init
  <2>3. /\ tree \in [{"flat", "rough", "pilot"} -> SUBSET Checkpoints]
        /\ \A t \in DOMAIN tree : tree[t] = {}
    BY DEF Init
  <2>4. launches \in 0..MaxLaunches
    BY <2>2
  <2> QED BY <2>1, <2>2, <2>3, <2>4 DEF Init, StoreTypes
<1>2. ParentInv /\ InputInv /\ FinalInv /\ PilotInv
  BY DEF Init, ParentInv, InputInv, FinalInv, PilotInv, T, Input, SweepRecord,
         PilotBinding, Immutable
<1>3. JobTypes
  BY DEF Init, JobTypes, NoJob
<1>4. UnboundJob /\ BoundJob /\ PilotJob
  BY DEF Init, UnboundJob, BoundJob, PilotJob
<1> QED BY <1>1, <1>2, <1>3, <1>4 DEF IInv, StoreInv, JobInv

(* A launch makes every transition that the store has one of an earlier     *)
(* container.                                                               *)
LEMMA LaunchInv ==
  ASSUME IInv, NEW mode \in {"full", "recover", "sweep", "pilot"}, NEW d \in Digests,
         Launch(mode, d)
  PROVE  IInv'
<1>1. /\ launches < MaxLaunches /\ launches' = launches + 1
      /\ job' = [NoJob EXCEPT !.mode = mode, !.digests = d]
      /\ pc' \in {"flat", "download", "sweep", "authorize"}
      /\ UNCHANGED <<store, history>>
  BY DEF Launch
<1>2. launches \in Nat /\ MaxLaunches \in Nat /\ launches \in 0..MaxLaunches
  BY StepsAssumption DEF IInv, StoreInv, StoreTypes
<1>3. T # None => T.parent.launch \in Nat /\ T.parent.launch <= launches
  BY DEF IInv, StoreInv, ParentInv, Transitions, Checkpoints
<1>4. StoreTypes'
  BY <1>1, <1>2 DEF IInv, StoreInv, StoreTypes
<1>5. ParentInv'
  BY <1>1, <1>2, <1>3 DEF IInv, StoreInv, ParentInv, T
<1>6. InputInv' /\ FinalInv' /\ PilotInv'
  BY <1>1 DEF IInv, StoreInv, InputInv, FinalInv, PilotInv, T, Input, SweepRecord,
              PilotBinding
<1>7. JobTypes'
  BY <1>1 DEF JobTypes, NoJob
<1>8. UnboundJob'
  BY <1>1, <1>2, <1>3 DEF UnboundJob, NoJob, T
<1>9. BoundJob' /\ PilotJob'
  BY <1>1 DEF BoundJob, PilotJob
<1> QED BY <1>4, <1>5, <1>6, <1>7, <1>8, <1>9 DEF IInv, StoreInv, JobInv

(* The flat phase publishes a checkpoint of its launch.                     *)
LEMMA TrainFlatInv ==
  ASSUME IInv, TrainFlat
  PROVE  IInv'
<1>1. PICK n \in {FlatSteps - 1, FlatSteps, FlatSteps + 1} :
        Publish("flat", Trained(n)) /\ job' = [job EXCEPT !.flat = Trained(n)]
  BY DEF TrainFlat
<1>2. n \in Nat
  BY StepsAssumption
<1>3. /\ pc = "flat" /\ pc' = "gate"
      /\ UNCHANGED <<evidence, lineage, final, failure, launches, passed, touched>>
  BY DEF TrainFlat, Goto
<1>4. Trained(n) \in Checkpoints /\ Trained(n).launch = launches
  BY <1>2, TrainedType DEF IInv, StoreInv
<1>5. StoreInv'
  BY <1>1, <1>3, <1>4, PublishKeepsTree, StoreFrame DEF IInv, StoreInv, StoreTypes
<1>6. JobTypes' /\ job'.flat = Trained(n) /\ job'.retained = job.retained
  BY <1>1, <1>3 DEF IInv, JobInv, JobTypes
<1>7. UnboundJob'
  BY <1>3, <1>4, <1>6 DEF IInv, JobInv, UnboundJob, T
<1>8. BoundJob' /\ PilotJob'
  BY <1>3 DEF BoundJob, PilotJob
<1> QED BY <1>5, <1>6, <1>7, <1>8 DEF IInv, JobInv

(* Only the exact boundary passes the gate.                                 *)
LEMMA FlatGateInv ==
  ASSUME IInv, FlatGateStep
  PROVE  IInv'
<1>1. CASE ~AtBoundary(job.flat.step)
  BY <1>1, RaisedQuietly DEF FlatGateStep
<1>2. CASE AtBoundary(job.flat.step)
  <2>1. /\ pc = "gate" /\ job.flat.step = FlatSteps
        /\ job.flat \in Checkpoints /\ job.flat.launch = launches
    BY <1>2 DEF FlatGateStep, AtBoundary, IInv, JobInv, UnboundJob
  <2>2. /\ \/ passed' = passed \cup {job.flat} /\ pc' = "bind"
           \/ passed' = passed /\ pc' = "stop"
        /\ UNCHANGED <<store, job, launches, touched>>
    BY <1>2 DEF FlatGateStep, Goto
  <2>3. StoreTypes'
    BY <2>1, <2>2 DEF IInv, StoreInv, StoreTypes
  <2>4. ParentInv' /\ InputInv' /\ FinalInv' /\ PilotInv'
    BY <2>2 DEF IInv, StoreInv, ParentInv, InputInv, FinalInv, PilotInv, T, Input,
                SweepRecord, PilotBinding
  <2>5. JobTypes'
    BY <2>1, <2>2 DEF IInv, JobInv, JobTypes
  <2>6. UnboundJob'
    BY <2>1, <2>2 DEF IInv, JobInv, UnboundJob, T
  <2>7. BoundJob' /\ PilotJob'
    BY <2>2 DEF BoundJob, PilotJob
  <2> QED BY <2>3, <2>4, <2>5, <2>6, <2>7 DEF IInv, StoreInv, JobInv
<1> QED BY <1>1, <1>2

(* The lineage of a failed gate is beside everything else.                  *)
LEMMA StopAtGateInv ==
  ASSUME IInv, StopAtGate
  PROVE  IInv'
<1> DEFINE record == [flat |-> job.flat, digests |-> job.digests]
<1>1. /\ UNCHANGED <<tree, lineage, final, passed, touched>>
      /\ \/ Creates("flat_lineage", record) /\ Ends /\ UNCHANGED failure
         \/ PutRaises("flat_lineage", record)
  BY DEF StopAtGate
<1>2. "flat_lineage" \in Immutable /\ StoreInv /\ StoreTypes /\ failure \in BOOLEAN
  BY DEF Immutable, IInv, StoreInv, StoreTypes
<1> HIDE DEF record
<1>3. /\ Put("flat_lineage", record) /\ JobInv' /\ launches' = launches
      /\ failure' \in BOOLEAN
  BY <1>1, <1>2, CreatesPuts, PutRaisesPuts, EndedJob
<1>4. StoreInv'
  BY <1>1, <1>2, <1>3, PutAside
<1> QED BY <1>3, <1>4 DEF IInv

(* A container binds only if no other has, and then it may go on.           *)
LEMMA BindTransitionInv ==
  ASSUME IInv, BindTransition
  PROVE  IInv'
<1>1. PICK record : record = TransitionRecord(RoughSteps)
  OBVIOUS
<1>2. /\ pc = "bind" /\ UNCHANGED <<tree, lineage, final, passed, touched>>
      /\ \/ /\ Creates("transition", record) /\ job' = [job EXCEPT !.record = record]
            /\ pc' = "rough" /\ UNCHANGED <<failure, launches>>
         \/ PutRaises("transition", record)
  BY <1>1 DEF BindTransition, Goto
<1>3. /\ job.flat \in Checkpoints /\ job.flat \in passed /\ job.flat.launch = launches
      /\ job.flat.step = FlatSteps /\ job.digests \in Digests /\ job.retained = {}
      /\ T # None => T.parent.launch < launches
  BY <1>2 DEF IInv, JobInv, UnboundJob, JobTypes
<1>4. /\ "transition" \in Immutable /\ StoreInv /\ StoreTypes /\ failure \in BOOLEAN
      /\ launches \in Nat
  BY DEF Immutable, IInv, StoreInv, StoreTypes
<1>5. /\ record \in Transitions /\ record.parent = job.flat
      /\ record.digests = job.digests /\ record.parent.launch = launches
  BY <1>1, <1>3, StepsAssumption DEF TransitionRecord, RoughBudget, Transitions
<1>6. CASE PutRaises("transition", record)
  <2>1. /\ Put("transition", record) /\ JobInv' /\ launches' = launches
        /\ failure' \in BOOLEAN
    BY <1>4, <1>6, PutRaisesPuts
  <2>2. StoreInv'
    BY <1>2, <1>3, <1>4, <1>5, <2>1, PutTransition
  <2> QED BY <2>1, <2>2 DEF IInv
<1>7. CASE /\ Creates("transition", record) /\ job' = [job EXCEPT !.record = record]
           /\ pc' = "rough" /\ UNCHANGED <<failure, launches>>
  <2>1. Put("transition", record) /\ T' = record
    BY <1>4, <1>7, CreatesPuts DEF T
  <2>2. StoreInv'
    BY <1>2, <1>3, <1>4, <1>5, <1>7, <2>1, PutTransition
  <2>3. T \in {None, record}
    BY <1>7 DEF Creates, T
  <2>4. T = None /\ Input = None /\ touched = {}
    BY <1>3, <1>4, <1>5, <2>3 DEF StoreInv, InputInv
  <2>5. Input' = None
    BY <1>4, <1>7, <2>4 DEF StoreTypes, Creates, Input, Immutable
  <2>6. JobTypes'
    BY <1>3, <1>7 DEF IInv, JobInv, JobTypes
  <2>7. /\ job'.record = record /\ job'.flat = job.flat /\ job'.digests = job.digests
        /\ job'.retained = {}
    BY <1>3, <1>7 DEF IInv, JobInv, JobTypes
  <2>8. UnboundJob' /\ PilotJob'
    BY <1>7 DEF UnboundJob, PilotJob
  <2>9. BoundJob'
    BY <1>2, <1>5, <1>7, <2>1, <2>4, <2>5, <2>7, NoneAssumption DEF BoundJob
  <2> QED BY <2>2, <2>6, <2>8, <2>9 DEF IInv, JobInv
<1> QED BY <1>2, <1>6, <1>7

(* A step of a phase retains one more checkpoint of its launch.             *)
LEMMA TrainPhaseStep ==
  ASSUME IInv, NEW prefix \in {"rough", "pilot"}, NEW n \in Nat, NEW next,
         TrainPhase(prefix, n, next),
         UNCHANGED <<evidence, final, failure, launches, passed, touched>>
  PROVE  /\ StoreInv'
         /\ \E c \in Checkpoints :
              /\ c.launch = launches
              /\ job' = [job EXCEPT !.retained = @ \cup {c}]
         /\ pc' \in {pc, next}
<1>1. PICK step \in NextRetained(job.retained, n) :
        /\ Publish(prefix, Trained(step))
        /\ job' = [job EXCEPT !.retained = @ \cup {Trained(step)}]
        /\ Goto(IF step = n THEN next ELSE pc)
  BY DEF TrainPhase
<1>2. job.retained \in SUBSET Checkpoints /\ StoreTypes
  BY DEF IInv, JobInv, JobTypes, StoreInv
<1>3. step \in Nat
  BY <1>1, <1>2, NextRetainedType
<1>4. Trained(step) \in Checkpoints /\ Trained(step).launch = launches
  BY <1>2, <1>3, TrainedType
<1>5. StoreInv'
  BY <1>1, <1>2, <1>4, PublishKeepsTree, StoreFrame DEF IInv, StoreTypes
<1> QED BY <1>1, <1>4, <1>5 DEF Goto

(* The rough phase retains checkpoints of the container that bound it.      *)
LEMMA TrainRoughInv ==
  ASSUME IInv, TrainRough
  PROVE  IInv'
<1>1. PICK n \in {RoughSteps, RoughSteps + 1} : TrainPhase("rough", n, "rank")
  BY DEF TrainRough
<1>2. n \in Nat
  BY StepsAssumption
<1>3. /\ pc = "rough"
      /\ UNCHANGED <<evidence, lineage, final, failure, launches, passed, touched>>
  BY DEF TrainRough
<1>4. /\ StoreInv' /\ pc' \in {"rough", "rank"}
      /\ \E c \in Checkpoints : c.launch = launches
                                /\ job' = [job EXCEPT !.retained = @ \cup {c}]
  BY <1>1, <1>2, <1>3, TrainPhaseStep
<1>5. PICK c \in Checkpoints : c.launch = launches
                               /\ job' = [job EXCEPT !.retained = @ \cup {c}]
  BY <1>4
<1>6. JobTypes'
  BY <1>3, <1>4, <1>5 DEF IInv, JobInv, JobTypes
<1>7. /\ job'.retained = job.retained \cup {c} /\ job'.record = job.record
      /\ job'.flat = job.flat /\ job'.digests = job.digests
  BY <1>5 DEF IInv, JobInv, JobTypes
<1>8. BoundJob'
  BY <1>3, <1>4, <1>5, <1>7 DEF IInv, JobInv, BoundJob, T, Input
<1>9. UnboundJob' /\ PilotJob'
  BY <1>4 DEF UnboundJob, PilotJob
<1> QED BY <1>4, <1>6, <1>8, <1>9 DEF IInv, JobInv

(* What is selected is one of the container's own, within the ceiling.      *)
LEMMA RankRoughInv ==
  ASSUME IInv, RankRough
  PROVE  IInv'
<1>1. CASE ~(\A c \in job.retained : WithinBudget(c.step))
  BY <1>1, RaisedQuietly DEF RankRough
<1>2. CASE \A c \in job.retained : WithinBudget(c.step)
  <2>1. /\ pc = "rank" /\ pc' = "final" /\ UNCHANGED <<store, launches, history>>
    BY <1>2 DEF RankRough, Goto
  <2>2. PICK E \in [job.retained -> {[k \in {1} |-> Episode(r)] : r \in Rollouts}] :
          \E c \in SelectCheckpoint(E) : job' = [job EXCEPT !.selected = c]
    BY <1>2 DEF RankRough
  <2>3. PICK c \in SelectCheckpoint(E) : job' = [job EXCEPT !.selected = c]
    BY <2>2
  <2>4. c \in job.retained
    BY <2>2, <2>3 DEF SelectCheckpoint
  <2>5. c \in Checkpoints /\ c.step \in Nat
    BY <2>4 DEF IInv, JobInv, JobTypes, Checkpoints
  <2>6. /\ T # None /\ job.flat = T.parent /\ T.parent.step = FlatSteps
    BY <2>1 DEF IInv, JobInv, BoundJob, StoreInv, ParentInv
  <2>7. FlatSteps + c.step <= TotalSteps
    BY <1>2, <2>4, <2>5, <2>6, StepsAssumption DEF WithinBudget, RoughBudget
  <2>8. StoreInv'
    BY <2>1, StoreStutter DEF IInv
  <2>9. JobTypes'
    BY <2>1, <2>3, <2>4 DEF IInv, JobInv, JobTypes
  <2>10. /\ job'.selected = c /\ job'.retained = job.retained
         /\ job'.record = job.record /\ job'.flat = job.flat
         /\ job'.digests = job.digests
    BY <2>3 DEF IInv, JobInv, JobTypes
  <2>11. BoundJob'
    BY <2>1, <2>4, <2>7, <2>10 DEF IInv, JobInv, BoundJob, T, Input
  <2>12. UnboundJob' /\ PilotJob'
    BY <2>1 DEF UnboundJob, PilotJob
  <2> QED BY <2>8, <2>9, <2>11, <2>12 DEF IInv, JobInv
<1> QED BY <1>1, <1>2

(* The reserved seeds are spent on the selected checkpoint, whether or not  *)
(* the evaluation ends well.                                                *)
LEMMA EvaluateFinalInv ==
  ASSUME IInv, EvaluateFinal
  PROVE  IInv'
<1>1. /\ pc = "final" /\ touched' = touched \cup {job.selected}
      /\ UNCHANGED <<evidence, tree, final, passed>>
  BY DEF EvaluateFinal
<1>2. /\ touched = {} /\ T # None /\ Input = None
      /\ job.selected \in Checkpoints
  BY <1>1 DEF IInv, JobInv, BoundJob, JobTypes
<1>3. touched' = {job.selected}
  BY <1>1, <1>2
<1>4. ASSUME launches' = launches, failure' \in BOOLEAN
      PROVE  StoreInv'
  <2>1. StoreTypes'
    BY <1>1, <1>2, <1>3, <1>4 DEF IInv, StoreInv, StoreTypes
  <2>2. ParentInv' /\ InputInv' /\ FinalInv' /\ PilotInv'
    BY <1>1, <1>2, <1>3, <1>4 DEF IInv, StoreInv, ParentInv, InputInv, FinalInv,
         PilotInv, T, Input, SweepRecord, PilotBinding
  <2> QED BY <2>1, <2>2 DEF StoreInv
<1>5. CASE Raises
  BY <1>4, <1>5, RaisedJob DEF IInv, StoreInv
<1>6. CASE /\ \E e \in Episodic : job' = [job EXCEPT !.episodes = e]
           /\ pc' = "input" /\ UNCHANGED <<failure, launches>>
  <2>1. PICK e \in Episodic : job' = [job EXCEPT !.episodes = e]
    BY <1>6
  <2>2. StoreInv'
    BY <1>4, <1>6 DEF IInv, StoreInv, StoreTypes
  <2>3. JobTypes'
    BY <1>1, <1>6, <2>1 DEF IInv, JobInv, JobTypes
  <2>4. /\ job'.selected = job.selected /\ job'.retained = job.retained
        /\ job'.record = job.record /\ job'.flat = job.flat
        /\ job'.digests = job.digests
    BY <2>1 DEF IInv, JobInv, JobTypes
  <2>5. BoundJob'
    BY <1>1, <1>3, <1>6, <2>4 DEF IInv, JobInv, BoundJob, T, Input
  <2>6. UnboundJob' /\ PilotJob'
    BY <1>6 DEF UnboundJob, PilotJob
  <2> QED BY <2>2, <2>3, <2>5, <2>6 DEF IInv, JobInv
<1> QED BY <1>5, <1>6 DEF EvaluateFinal, Goto

(* The input names the checkpoint that the reserved seeds were spent on.    *)
LEMMA PublishInputInv ==
  ASSUME IInv, PublishInput
  PROVE  IInv'
<1>1. PICK i : i = FinalizationInput
  OBVIOUS
<1>2. /\ pc = "input" /\ UNCHANGED <<tree, lineage, final, passed, touched>>
      /\ \/ /\ Creates("input", i) /\ pc' = "finalize"
            /\ UNCHANGED <<failure, job, launches>>
         \/ PutRaises("input", i)
  BY <1>1 DEF PublishInput, Goto
<1>3. /\ T # None /\ T \in Transitions /\ job.record = T
      /\ T.parent.launch = launches /\ job.digests = T.digests
      /\ job.selected \in Checkpoints /\ job.selected.launch = launches
      /\ FlatSteps + job.selected.step <= TotalSteps
      /\ touched = {job.selected}
  BY <1>2 DEF IInv, JobInv, BoundJob, JobTypes, StoreInv, ParentInv
<1>4. "input" \in Immutable /\ StoreInv /\ StoreTypes /\ failure \in BOOLEAN
  BY DEF Immutable, IInv, StoreInv, StoreTypes
<1>5. /\ i \in [transition : Transitions, selected : Checkpoints]
      /\ i.transition = T /\ i.selected = job.selected
  BY <1>1, <1>3 DEF FinalizationInput
<1>6. CASE PutRaises("input", i)
  <2>1. Put("input", i) /\ JobInv' /\ launches' = launches /\ failure' \in BOOLEAN
    BY <1>4, <1>6, PutRaisesPuts
  <2>2. StoreInv'
    BY <1>2, <1>3, <1>4, <1>5, <2>1, PutInput
  <2> QED BY <2>1, <2>2 DEF IInv
<1>7. CASE /\ Creates("input", i) /\ pc' = "finalize"
           /\ UNCHANGED <<failure, job, launches>>
  <2>1. Put("input", i) /\ Input' = i
    BY <1>4, <1>7, CreatesPuts DEF Input
  <2>2. StoreInv'
    BY <1>2, <1>3, <1>4, <1>5, <1>7, <2>1, PutInput
  <2>3. T' = T
    BY <1>4, <1>7 DEF StoreTypes, Creates, T, Immutable
  <2>4. JobTypes'
    BY <1>2, <1>7 DEF IInv, JobInv, JobTypes
  <2>5. BoundJob'
    BY <1>3, <1>5, <1>7, <2>1, <2>3, NoneAssumption DEF BoundJob
  <2>6. UnboundJob' /\ PilotJob'
    BY <1>7 DEF UnboundJob, PilotJob
  <2> QED BY <2>2, <2>4, <2>5, <2>6 DEF IInv, JobInv
<1> QED BY <1>2, <1>6, <1>7

(* A finalization spends the reserved seeds on what the input names.        *)
LEMMA FinalizeInv ==
  ASSUME IInv, Finalize
  PROVE  IInv'
<1>1. /\ pc = "finalize" /\ touched' = touched \cup {job.selected}
      /\ UNCHANGED <<evidence, tree, lineage, passed>>
  BY DEF Finalize
<1>2. /\ T # None /\ Input # None /\ job.record = T
      /\ job.selected = Input.selected /\ job.digests = T.digests
      /\ touched = {Input.selected}
  BY <1>1 DEF IInv, JobInv, BoundJob, StoreInv, InputInv
<1>3. touched' = touched
  BY <1>1, <1>2
<1>4. ASSUME JobInv', launches' = launches, failure' \in BOOLEAN, UNCHANGED final
      PROVE  IInv'
  BY <1>1, <1>3, <1>4, StoreFrame DEF IInv, StoreInv, StoreTypes
<1>5. CASE Raises /\ UNCHANGED final
  BY <1>4, <1>5, RaisedJob DEF IInv, StoreInv
<1>6. CASE /\ final' = [selected |-> job.selected, transition |-> job.record,
                        digests |-> job.digests]
           /\ Ends /\ UNCHANGED failure
  <2>1. JobInv' /\ launches' = launches
    BY <1>6, EndedJob
  <2>2. final' = [selected |-> Input.selected, transition |-> T,
                  digests |-> T.digests]
    BY <1>2, <1>6
  <2>3. StoreTypes'
    BY <1>1, <1>3, <1>6, <2>1 DEF IInv, StoreInv, StoreTypes
  <2>4. ParentInv' /\ InputInv' /\ PilotInv'
    BY <1>1, <1>3, <2>1 DEF IInv, StoreInv, ParentInv, InputInv, PilotInv, T, Input,
         SweepRecord, PilotBinding
  <2>5. FinalInv'
    BY <1>1, <1>2, <2>2 DEF FinalInv, T, Input
  <2> QED BY <2>1, <2>3, <2>4, <2>5 DEF IInv, StoreInv
<1> QED BY <1>5, <1>6 DEF Finalize

(* A recovery finalizes what the evidence names, or nothing.                *)
LEMMA DownloadInv ==
  ASSUME IInv, Download
  PROVE  IInv'
<1>1. CASE Raises /\ UNCHANGED <<evidence, tree, lineage, final, history>>
  BY <1>1, RaisedQuietly
<1>2. CASE /\ T # None /\ Input # None /\ Binds(T) /\ Input.selected \in tree["rough"]
           /\ job' = [job EXCEPT !.flat = T.parent, !.record = T,
                                 !.retained = tree["rough"],
                                 !.selected = Input.selected]
           /\ pc' = "finalize" /\ UNCHANGED <<store, launches, history>>
  <2>1. StoreInv'
    BY <1>2, StoreStutter DEF IInv
  <2>2. tree["rough"] \subseteq Checkpoints
    BY DEF IInv, StoreInv, StoreTypes
  <2>3. pc = "download" /\ job.digests \in Digests
    BY DEF Download, IInv, JobInv, JobTypes
  <2>4. JobTypes'
    BY <1>2, <2>2, <2>3 DEF IInv, JobInv, JobTypes
  <2>5. /\ job'.record = T /\ job'.selected = Input.selected
        /\ job'.digests = job.digests
    BY <1>2 DEF IInv, JobInv, JobTypes
  <2>6. BoundJob'
    BY <1>2, <2>5 DEF BoundJob, Binds, T, Input
  <2>7. UnboundJob' /\ PilotJob'
    BY <1>2 DEF UnboundJob, PilotJob
  <2> QED BY <2>1, <2>4, <2>6, <2>7 DEF IInv, JobInv
<1> QED BY <1>1, <1>2 DEF Download, Goto, T, Input

(* A sweep ends with its record, once.                                      *)
LEMMA SweepInv ==
  ASSUME IInv, Sweep
  PROVE  IInv'
<1>1. PICK rough :
        /\ DOMAIN rough \subseteq SourceCheckpoints
        /\ \E parent \in BestParent(rough) :
             LET record == [digests |-> job.digests, parent |-> parent]
             IN  \/ Creates("sweep", record) /\ Ends /\ UNCHANGED failure
                 \/ PutRaises("sweep", record)
  <2> DEFINE one == {[k \in {1} |-> Episode(r)] : r \in Rollouts}
  <2>1. PICK flat \in [SourceCheckpoints -> one] :
          \E rough \in [{c \in SourceCheckpoints : EligibleParent(flat[c])} -> one] :
          \E parent \in BestParent(rough) :
             LET record == [digests |-> job.digests, parent |-> parent]
             IN  \/ Creates("sweep", record) /\ Ends /\ UNCHANGED failure
                 \/ PutRaises("sweep", record)
    BY DEF Sweep
  <2> HIDE DEF one
  <2> QED BY <2>1
<1>2. PICK parent, record :
        /\ parent \in BestParent(rough)
        /\ record = [digests |-> job.digests, parent |-> parent]
        /\ \/ Creates("sweep", record) /\ Ends /\ UNCHANGED failure
           \/ PutRaises("sweep", record)
  BY <1>1
<1>3. UNCHANGED <<tree, lineage, final, passed, touched>>
  BY DEF Sweep
<1>4. SourceCheckpoints \subseteq Checkpoints
  <2>1. 0 \in 0..MaxLaunches /\ 1 \in Nat /\ 2 \in Nat
    BY StepsAssumption
  <2> QED BY <2>1 DEF SourceCheckpoints, Checkpoints
<1>5. parent \in Checkpoints \cup {None}
  BY <1>1, <1>2, <1>4 DEF BestParent
<1>6. "sweep" \in Immutable /\ StoreInv /\ StoreTypes /\ failure \in BOOLEAN
  BY DEF Immutable, IInv, StoreInv, StoreTypes
<1>7. Put("sweep", record) /\ JobInv' /\ launches' = launches /\ failure' \in BOOLEAN
  BY <1>2, <1>6, CreatesPuts, PutRaisesPuts, EndedJob
<1>8. StoreInv'
  BY <1>2, <1>3, <1>5, <1>6, <1>7, PutSweep
<1> QED BY <1>7, <1>8 DEF IInv

(* Only a parent that the sweep selected, under the same digests, goes on.  *)
LEMMA AuthorizePilotInv ==
  ASSUME IInv, AuthorizePilot
  PROVE  IInv'
<1>1. CASE ~Authorizes(SweepRecord)
  BY <1>1, RaisedQuietly DEF AuthorizePilot, SweepRecord
<1>2. CASE Authorizes(SweepRecord)
  <2>1. /\ job' = [job EXCEPT !.flat = SweepRecord.parent]
        /\ pc = "authorize" /\ pc' = "bind_pilot"
        /\ UNCHANGED <<store, launches, history>>
    BY <1>2 DEF AuthorizePilot, Goto, SweepRecord
  <2>2. /\ SweepRecord # None /\ SweepRecord.parent \in Checkpoints
        /\ job.digests = SweepRecord.digests
    BY <1>2 DEF Authorizes, IInv, StoreInv, PilotInv
  <2>3. StoreInv'
    BY <2>1, StoreStutter DEF IInv
  <2>4. JobTypes'
    BY <2>1 DEF IInv, JobInv, JobTypes
  <2>5. job'.flat = SweepRecord.parent /\ job'.digests = job.digests
    BY <2>1 DEF IInv, JobInv, JobTypes
  <2>6. PilotJob'
    BY <2>1, <2>2, <2>5 DEF PilotJob, SweepRecord
  <2>7. UnboundJob' /\ BoundJob'
    BY <2>1 DEF UnboundJob, BoundJob
  <2> QED BY <2>3, <2>4, <2>6, <2>7 DEF IInv, JobInv
<1> QED BY <1>1, <1>2

(* The pilot's transition says what its container restored.                 *)
LEMMA BindPilotInv ==
  ASSUME IInv, BindPilot
  PROVE  IInv'
<1>1. PICK record : record = TransitionRecord(PilotSteps)
  OBVIOUS
<1>2. /\ pc = "bind_pilot" /\ UNCHANGED <<tree, lineage, final, passed, touched>>
      /\ \/ /\ Creates("pilot_transition", record)
            /\ job' = [job EXCEPT !.record = record]
            /\ pc' = "pilot" /\ UNCHANGED <<failure, launches>>
         \/ PutRaises("pilot_transition", record)
  BY <1>1 DEF BindPilot, Goto
<1>3. /\ SweepRecord # None /\ job.flat \in Checkpoints
      /\ job.flat = SweepRecord.parent /\ job.digests = SweepRecord.digests
      /\ job.digests \in Digests
  BY <1>2 DEF IInv, JobInv, PilotJob, JobTypes
<1>4. "pilot_transition" \in Immutable /\ StoreInv /\ StoreTypes /\ failure \in BOOLEAN
  BY DEF Immutable, IInv, StoreInv, StoreTypes
<1>5. /\ record \in Transitions /\ record.parent = job.flat
      /\ record.digests = job.digests
  <2>1. TotalSteps - job.flat.step \in Int /\ PilotSteps \in Nat
    BY <1>3, StepsAssumption DEF Checkpoints
  <2> QED BY <1>1, <1>3, <2>1 DEF TransitionRecord, RoughBudget, Transitions
<1>6. CASE PutRaises("pilot_transition", record)
  <2>1. /\ Put("pilot_transition", record) /\ JobInv' /\ launches' = launches
        /\ failure' \in BOOLEAN
    BY <1>4, <1>6, PutRaisesPuts
  <2>2. StoreInv'
    BY <1>2, <1>3, <1>4, <1>5, <2>1, PutPilotBinding
  <2> QED BY <2>1, <2>2 DEF IInv
<1>7. CASE /\ Creates("pilot_transition", record)
           /\ job' = [job EXCEPT !.record = record]
           /\ pc' = "pilot" /\ UNCHANGED <<failure, launches>>
  <2>1. Put("pilot_transition", record) /\ PilotBinding' = record
    BY <1>4, <1>7, CreatesPuts DEF PilotBinding
  <2>2. StoreInv'
    BY <1>2, <1>3, <1>4, <1>5, <1>7, <2>1, PutPilotBinding
  <2>3. JobTypes' /\ job'.record = record
    BY <1>3, <1>7 DEF IInv, JobInv, JobTypes
  <2>4. PilotJob'
    BY <1>5, <1>7, <2>1, <2>3, NoneAssumption DEF PilotJob
  <2>5. UnboundJob' /\ BoundJob'
    BY <1>7 DEF UnboundJob, BoundJob
  <2> QED BY <2>2, <2>3, <2>4, <2>5 DEF IInv, JobInv
<1> QED BY <1>2, <1>6, <1>7

(* The pilot trains under the transition its container bound.               *)
LEMMA TrainPilotInv ==
  ASSUME IInv, TrainPilot
  PROVE  IInv'
<1>1. /\ pc = "pilot" /\ PilotSteps \in Nat
      /\ TrainPhase("pilot", PilotSteps, "gate_pilot")
      /\ UNCHANGED <<evidence, lineage, final, failure, launches, passed, touched>>
  BY StepsAssumption DEF TrainPilot
<1>2. /\ StoreInv' /\ pc' \in {"pilot", "gate_pilot"}
      /\ \E c \in Checkpoints : c.launch = launches
                                /\ job' = [job EXCEPT !.retained = @ \cup {c}]
  BY <1>1, TrainPhaseStep
<1>3. PICK c \in Checkpoints : job' = [job EXCEPT !.retained = @ \cup {c}]
  BY <1>2
<1>4. JobTypes'
  BY <1>1, <1>2, <1>3 DEF IInv, JobInv, JobTypes
<1>5. job'.record = job.record
  BY <1>3 DEF IInv, JobInv, JobTypes
<1>6. PilotJob'
  BY <1>1, <1>2, <1>5 DEF IInv, JobInv, PilotJob, PilotBinding
<1>7. UnboundJob' /\ BoundJob'
  BY <1>2 DEF UnboundJob, BoundJob
<1> QED BY <1>2, <1>4, <1>6, <1>7 DEF IInv, JobInv

(* The pilot's evidence is of the transition its container bound.           *)
LEMMA GatePilotInv ==
  ASSUME IInv, GatePilot
  PROVE  IInv'
<1>1. PICK E, c, record :
        /\ record = [transition |-> job.record, selected |-> c,
                     passed |-> PilotGate(E[c], Horizon)]
        /\ \/ Creates("pilot", record) /\ Ends /\ UNCHANGED failure
           \/ PutRaises("pilot", record)
  BY DEF GatePilot
<1>2. pc = "gate_pilot" /\ UNCHANGED <<tree, lineage, final, passed, touched>>
  BY DEF GatePilot
<1>3. PilotBinding # None /\ record.transition = PilotBinding
  BY <1>1, <1>2 DEF IInv, JobInv, PilotJob
<1>4. "pilot" \in Immutable /\ StoreInv /\ StoreTypes /\ failure \in BOOLEAN
  BY DEF Immutable, IInv, StoreInv, StoreTypes
<1>5. Put("pilot", record) /\ JobInv' /\ launches' = launches /\ failure' \in BOOLEAN
  BY <1>1, <1>4, CreatesPuts, PutRaisesPuts, EndedJob
<1>6. StoreInv'
  BY <1>2, <1>3, <1>4, <1>5, PutPilot
<1> QED BY <1>5, <1>6 DEF IInv

-----------------------------------------------------------------------------
(* Every step of a container, and every launch, keeps the invariant.        *)
LEMMA StepInv == IInv /\ [Next]_vars => IInv'
<1> SUFFICES ASSUME IInv, [Next]_vars PROVE IInv'
  OBVIOUS
<1>1. CASE UNCHANGED vars
  BY <1>1 DEF IInv, StoreInv, StoreTypes, ParentInv, InputInv, FinalInv, PilotInv,
     JobInv, JobTypes, UnboundJob, BoundJob, PilotJob, T, Input, SweepRecord,
     PilotBinding
<1>2. CASE \E mode \in {"full", "recover", "sweep", "pilot"}, d \in Digests :
             Launch(mode, d)
  BY <1>2, LaunchInv
<1>3. CASE Exception
  BY <1>3, RaisedQuietly DEF Exception
<1>4. CASE Killed
  BY <1>4, EndedQuietly DEF Killed
<1>5. CASE TrainFlat \/ FlatGateStep \/ StopAtGate \/ BindTransition
  BY <1>5, TrainFlatInv, FlatGateInv, StopAtGateInv, BindTransitionInv
<1>6. CASE TrainRough \/ RankRough \/ EvaluateFinal \/ PublishInput \/ Finalize
  BY <1>6, TrainRoughInv, RankRoughInv, EvaluateFinalInv, PublishInputInv, FinalizeInv
<1>7. CASE Download
  BY <1>7, DownloadInv
<1>8. CASE Sweep \/ AuthorizePilot \/ BindPilot \/ TrainPilot \/ GatePilot
  BY <1>8, SweepInv, AuthorizePilotInv, BindPilotInv, TrainPilotInv, GatePilotInv
<1> QED BY <1>1, <1>2, <1>3, <1>4, <1>5, <1>6, <1>7, <1>8 DEF Next

(* The invariant holds in every state of every behaviour.                   *)
LEMMA AlwaysIInv == Spec => []IInv
  BY InitInv, StepInv, PTL DEF Spec

(* The store and the memory of a container always have their types, and a   *)
(* prefix of the store holds one checkpoint of each step.                   *)
THEOREM Typing == Spec => []TypeOK
<1>1. IInv => TypeOK
  BY DEF IInv, StoreInv, StoreTypes, JobInv, JobTypes, TypeOK
<1> QED BY <1>1, AlwaysIInv, PTL

(* However often the job is launched again or its finalization retried, the *)
(* reserved seeds are spent on one checkpoint.                              *)
THEOREM NoReselection == Spec => []FinalSeedsTouchOneCheckpoint
<1>1. ASSUME IInv
      PROVE  FinalSeedsTouchOneCheckpoint
  <2>1. touched = {} \/ \E c : touched = {c}
    BY <1>1 DEF IInv, StoreInv, InputInv
  <2>2. CASE touched = {}
    BY <2>2, FS_EmptySet DEF FinalSeedsTouchOneCheckpoint
  <2>3. CASE \E c : touched = {c}
    <3>1. PICK c : touched = {c}
      BY <2>3
    <3>2. Cardinality({c}) = 1
      BY FS_Singleton
    <3> QED BY <3>1, <3>2 DEF FinalSeedsTouchOneCheckpoint
  <2> QED BY <2>1, <2>2, <2>3
<1> QED BY <1>1, AlwaysIInv, PTL

(* What is final is what the immutable evidence names, under the digests of *)
(* its job, from a parent that passed the gate, within the ceiling.         *)
THEOREM FinalProven == Spec => []FinalIsProven
<1>1. IInv => FinalIsProven
  BY DEF IInv, StoreInv, ParentInv, InputInv, FinalInv, FinalIsProven, T, Input
<1> QED BY <1>1, AlwaysIInv, PTL

(* A pilot's evidence descends from the parent that the sweep selected,     *)
(* under the sweep's digests.                                               *)
THEOREM PilotDescends == Spec => []PilotIsAuthorized
<1>1. IInv => PilotIsAuthorized
  BY DEF IInv, StoreInv, PilotInv, PilotIsAuthorized, SweepRecord, PilotBinding
<1> QED BY <1>1, AlwaysIInv, PTL
-----------------------------------------------------------------------------
(* Evidence that was written stands, whatever is launched next.             *)
EvidenceStands ==
  \A name \in Immutable : evidence[name] # None => evidence'[name] = evidence[name]

(* Every write to the immutable objects is a conditional create.            *)
LEMMA PutStands ==
  ASSUME StoreTypes, NEW name \in Immutable, NEW value, Put(name, value)
  PROVE  EvidenceStands
  BY DEF StoreTypes, Put, EvidenceStands

(* A put that returns and a put that raises are both conditional creates.   *)
LEMMA EitherStands ==
  ASSUME StoreTypes, NEW name \in Immutable, NEW value,
         Creates(name, value) \/ PutRaises(name, value)
  PROVE  EvidenceStands
  BY CreatesPuts, PutRaisesPuts, PutStands

(* No step of a container rewrites a piece of evidence.                     *)
LEMMA StepStands ==
  ASSUME StoreTypes, Next
  PROVE  EvidenceStands
<1>1. ASSUME UNCHANGED evidence
      PROVE  EvidenceStands
  BY <1>1 DEF EvidenceStands
<1>2. CASE StopAtGate
  <2>1. PICK v : Creates("flat_lineage", v) \/ PutRaises("flat_lineage", v)
    BY <1>2 DEF StopAtGate
  <2> QED BY <2>1, EitherStands DEF Immutable
<1>3. CASE BindTransition
  <2>1. PICK v : Creates("transition", v) \/ PutRaises("transition", v)
    BY <1>3 DEF BindTransition
  <2> QED BY <2>1, EitherStands DEF Immutable
<1>4. CASE PublishInput
  <2>1. PICK v : Creates("input", v) \/ PutRaises("input", v)
    BY <1>4 DEF PublishInput
  <2> QED BY <2>1, EitherStands DEF Immutable
<1>5. CASE Sweep
  <2>1. PICK v : Creates("sweep", v) \/ PutRaises("sweep", v)
    BY <1>5 DEF Sweep
  <2> QED BY <2>1, EitherStands DEF Immutable
<1>6. CASE BindPilot
  <2>1. PICK v : Creates("pilot_transition", v) \/ PutRaises("pilot_transition", v)
    BY <1>6 DEF BindPilot
  <2> QED BY <2>1, EitherStands DEF Immutable
<1>7. CASE GatePilot
  <2>1. PICK v : Creates("pilot", v) \/ PutRaises("pilot", v)
    BY <1>7 DEF GatePilot
  <2> QED BY <2>1, EitherStands DEF Immutable
<1>8. CASE \/ \E mode \in {"full", "recover", "sweep", "pilot"}, d \in Digests :
               Launch(mode, d)
           \/ Exception \/ Killed
  BY <1>1, <1>8 DEF Launch, Exception, Killed
<1>9. CASE TrainFlat \/ FlatGateStep \/ TrainRough \/ RankRough
  <2>1. UNCHANGED evidence
    BY <1>9 DEF TrainFlat, FlatGateStep, TrainRough, RankRough
  <2> QED BY <1>1, <2>1
<1>10. CASE EvaluateFinal \/ Finalize \/ Download \/ AuthorizePilot \/ TrainPilot
  <2>1. UNCHANGED evidence
    BY <1>10 DEF EvaluateFinal, Finalize, Download, AuthorizePilot, TrainPilot
  <2> QED BY <1>1, <2>1
<1> QED BY <1>2, <1>3, <1>4, <1>5, <1>6, <1>7, <1>8, <1>9, <1>10 DEF Next

(* Only a finalization writes what is final, and only it and the final      *)
(* evaluation spend the reserved seeds.                                     *)
LEMMA OnlyFinalizes ==
  ASSUME Next
  PROVE  \/ EvaluateFinal \/ Finalize
         \/ UNCHANGED <<final, touched>>
<1>1. CASE \/ \E mode \in {"full", "recover", "sweep", "pilot"}, d \in Digests :
               Launch(mode, d)
           \/ Exception \/ Killed
  BY <1>1 DEF Launch, Exception, Killed
<1>2. CASE TrainFlat \/ FlatGateStep \/ StopAtGate \/ BindTransition
  BY <1>2 DEF TrainFlat, FlatGateStep, StopAtGate, BindTransition
<1>3. CASE TrainRough \/ RankRough \/ PublishInput \/ Download
  BY <1>3 DEF TrainRough, RankRough, PublishInput, Download
<1>4. CASE Sweep \/ AuthorizePilot \/ BindPilot \/ TrainPilot \/ GatePilot
  BY <1>4 DEF Sweep, AuthorizePilot, BindPilot, TrainPilot, GatePilot
<1> QED BY <1>1, <1>2, <1>3, <1>4 DEF Next

(* A launch finds the seeds unspent, or spends them on what the input names;*)
(* finalizing again writes what is already there.                           *)
FinalStands ==
  /\ final # None => final' = final
  /\ touched # {} => touched' = touched

(* No step replaces a finalization or spends the seeds a second time.       *)
LEMMA StepFinalStands ==
  ASSUME IInv, Next
  PROVE  FinalStands
<1>1. CASE UNCHANGED <<final, touched>>
  BY <1>1 DEF FinalStands
<1>2. CASE EvaluateFinal
  <2>1. touched = {} /\ UNCHANGED final
    BY <1>2 DEF EvaluateFinal, IInv, JobInv, BoundJob
  <2> QED BY <2>1 DEF FinalStands
<1>3. CASE Finalize
  <2>1. /\ job.record = T /\ job.selected = Input.selected
        /\ job.digests = T.digests /\ Input # None
    BY <1>3 DEF Finalize, IInv, JobInv, BoundJob
  <2>2. touched' = touched
    BY <1>3, <2>1 DEF Finalize, IInv, StoreInv, InputInv
  <2>3. final # None => final' = final
    BY <1>3, <2>1 DEF Finalize, IInv, StoreInv, FinalInv
  <2> QED BY <2>2, <2>3 DEF FinalStands
<1> QED BY <1>1, <1>2, <1>3, OnlyFinalizes

(* A piece of immutable evidence, once written, is never changed: not by a  *)
(* relaunch under the same identifier, a raise, a kill, a recovery or a     *)
(* pilot (put_immutable_json).                                              *)
THEOREM ImmutableEvidence == Spec => [][EvidenceStands]_vars
<1>1. IInv /\ [Next]_vars => [EvidenceStands]_vars
  <2> SUFFICES ASSUME IInv, Next PROVE EvidenceStands
    OBVIOUS
  <2> QED BY StepStands DEF IInv, StoreInv
<1> QED BY <1>1, AlwaysIInv, PTL DEF Spec

(* What was finalized is never replaced, though a recovery may finalize the *)
(* run again and any launch may follow; and the checkpoint that the         *)
(* reserved seeds were spent on is never followed by another.               *)
THEOREM FinalIsFinal == Spec => [][FinalStands]_vars
<1>1. IInv /\ [Next]_vars => [FinalStands]_vars
  <2> SUFFICES ASSUME IInv, Next PROVE FinalStands
    OBVIOUS
  <2> QED BY StepFinalStands
<1> QED BY <1>1, AlwaysIInv, PTL DEF Spec
=============================================================================
