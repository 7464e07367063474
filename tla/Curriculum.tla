----------------------------- MODULE Curriculum -----------------------------
(***************************************************************************)
(* The hosted G1 jobs: the flat-to-rough curriculum                        *)
(* (hosted_g1_curriculum.run_g1_curriculum), the recovery of its           *)
(* finalization (recover_g1_finalization, --recover-existing), and the     *)
(* diagnostic sweep and the pilot (hosted_g1_recovery).  Each is one       *)
(* container with an empty disk; what outlives it is in the object store:  *)
(* the checkpoints of the three run prefixes (published by train_mjx,      *)
(* RunLifecycle) and the evidence.                                         *)
(*                                                                         *)
(* Immutable evidence is written by put_immutable_json, which fails when   *)
(* other bytes are there.  The controller submits each job once and the    *)
(* provider restarts none; a job is launched again by hand, under the same *)
(* run identifier, as the docstrings of --recover-existing and of          *)
(* put_immutable_json provide for.  Any operation may raise and a          *)
(* container may be killed at any time.  Training is not reproducible bit  *)
(* by bit (g1_curriculum.py:96), so every training makes new bytes.        *)
(*                                                                         *)
(* The record of a local copy of each piece of evidence is always made in  *)
(* an empty directory and is left out.  The attestation of the container   *)
(* (require_nebius_execution) is modelled in RunLifecycle.                 *)
(***************************************************************************)
EXTENDS Episodes

CONSTANTS None,
          FlatSteps,       \* the exact derived flat boundary
          TotalSteps,      \* the ceiling of both phases
          RoughSteps,      \* the aligned request for what is left
          PilotSteps,      \* the pilot's request
          Cadence,         \* steps between retained checkpoints
          EpisodeCount,    \* episodes of the gates and of the final evidence
          Required,        \* how many of them must reach the horizon
          PreferredMean,   \* the mean speed of the preferred acceptance (0.6)
          Digests,         \* bindings: matrix, image and both configs
          MaxLaunches      \* bound on the containers, for model checking

ASSUME StepsAssumption ==
  /\ {FlatSteps, TotalSteps, RoughSteps, PilotSteps, Cadence, MaxLaunches}
       \subseteq Nat \ {0}
  /\ FlatSteps + RoughSteps <= TotalSteps

Immutable == {"flat_lineage", "transition", "input", "sweep",
              "pilot_transition", "pilot"}
Checkpoints == [launch : 0..MaxLaunches, step : Nat]
Transitions == [parent : Checkpoints, digests : Digests,
                remaining : Int, requested : Nat]

ASSUME NoneAssumption ==
  /\ None \notin Checkpoints
  /\ None \notin Transitions
  /\ None \notin [transition : Transitions, selected : Checkpoints]

VARIABLES
  evidence,    \* the immutable objects, and what they say
  tree,        \* the checkpoints of the flat, rough and pilot prefixes
  lineage,     \* report/g1-phase-lineage.json of the rough run: overwritten
  final,       \* the finalized artifacts of the rough run
  failure,     \* a failure.json was written
  job,         \* the container's memory
  pc,          \* where it is
  launches,    \* containers started so far
  passed,      \* history: checkpoints that passed the flat gate
  touched      \* history: checkpoints evaluated on the final seeds

store == <<evidence, tree, lineage, final, failure>>
history == <<passed, touched>>
vars == <<store, job, pc, launches, history>>

NoJob == [mode |-> None, digests |-> None, flat |-> None, retained |-> {},
          selected |-> None, record |-> None, episodes |-> None]

-----------------------------------------------------------------------------
\* Steps common to the jobs.

Goto(there) == pc' = there
\* The container ends; main records a failure of the curriculum, at best.
Ends == pc' = "idle" /\ job' = NoJob /\ launches' = launches
Raises == /\ Ends
          /\ failure' \in {failure} \cup
                 (IF job.mode \in {"full", "recover"} THEN {TRUE} ELSE {})

PutOverwrites(name, value) ==                                        \* mutant
  evidence' = [evidence EXCEPT ![name] = value]
\* The conditional create and the comparison with what is there.
Creates(name, value) == /\ evidence[name] \in {None, value}
                        /\ evidence' = [evidence EXCEPT ![name] = value]

\* The object is not written, or written and the answer is lost.
PutRaises(name, value) ==
  /\ evidence' \in {evidence} \cup
       (IF evidence[name] = None
          THEN {[evidence EXCEPT ![name] = value]} ELSE {})
  /\ Raises

PublishBeside(prefix, c) == tree' = [tree EXCEPT ![prefix] = @ \cup {c}]  \* mutant
\* A publication replaces the checkpoint of the same name.
Publish(prefix, c) ==
  tree' = [tree EXCEPT ![prefix] = {d \in @ : d.step # c.step} \cup {c}]

Trained(step) == [launch |-> launches, step |-> step]
Episodic == [1..EpisodeCount -> {Episode(r) : r \in Rollouts}]

Launch(mode, d) ==
  /\ pc = "idle" /\ launches < MaxLaunches
  /\ launches' = launches + 1
  /\ job' = [NoJob EXCEPT !.mode = mode, !.digests = d]
  /\ pc' = CASE mode = "full" -> "flat"
             [] mode = "recover" -> "download"
             [] mode = "sweep" -> "sweep"
             [] mode = "pilot" -> "authorize"
  /\ UNCHANGED <<store, history>>

\* Any operation may raise; the process may be killed.
Exception == pc # "idle" /\ Raises
             /\ UNCHANGED <<evidence, tree, lineage, final, history>>
Killed == pc # "idle" /\ Ends /\ UNCHANGED <<store, history>>

-----------------------------------------------------------------------------
\* The curriculum.

\* The flat training publishes its final checkpoint, at or off the boundary.
TrainFlat ==
  /\ pc = "flat"
  /\ \E n \in {FlatSteps - 1, FlatSteps, FlatSteps + 1} :
       /\ Publish("flat", Trained(n))
       /\ job' = [job EXCEPT !.flat = Trained(n)]
  /\ Goto("gate")
  /\ UNCHANGED <<evidence, lineage, final, failure, launches, history>>

AtBoundary(n) == n = FlatSteps

\* Only the exact boundary is evaluated, on the selection seeds.
FlatGateStep ==
  /\ pc = "gate"
  /\ IF AtBoundary(job.flat.step)
     THEN \E e \in Episodic :
            /\ passed' = IF FlatGate(e, Required) THEN passed \cup {job.flat}
                                                  ELSE passed
            /\ Goto(IF FlatGate(e, Required) THEN "bind" ELSE "stop")
            /\ UNCHANGED <<store, job, launches, touched>>
     ELSE Raises /\ UNCHANGED <<evidence, tree, lineage, final, history>>

\* A failed gate leaves its lineage under the flat run and ends the job.
StopAtGate ==
  LET record == [flat |-> job.flat, digests |-> job.digests]
  IN  /\ pc = "stop"
      /\ \/ Creates("flat_lineage", record) /\ Ends /\ UNCHANGED failure
         \/ PutRaises("flat_lineage", record)
      /\ UNCHANGED <<tree, lineage, final, history>>

RoughBudget(spent) == TotalSteps - spent

TransitionRecord(requested) ==
  [parent |-> job.flat, digests |-> job.digests,
   remaining |-> RoughBudget(job.flat.step), requested |-> requested]

\* The transition is published before the rough training starts.
BindTransition ==
  LET record == TransitionRecord(RoughSteps)
  IN  /\ pc = "bind"
      /\ \/ /\ Creates("transition", record)
            /\ job' = [job EXCEPT !.record = record]
            /\ Goto("rough")
            /\ UNCHANGED <<failure, launches>>
         \/ PutRaises("transition", record)
      /\ UNCHANGED <<tree, lineage, final, history>>

Latest(S) == {c \in S : \A d \in S : d.step <= c.step}

\* The steps a phase of n steps may retain next, after the checkpoints of S.
NextRetained(S, n) ==
  IF S = {} THEN {0}
  ELSE {IF c.step + Cadence < n THEN c.step + Cadence ELSE n : c \in Latest(S)}

\* The initial policy, then the retained ones, then the final one.
TrainPhase(prefix, n, next) ==
  \E step \in NextRetained(job.retained, n) :
    /\ Publish(prefix, Trained(step))
    /\ job' = [job EXCEPT !.retained = @ \cup {Trained(step)}]
    /\ Goto(IF step = n THEN next ELSE pc)

\* Brax may round the request up.
TrainRough ==
  /\ pc = "rough"
  /\ \E n \in {RoughSteps, RoughSteps + 1} : TrainPhase("rough", n, "rank")
  /\ UNCHANGED <<evidence, lineage, final, failure, launches, history>>

WithinBudget(n) == n <= RoughBudget(job.flat.step)

\* Every retained checkpoint, the initial one too, is ranked.
RankRough ==
  /\ pc = "rank"
  /\ IF \A c \in job.retained : WithinBudget(c.step)
     THEN /\ \E E \in [job.retained -> {[k \in {1} |-> Episode(r)] : r \in Rollouts}] :
               \E c \in SelectCheckpoint(E) : job' = [job EXCEPT !.selected = c]
          /\ Goto("final")
          /\ UNCHANGED <<store, launches, history>>
     ELSE Raises /\ UNCHANGED <<evidence, tree, lineage, final, history>>

\* The reserved seeds, once the selection is made; then the lineage.
EvaluateFinal ==
  /\ pc = "final"
  /\ touched' = touched \cup {job.selected}
  /\ \/ /\ \E e \in Episodic : job' = [job EXCEPT !.episodes = e]
        /\ lineage' = [transition |-> job.record, selected |-> job.selected]
        /\ Goto("input")
        /\ UNCHANGED <<failure, launches>>
     \/ Raises /\ UNCHANGED lineage
  /\ UNCHANGED <<evidence, tree, final, passed>>

FinalizationInput == [transition |-> job.record, selected |-> job.selected]

\* What a finalization needs is published before it is tried.
PublishInput ==
  /\ pc = "input"
  /\ \/ /\ Creates("input", FinalizationInput)
        /\ Goto("finalize")
        /\ UNCHANGED <<failure, job, launches>>
     \/ PutRaises("input", FinalizationInput)
  /\ UNCHANGED <<tree, lineage, final, history>>

HardPassed(e) == Accepted(e, EpisodeCount, Required)

\* The finalizer evaluates the final seeds again; RunLifecycle has its steps.
Finalize ==
  /\ pc = "finalize"
  /\ touched' = touched \cup {job.selected}
  /\ \/ /\ final' = [selected |-> job.selected, transition |-> job.record,
                     digests |-> job.digests]
        /\ Ends /\ UNCHANGED failure
     \/ Raises /\ UNCHANGED final
  /\ UNCHANGED <<evidence, tree, lineage, passed>>

-----------------------------------------------------------------------------
\* The recovery of a finalization.

Unbound(record) == TRUE                                              \* mutant
Binds(record) == record.digests = job.digests

\* The rough run's tree and evidence, and the parent by name and digest.
Download ==
  /\ pc = "download"
  /\ IF /\ evidence["transition"] # None /\ evidence["input"] # None
        /\ evidence["transition"].parent \in tree["flat"]
        /\ Binds(evidence["transition"])
        /\ evidence["transition"].requested <= evidence["transition"].remaining
        /\ evidence["input"].transition = evidence["transition"]
        /\ evidence["input"].selected \in tree["rough"]
     THEN /\ job' = [job EXCEPT !.flat = evidence["transition"].parent,
                                !.record = evidence["transition"],
                                !.retained = tree["rough"],
                                !.selected = evidence["input"].selected]
          /\ Goto("finalize")
          /\ UNCHANGED <<store, launches, history>>
     ELSE Raises /\ UNCHANGED <<evidence, tree, lineage, final, history>>

-----------------------------------------------------------------------------
\* The sweep over the rejected campaign's checkpoints, and the pilot.

SourceCheckpoints == {[launch |-> 0, step |-> n] : n \in {1, 2}}

BestParent(rough) ==
  IF DOMAIN rough = {} THEN {None}
  ELSE {c \in DOMAIN rough :
         \A d \in DOMAIN rough \ {c} :
           ~Outranks(DiagnosticKey(rough[d], d.step),
                     DiagnosticKey(rough[c], c.step))}

\* Evaluation only: the eligible parent of the best rough rank, if any.
Sweep ==
  LET one == {[k \in {1} |-> Episode(r)] : r \in Rollouts}
  IN  /\ pc = "sweep"
      /\ \E flat \in [SourceCheckpoints -> one] :
         \E rough \in [{c \in SourceCheckpoints : EligibleParent(flat[c])}
                         -> one] :
         \E parent \in BestParent(rough) :
           LET record == [digests |-> job.digests, parent |-> parent]
           IN  \/ Creates("sweep", record) /\ Ends /\ UNCHANGED failure
               \/ PutRaises("sweep", record)
      /\ UNCHANGED <<tree, lineage, final, history>>

AnySweep(record) == record # None /\ record.parent # None            \* mutant
\* The sweep names a parent, and was made under the same digests.
Authorizes(record) == /\ record # None
                      /\ record.parent # None
                      /\ record.digests = job.digests

\* The pilot restores the parent the sweep selected, and no other.
AuthorizePilot ==
  /\ pc = "authorize"
  /\ IF Authorizes(evidence["sweep"])
     THEN /\ job' = [job EXCEPT !.flat = evidence["sweep"].parent]
          /\ Goto("bind_pilot")
          /\ UNCHANGED <<store, launches, history>>
     ELSE Raises /\ UNCHANGED <<evidence, tree, lineage, final, history>>

BindPilot ==
  LET record == TransitionRecord(PilotSteps)
  IN  /\ pc = "bind_pilot"
      /\ \/ /\ Creates("pilot_transition", record)
            /\ job' = [job EXCEPT !.record = record]
            /\ Goto("pilot")
            /\ UNCHANGED <<failure, launches>>
         \/ PutRaises("pilot_transition", record)
      /\ UNCHANGED <<tree, lineage, final, history>>

TrainPilot ==
  /\ pc = "pilot"
  /\ TrainPhase("pilot", PilotSteps, "gate_pilot")
  /\ UNCHANGED <<evidence, lineage, final, failure, launches, history>>

\* The gate reads the selection evidence of the selected checkpoint.
GatePilot ==
  /\ pc = "gate_pilot"
  /\ \E E \in [job.retained -> {[k \in {1} |-> Episode(r)] : r \in Rollouts}] :
     \E c \in SelectCheckpoint(E) :
       LET record == [transition |-> job.record, selected |-> c,
                      passed |-> PilotGate(E[c], Horizon)]
       IN  \/ Creates("pilot", record) /\ Ends /\ UNCHANGED failure
           \/ PutRaises("pilot", record)
  /\ UNCHANGED <<tree, lineage, final, history>>

-----------------------------------------------------------------------------
Init ==
  /\ evidence = [name \in Immutable |-> None]
  /\ tree = [prefix \in {"flat", "rough", "pilot"} |-> {}]
  /\ lineage = None /\ final = None /\ failure = FALSE
  /\ job = NoJob /\ pc = "idle" /\ launches = 0
  /\ passed = {} /\ touched = {}

Next ==
  \/ \E mode \in {"full", "recover", "sweep", "pilot"}, d \in Digests :
       Launch(mode, d)
  \/ Exception \/ Killed
  \/ TrainFlat \/ FlatGateStep \/ StopAtGate \/ BindTransition
  \/ TrainRough \/ RankRough \/ EvaluateFinal \/ PublishInput \/ Finalize
  \/ Download
  \/ Sweep \/ AuthorizePilot \/ BindPilot \/ TrainPilot \/ GatePilot

Spec == Init /\ [][Next]_vars

-----------------------------------------------------------------------------
\* The store and the container's memory have their types.
TypeOK ==
  /\ tree \in [{"flat", "rough", "pilot"} -> SUBSET Checkpoints]
  /\ \A t \in DOMAIN tree : \A c, d \in tree[t] : c.step = d.step => c = d
  /\ failure \in BOOLEAN
  /\ job.digests \in Digests \cup {None}
  /\ job.retained \subseteq Checkpoints
  /\ job.selected \in job.retained \cup {None}
  /\ launches \in 0..MaxLaunches
  /\ passed \subseteq Checkpoints /\ touched \subseteq Checkpoints

\* The reserved seeds are spent on one checkpoint, however often the job is
\* launched again or its finalization retried
\* (hosted_g1_curriculum.py:20, "No final-set reselection").
FinalSeedsTouchOneCheckpoint == Cardinality(touched) <= 1

\* What is published as final is what the immutable evidence names, under the
\* digests of the job that finalized it; its parent passed the flat gate at
\* the exact boundary; both phases stay below the ceiling.
FinalIsProven ==
  final # None =>
    LET t == evidence["transition"]
    IN  /\ t # None /\ evidence["input"] # None
        /\ final.transition = t /\ evidence["input"].transition = t
        /\ final.selected = evidence["input"].selected
        /\ final.digests = t.digests
        /\ t.parent \in passed /\ t.parent.step = FlatSteps
        /\ final.selected \in touched
        /\ final.selected.launch = t.parent.launch
        /\ t.parent.step + final.selected.step <= TotalSteps

\* A pilot's evidence descends from the parent the sweep selected under the
\* same digests (hosted_g1_recovery.py:205).
PilotIsAuthorized ==
  evidence["pilot"] # None =>
    LET t == evidence["pilot"].transition
    IN  /\ t = evidence["pilot_transition"]
        /\ t.parent = evidence["sweep"].parent
        /\ t.digests = evidence["sweep"].digests

\* "Final acceptance tolerates two sampled failures": with enough episodes at
\* the horizon, every completed one fast enough and the preferred mean, the
\* final evidence passes hard acceptance (specs/showcase-run-curation of the
\* change g1-survival-reward-and-gate-tolerance, spec.md:38).
FinalAcceptanceTolerates ==
  job.episodes # None =>
    ((/\ FlatGate(job.episodes, Required)
      /\ SpeedSum(job.episodes) >= PreferredMean * EpisodeCount)
       => HardPassed(job.episodes))
=============================================================================
