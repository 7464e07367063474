--------------------------- MODULE CampaignProofs ---------------------------
(***************************************************************************)
(* Proofs about Campaign, for any seeds, planned attempts and their ranking,*)
(* any number of watchers, and any number of commands that die and of       *)
(* changes of what a plan is made from.                                     *)
(***************************************************************************)
EXTENDS Campaign, FiniteSetTheorems, TLAPS

USE DEF example, outside, Locked, WatchOnly

SubType == [step : {"idle", "create", "adopt", "record"}, key : Keys \cup {None}]
WatchType == [step : {"idle", "read", "poll", "save"}, key : Keys \cup {None},
              copy : Attempt, again : BOOLEAN]

(* A submission in progress is of an attempt, and so is a watch.            *)
Placed == /\ sub.step # "idle" => sub.key \in Keys
          /\ \A w \in Watchers : watch[w].step # "idle" => watch[w].key \in Keys

TypeInv == TypeOK /\ Placed

(* What the commands and the watchers make of an attempt is an attempt.     *)
LEMMA AttemptTypes ==
  /\ NoAttempt \in Attempt
  /\ \A a \in Attempt :
       /\ \A s \in States : [a EXCEPT !.state = s] \in Attempt
       /\ [a EXCEPT !.state = "SUBMITTED", !.remote = TRUE] \in Attempt
       /\ [a EXCEPT !.state = "NEEDS_HUMAN", !.watchdog = FALSE] \in Attempt
       /\ \A why \in {"heartbeat", "unknown", "evidence"} : Stopped(a, why) \in Attempt
       /\ \A end \in Ended : /\ Terminal(a, end) \in Attempt
                             /\ [a EXCEPT !.terminal = end] \in Attempt
       /\ Running(a) \in Attempt
       /\ \A pass \in BOOLEAN : CleanedUp(a, pass) \in Attempt
<1>1. NoAttempt \in Attempt
  BY DEF NoAttempt, Attempt
<1>2. ASSUME NEW a \in Attempt
      PROVE  /\ \A s \in States : [a EXCEPT !.state = s] \in Attempt
             /\ [a EXCEPT !.state = "SUBMITTED", !.remote = TRUE] \in Attempt
             /\ \A b \in BOOLEAN :
                  [a EXCEPT !.state = "NEEDS_HUMAN", !.watchdog = b] \in Attempt
             /\ \A end \in Ended :
                  /\ [a EXCEPT !.state = "FINALIZING", !.terminal = end] \in Attempt
                  /\ [a EXCEPT !.terminal = end] \in Attempt
             /\ \A pass \in BOOLEAN, s \in States \cup {a.state} :
                  [a EXCEPT !.clean = pass, !.state = s] \in Attempt
  BY DEF Attempt, States, Ended
<1>3. ASSUME NEW a \in Attempt
      PROVE  /\ \A why \in {"heartbeat", "unknown", "evidence"} : Stopped(a, why) \in Attempt
             /\ \A end \in Ended : Terminal(a, end) \in Attempt
             /\ Running(a) \in Attempt
  <2>1. ASSUME NEW why \in {"heartbeat", "unknown", "evidence"}
        PROVE  Stopped(a, why) \in Attempt
    <3>1. (why \in {"heartbeat", "unknown"}) \in BOOLEAN
      OBVIOUS
    <3> QED BY <1>2, <3>1 DEF Stopped
  <2>2. Running(a) \in Attempt
    BY <1>2 DEF Running, States
  <2> QED BY <1>2, <2>1, <2>2 DEF Terminal
<1>4. ASSUME NEW a \in Attempt, NEW pass \in BOOLEAN
      PROVE  CleanedUp(a, pass) \in Attempt
  BY <1>2, <1>4 DEF CleanedUp, States
<1> QED BY <1>1, <1>2, <1>3, <1>4

(* A plan made now is a plan.                                               *)
LEMMA PlanType ==
  ASSUME TypeOK, NEW k \in Keys
  PROVE  build_plan(k) \in PlanDigest /\ Planned(k) \in Attempt
<1>1. build_plan(k) \in PlanDigest
  BY DEF TypeOK, build_plan, Parent, PlanDigest
<1>2. att[k] \in Attempt
  BY DEF TypeOK
<1> QED BY <1>1, <1>2 DEF Planned, Attempt, States

(* A save keeps the state file well-typed.                                  *)
LEMMA SaveType ==
  ASSUME TypeOK, NEW k \in Keys, NEW a \in Attempt, Save(k, a)
  PROVE  att' \in [Keys -> Attempt]
  BY DEF TypeOK, Save

(* A watcher moves on with well-typed local variables, and with a key.      *)
LEMMA WatcherType ==
  ASSUME TypeInv, NEW w \in Watchers, NEW e \in WatchType,
         e.step # "idle" => e.key \in Keys, watch' = [watch EXCEPT ![w] = e]
  PROVE  /\ watch' \in [Watchers -> WatchType]
         /\ \A v \in Watchers : watch'[v].step # "idle" => watch'[v].key \in Keys
  BY DEF TypeInv, TypeOK, Placed, WatchType

(* What a watcher polls gives it well-typed local variables.                *)
LEMMA PollTypes ==
  ASSUME TypeInv, NEW w \in Watchers, watch[w].step = "poll", WatchPoll(w)
  PROVE  \E e \in WatchType : /\ e.step # "idle" => e.key \in Keys
                              /\ watch' = [watch EXCEPT ![w] = e]
<1> DEFINE a == watch[w].copy
           seen == remote[watch[w].key]
           Then(b, again) == [watch[w] EXCEPT !.step = "save", !.copy = b,
                                              !.again = again]
<1>1. watch[w] \in WatchType /\ a \in Attempt /\ watch[w].key \in Keys
  BY DEF TypeInv, TypeOK, WatchType, Placed
<1>2. ASSUME NEW b \in Attempt, NEW again \in BOOLEAN
      PROVE  Then(b, again) \in WatchType /\ Then(b, again).key \in Keys
  BY <1>1 DEF WatchType
<1>3. Idle \in WatchType /\ Idle.step = "idle"
  BY AttemptTypes DEF Idle, WatchType
<1>4. LET r == [watch[w] EXCEPT !.step = "read", !.copy = NoAttempt]
      IN  r \in WatchType /\ r.key \in Keys
  BY <1>1, AttemptTypes DEF WatchType
<1>5. /\ Stopped(a, "heartbeat") \in Attempt /\ Stopped(a, "unknown") \in Attempt
      /\ Running(a) \in Attempt /\ \A end \in Ended : Terminal(a, end) \in Attempt
  BY <1>1, AttemptTypes
<1>6. PICK next \in {Idle, [watch[w] EXCEPT !.step = "read", !.copy = NoAttempt],
                     Then(Stopped(a, "heartbeat"), FALSE)}
                    \cup (IF seen \in Ended
                            THEN {Then(Terminal(a, seen), FALSE)}
                            ELSE {Then(Stopped(a, "unknown"), FALSE),
                                  Then(Running(a), FALSE), Then(Running(a), TRUE)}) :
               watch' = [watch EXCEPT ![w] = next]
  BY DEF WatchPoll
<1>7. next \in WatchType /\ (next.step # "idle" => next.key \in Keys)
  <2> HIDE DEF Then
  <2> QED BY <1>2, <1>3, <1>4, <1>5, <1>6
<1> QED BY <1>6, <1>7

(* The steps of a watcher, which may write the attempt it has read.         *)
LEMMA WatchTypeStep ==
  ASSUME TypeInv, NEW w \in Watchers, Watch(w)
  PROVE  TypeInv'
<1>0. /\ att \in [Keys -> Attempt] /\ watch[w] \in WatchType
      /\ Idle \in WatchType /\ Idle.step = "idle"
      /\ watch[w].step # "idle" => watch[w].key \in Keys
  BY AttemptTypes DEF TypeInv, Placed, TypeOK, WatchType, Idle
<1>1. ASSUME NEW e \in WatchType, e.step # "idle" => e.key \in Keys,
             watch' = [watch EXCEPT ![w] = e], att' \in [Keys -> Attempt],
             UNCHANGED <<example, lock, sub, outside, upsets>>
      PROVE  TypeInv'
  <2>1. /\ watch' \in [Watchers -> WatchType]
        /\ \A v \in Watchers : watch'[v].step # "idle" => watch'[v].key \in Keys
    BY <1>1, WatcherType
  <2> QED BY <1>1, <2>1 DEF TypeInv, TypeOK, Placed, WatchType
<1>2. ASSUME NEW k \in Keys, WatchStart(w, k) PROVE TypeInv'
  <2>1. LET e == [watch[w] EXCEPT !.step = "read", !.key = k]
        IN  e \in WatchType /\ e.key \in Keys /\ watch' = [watch EXCEPT ![w] = e]
    BY <1>0, <1>2 DEF WatchStart, WatchType, TypeInv, TypeOK
  <2> QED BY <1>0, <1>1, <1>2, <2>1 DEF WatchStart
<1>3. ASSUME WatchRead(w) PROVE TypeInv'
  <2>1. LET a == att[watch[w].key]
            e == [watch[w] EXCEPT !.step = "poll", !.copy = a]
        IN  e \in WatchType /\ e.key \in Keys
    BY <1>0, <1>3 DEF WatchRead, WatchType
  <2> QED BY <1>0, <1>1, <1>3, <2>1 DEF WatchRead
<1>4. ASSUME WatchPoll(w) PROVE TypeInv'
  <2>1. PICK e \in WatchType : /\ e.step # "idle" => e.key \in Keys
                               /\ watch' = [watch EXCEPT ![w] = e]
    BY <1>4, PollTypes DEF WatchPoll
  <2> QED BY <1>0, <1>1, <1>4, <2>1 DEF WatchPoll
<1>5. ASSUME WatchSave(w) PROVE TypeInv'
  <2>1. LET e == [watch[w] EXCEPT !.step = "read", !.copy = NoAttempt, !.again = FALSE]
        IN  e \in WatchType /\ e.key \in Keys
    BY <1>0, <1>5, AttemptTypes DEF WatchSave, WatchType
  <2>2. watch[w].copy \in Attempt /\ watch[w].key \in Keys
    BY <1>0, <1>5 DEF WatchSave, WatchType
  <2>3. att' \in [Keys -> Attempt]
    BY <1>0, <1>5, <2>2, SaveType DEF WatchSave, TypeInv
  <2> QED BY <1>0, <1>1, <1>5, <2>1, <2>3 DEF WatchSave
<1> QED BY <1>2, <1>3, <1>4, <1>5 DEF Watch

(* The steps of submit.                                                     *)
LEMMA SubmitTypeStep ==
  ASSUME TypeInv, Submit
  PROVE  TypeInv'
<1> USE DEF TypeInv, Placed, WatchType
<1>0. att \in [Keys -> Attempt]
  BY DEF TypeOK
<1>1. ASSUME NEW k \in Keys, SubmitBegin(k) PROVE TypeInv'
  <2>1. att' \in [Keys -> Attempt]
    BY <1>0, <1>1, AttemptTypes, SaveType DEF SubmitBegin, States
  <2> QED BY <1>1, <2>1 DEF SubmitBegin, TypeOK
<1>2. ASSUME SubmitCreate PROVE TypeInv'
  <2>1. sub.key \in Keys /\ att[sub.key].plan \in PlanDigest \cup {None}
    BY <1>0, <1>2 DEF SubmitCreate, Attempt
  <2> QED BY <1>2, <2>1 DEF SubmitCreate, TypeOK
<1>3. ASSUME NEW a \in Attempt, sub.key \in Keys, SubmitEnd(a) PROVE TypeInv'
  <2>1. att' \in [Keys -> Attempt]
    BY <1>3, SaveType DEF SubmitEnd
  <2> QED BY <1>3, <2>1 DEF SubmitEnd, TypeOK
<1>4. ASSUME sub.key \in Keys
      PROVE  /\ Submitted(sub.key) \in Attempt
             /\ [att[sub.key] EXCEPT !.state = "NEEDS_HUMAN", !.watchdog = FALSE]
                  \in Attempt
  BY <1>0, <1>4, AttemptTypes DEF Submitted
<1>5. ASSUME SubmitRecord \/ SubmitAdopt PROVE TypeInv'
  <2>1. sub.key \in Keys
    BY <1>5 DEF SubmitRecord, SubmitAdopt
  <2> QED BY <1>3, <1>4, <1>5, <2>1 DEF SubmitRecord, SubmitAdopt
<1> QED BY <1>1, <1>2, <1>5 DEF Submit

(* The steps of the commands that run under the lock from read to write.    *)
LEMMA CommandTypeStep ==
  ASSUME TypeInv,
         \/ \E k \in Keys : Plan(k) \/ Verify(k)
         \/ Select \/ Extend \/ Accept \/ Cleanup
  PROVE  TypeInv'
<1> USE DEF TypeInv, Placed, WatchType
<1>0. att \in [Keys -> Attempt]
  BY DEF TypeOK
<1>1. ASSUME NEW k \in Keys, Plan(k) PROVE TypeInv'
  <2>1. att' \in [Keys -> Attempt]
    BY <1>1, PlanType, SaveType DEF Plan
  <2> QED BY <1>1, <2>1 DEF Plan, TypeOK
<1>2. ASSUME NEW k \in Keys, Verify(k) PROVE TypeInv'
  <2> DEFINE a == [att[k] EXCEPT !.terminal = TerminalState(k)]
  <2>1. a \in Attempt
    BY <1>0, <1>2, AttemptTypes DEF Verify
  <2>2. [a EXCEPT !.state = "VERIFIED"] \in Attempt /\ Stopped(a, "evidence") \in Attempt
    BY <2>1, AttemptTypes DEF States
  <2>3. \/ Save(k, [a EXCEPT !.state = "VERIFIED"])
        \/ Save(k, Stopped(a, "evidence"))
    BY <1>2 DEF Verify
  <2>4. att' \in [Keys -> Attempt]
    <3> HIDE DEF a
    <3> QED BY <2>2, <2>3, SaveType
  <2> QED BY <1>2, <2>4 DEF Verify, TypeOK
<1>3. ASSUME Select PROVE TypeInv'
  BY <1>3 DEF Select, Candidates, TypeOK
<1>4. ASSUME Extend \/ Accept PROVE TypeInv'
  BY <1>4 DEF Extend, Accept, TypeOK
<1>5. ASSUME Cleanup PROVE TypeInv'
  <2>1. att' \in [Keys -> Attempt]
    BY <1>0, <1>5, AttemptTypes DEF Cleanup
  <2> QED BY <1>5, <2>1 DEF Cleanup, TypeOK
<1> QED BY <1>1, <1>2, <1>3, <1>4, <1>5

(* Every variable is well-typed after any step of any actor.                *)
LEMMA TypeStep == TypeInv /\ [Next]_vars => TypeInv'
<1> SUFFICES ASSUME TypeInv, [Next]_vars PROVE TypeInv'
  OBVIOUS
<1>1. ASSUME NEW k \in Keys, RemoteStep(k) PROVE TypeInv'
  BY <1>1 DEF RemoteStep, TypeInv, TypeOK, Placed
<1>2. ASSUME DieHoldingLock \/ RecoverLock \/ NewImage PROVE TypeInv'
  BY <1>2, BoundAssumption
  DEF DieHoldingLock, RecoverLock, NewImage, TypeInv, TypeOK, Placed
<1>3. CASE UNCHANGED vars
  BY <1>3 DEF vars, TypeInv, TypeOK, Placed
<1> QED
  BY <1>1, <1>2, <1>3, CommandTypeStep, SubmitTypeStep, WatchTypeStep DEF Next

(* The initial state is well-typed.                                         *)
LEMMA TypeInit == Init => TypeInv
<1> SUFFICES ASSUME Init PROVE TypeInv
  OBVIOUS
<1>0. NoAttempt \in Attempt
  BY AttemptTypes
<1>1. att \in [Keys -> Attempt] /\ upsets \in 0..MaxUpsets
  BY <1>0, BoundAssumption DEF Init
<1>2. watch \in [Watchers -> WatchType]
  BY AttemptTypes DEF Init, Idle, WatchType
<1>3. sub \in SubType /\ remote \in [Keys -> {"absent", "active"} \cup Ended]
      /\ runs \in [Keys -> PlanDigest \cup {None}]
  BY DEF Init, SubType
<1> QED BY <1>1, <1>2, <1>3 DEF Init, Idle, TypeInv, TypeOK, Placed, WatchType, SubType

(* Every reachable state of the campaign is well-typed.                     *)
THEOREM Typing == Spec => []TypeOK
<1>1. TypeInv => TypeOK
  BY DEF TypeInv
<1> QED BY <1>1, TypeInit, TypeStep, PTL DEF Spec
-----------------------------------------------------------------------------
(***************************************************************************)
(* The inductive invariant.  AttemptInv: what an attempt's state says of its*)
(* job and its evidence.  SubmitInv: while a submission holds the lock its  *)
(* attempt is PREFLIGHTED, none is active, and the plan of an extension     *)
(* names a proven parent.  WatchInv: the copy a watcher polls for and saves *)
(* is of an attempt with a job and claims nothing that is not so.           *)
(* SelectionInv: what is selected is proven.                                *)
(***************************************************************************)
Unsubmitted == {"none", "PLANNED", "PREFLIGHTED"}

Ran(k) == remote[k] \in Ended /\ k \in evidence

AttemptInv(k) ==
  /\ att[k].state \notin {"ACCEPTED", "REJECTED"}
  /\ att[k].state \in Unsubmitted => ~att[k].remote
  /\ att[k].terminal # "none" => att[k].remote /\ remote[k] \in Ended
  /\ att[k].state \in {"VERIFIED", "CLEANED"} => att[k].remote /\ Ran(k)

ProvenParent(k, plan) ==
  k[2] = "extension" => plan.parent \in Keys \ {k} /\ Ran(plan.parent)

SubmitInv ==
  sub.step # "idle" =>
    /\ lock = "submit" /\ att[sub.key].state = "PREFLIGHTED"
    /\ \A k \in Keys : att[k].state \notin ACTIVE_STATES
    /\ ProvenParent(sub.key, att[sub.key].plan)

WatchInv(w) ==
  /\ watch[w].step \in {"poll", "save"} =>
       LET k == watch[w].key
           a == watch[w].copy
       IN  /\ att[k].remote /\ a.remote
           /\ a.state \notin Unsubmitted \cup {"ACCEPTED", "REJECTED"}
           /\ a.terminal # "none" => remote[k] \in Ended
           /\ a.state \in {"VERIFIED", "CLEANED"} => Ran(k)
           /\ a.state = "CLEANED" => att[k] = a
  /\ watch[w].step = "save" => watch[w].copy.state # "SUBMITTED"

SelectionInv == selection # None => att[selection].remote /\ Ran(selection)

OneSlot == \A k, l \in Keys :
  att[k].state \in ACTIVE_STATES /\ att[l].state \in ACTIVE_STATES => k = l

IInv == /\ TypeInv /\ SubmitInv /\ SelectionInv /\ OneSlot
        /\ \A k \in Keys : AttemptInv(k)
        /\ \A w \in Watchers : WatchInv(w)
        /\ \A k \in Keys : runs[k] # None => ProvenParent(k, runs[k])

(* The transitions the proofs need: how an attempt gets a job, that none    *)
(* becomes active again, and that a cleaned one stays so.                   *)
LEMMA Transitions ==
  ASSUME NEW s \in {"none"} \cup States, NEW t \in States, ValidTransition(s, t)
  PROVE  /\ t = "PREFLIGHTED" => s \in Unsubmitted
         /\ t \in {"RUNNING", "FINALIZING"} => s \in ACTIVE_STATES \cup {"none"}
         /\ s = "CLEANED" => t = "CLEANED"
  BY DEF ValidTransition, TRANSITIONS, States, ACTIVE_STATES, Unsubmitted

(* A job that has ended, and complete evidence, stay so.                    *)
LEMMA RanStays ==
  ASSUME TypeInv, [Next]_vars
  PROVE  /\ \A k \in Keys : /\ remote[k] \in Ended => remote'[k] \in Ended
                            /\ Ran(k) => Ran(k)'
<1> SUFFICES ASSUME NEW k \in Keys
             PROVE  /\ remote[k] \in Ended => remote'[k] \in Ended
                    /\ k \in evidence => k \in evidence'
  BY DEF Ran
<1> USE DEF TypeInv, TypeOK
<1>1. ASSUME NEW l \in Keys, RemoteStep(l)
      PROVE  /\ remote[k] \in Ended => remote'[k] \in Ended
             /\ k \in evidence => k \in evidence'
  BY <1>1 DEF RemoteStep, Ended
<1>2. ASSUME SubmitCreate
      PROVE  /\ remote[k] \in Ended => remote'[k] \in Ended
             /\ k \in evidence => k \in evidence'
  BY <1>2 DEF SubmitCreate, Ended
<1>3. UNCHANGED <<remote, evidence>> \/ SubmitCreate \/ \E l \in Keys : RemoteStep(l)
  <2>1. CASE \E l \in Keys : Plan(l) \/ Verify(l)
    BY <2>1 DEF Plan, Verify
  <2>2. CASE Select \/ Extend \/ Accept \/ Cleanup
    BY <2>2 DEF Select, Extend, Accept, Cleanup
  <2>3. CASE Submit
    BY <2>3 DEF Submit, SubmitBegin, SubmitRecord, SubmitAdopt, SubmitEnd
  <2>4. CASE \E w \in Watchers : Watch(w)
    BY <2>4 DEF Watch, WatchStart, WatchRead, WatchPoll, WatchSave
  <2>5. CASE DieHoldingLock \/ RecoverLock \/ NewImage \/ UNCHANGED vars
    BY <2>5 DEF DieHoldingLock, RecoverLock, NewImage, vars
  <2> QED BY <2>1, <2>2, <2>3, <2>4, <2>5 DEF Next
<1> QED BY <1>1, <1>2, <1>3

(* What a step does to one attempt: its record stays true, its job is kept, *)
(* and it enters the slot only by the submission in progress.               *)
MovesWell(k) ==
  /\ AttemptInv(k)'
  /\ att[k].remote => att'[k].remote /\ att'[k].state # "PLANNED"
  /\ att[k].state = "CLEANED" => att'[k] = att[k]
  /\ att'[k].state \in ACTIVE_STATES =>
       att[k].state \in ACTIVE_STATES \/ (sub.step # "idle" /\ k = sub.key)

(* An attempt that is not written stays as it should be.                    *)
LEMMA UnwrittenMovesWell ==
  ASSUME IInv, [Next]_vars, NEW k \in Keys, att'[k] = att[k]
  PROVE  MovesWell(k)
<1>1. /\ remote[k] \in Ended => remote'[k] \in Ended
      /\ Ran(k) => Ran(k)'
  BY RanStays DEF IInv
<1>2. AttemptInv(k) /\ att[k] \in Attempt
  BY DEF IInv, TypeInv, TypeOK
<1>3. AttemptInv(k)'
  BY <1>1, <1>2 DEF AttemptInv
<1>4. att[k].remote => att[k].state # "PLANNED"
  BY <1>2 DEF AttemptInv, Unsubmitted
<1> QED BY <1>3, <1>4 DEF MovesWell

(* The commands write what is true.                                         *)
LEMMA CommandMovesWell ==
  ASSUME IInv, [Next]_vars, NEW k \in Keys,
         \/ \E l \in Keys : Plan(l) \/ Verify(l)
         \/ Cleanup
  PROVE  MovesWell(k)
<1>0. att \in [Keys -> Attempt] /\ AttemptInv(k)
  BY DEF IInv, TypeInv, TypeOK
<1>1. ASSUME NEW l \in Keys, Plan(l) PROVE MovesWell(k)
  <2>1. CASE k # l
    BY <1>0, <1>1, <2>1, UnwrittenMovesWell DEF Plan, Save
  <2>2. CASE k = l
    <3>1. ~att[k].remote
      BY <1>0, <1>1, <2>2 DEF Plan, Replannable, AttemptInv, Unsubmitted
    <3>2. /\ att'[k].state = "PLANNED" /\ att'[k].remote = att[k].remote
          /\ att'[k].terminal = "none" /\ att[k].state # "CLEANED"
      BY <1>0, <1>1, <2>2 DEF Plan, Save, Planned, Attempt, Replannable
    <3> QED BY <3>1, <3>2 DEF MovesWell, AttemptInv, ACTIVE_STATES, Unsubmitted
  <2> QED BY <2>1, <2>2
<1>2. ASSUME NEW l \in Keys, Verify(l) PROVE MovesWell(k)
  <2>1. CASE k # l
    BY <1>0, <1>2, <2>1, UnwrittenMovesWell DEF Verify, Save
  <2>2. CASE k = l
    <3>1. att[k].remote /\ remote[k] \in Ended /\ TerminalState(k) \in Ended
      BY <1>0, <1>2, <2>2 DEF Verify, TerminalState, AttemptInv, Ended
    <3>2. UNCHANGED <<remote, evidence>> /\ att[k].state \notin {"none"} \cup Settled
      BY <1>2, <2>2 DEF Verify
    <3>3. /\ att'[k].remote = att[k].remote /\ att'[k].terminal = TerminalState(k)
          /\ \/ att'[k].state = "VERIFIED" /\ k \in evidence
             \/ att'[k].state = "NEEDS_HUMAN"
      <4> DEFINE a == [att[k] EXCEPT !.terminal = TerminalState(k)]
      <4>1. /\ a.remote = att[k].remote /\ a.terminal = TerminalState(k)
            /\ a \in Attempt
        BY <1>0, <3>1 DEF Attempt, Ended
      <4>2. \/ att'[k] = [a EXCEPT !.state = "VERIFIED"] /\ k \in evidence
            \/ att'[k] = Stopped(a, "evidence")
        BY <1>0, <1>2, <2>2 DEF Verify, Save
      <4> HIDE DEF a
      <4> QED BY <4>1, <4>2 DEF Stopped, Attempt
    <3> QED BY <3>1, <3>2, <3>3
        DEF MovesWell, AttemptInv, ACTIVE_STATES, Unsubmitted, Settled, Ran
  <2> QED BY <2>1, <2>2
<1>3. ASSUME Cleanup PROVE MovesWell(k)
  <2>1. UNCHANGED <<remote, evidence>>
    BY <1>3 DEF Cleanup
  <2>2. CASE att[k].state \notin {"VERIFIED", "ACCEPTED", "REJECTED", "NEEDS_HUMAN"}
    <3>1. att'[k] = att[k]
      BY <1>0, <1>3, <2>2 DEF Cleanup
    <3> QED BY <3>1, UnwrittenMovesWell
  <2>3. CASE att[k].state \in {"VERIFIED", "ACCEPTED", "REJECTED", "NEEDS_HUMAN"}
    <3>1. /\ att'[k].remote = att[k].remote /\ att'[k].terminal = att[k].terminal
          /\ \/ att'[k].state = att[k].state
             \/ att[k].state = "VERIFIED" /\ att'[k].state = "CLEANED"
      BY <1>0, <1>3, <2>3 DEF Cleanup, CleanedUp, Attempt
    <3> QED BY <1>0, <2>1, <2>3, <3>1
        DEF MovesWell, AttemptInv, ACTIVE_STATES, Unsubmitted, Ran
  <2> QED BY <2>2, <2>3
<1> QED BY <1>1, <1>2, <1>3

(* So does a submission.                                                    *)
LEMMA SubmitMovesWell ==
  ASSUME IInv, [Next]_vars, NEW k \in Keys, Submit
  PROVE  MovesWell(k)
<1>0. att \in [Keys -> Attempt] /\ AttemptInv(k) /\ att[k].state \in {"none"} \cup States
  BY DEF IInv, TypeInv, TypeOK, Attempt
<1>1. ASSUME NEW l \in Keys, SubmitBegin(l) PROVE MovesWell(k)
  <2>1. CASE k # l
    BY <1>0, <1>1, <2>1, UnwrittenMovesWell DEF SubmitBegin, Save
  <2>2. CASE k = l
    <3>1. att'[k] = [att[k] EXCEPT !.state = "PREFLIGHTED"]
      BY <1>0, <1>1, <2>2 DEF SubmitBegin, Save
    <3>2. /\ att'[k].state = "PREFLIGHTED" /\ att'[k].remote = att[k].remote
          /\ att'[k].terminal = att[k].terminal
      BY <1>0, <3>1 DEF Attempt
    <3>3. att[k].state \in Unsubmitted
      BY <1>0, <1>1, <2>2, Transitions DEF SubmitBegin, Save, States
    <3> QED BY <1>0, <1>1, <3>2, <3>3
        DEF SubmitBegin, MovesWell, AttemptInv, ACTIVE_STATES, Unsubmitted
  <2> QED BY <2>1, <2>2
<1>2. ASSUME SubmitCreate PROVE MovesWell(k)
  BY <1>2, UnwrittenMovesWell DEF SubmitCreate
<1>3. ASSUME SubmitRecord \/ SubmitAdopt PROVE MovesWell(k)
  <2>1. CASE k # sub.key
    BY <1>0, <1>3, <2>1, UnwrittenMovesWell
    DEF SubmitRecord, SubmitAdopt, SubmitEnd, Save
  <2>2. CASE k = sub.key
    <3>1. /\ sub.step # "idle" /\ att[k].state = "PREFLIGHTED" /\ ~att[k].remote
          /\ UNCHANGED <<remote, evidence>>
      BY <1>0, <1>3, <2>2
      DEF SubmitRecord, SubmitAdopt, SubmitEnd, IInv, SubmitInv, AttemptInv, Unsubmitted
    <3>2. \/ att'[k] = Submitted(k)
          \/ att'[k] = [att[k] EXCEPT !.state = "NEEDS_HUMAN", !.watchdog = FALSE]
      BY <1>0, <1>3, <2>2 DEF SubmitRecord, SubmitAdopt, SubmitEnd, Save
    <3>3. /\ att'[k].state \in {"SUBMITTED", "NEEDS_HUMAN"}
          /\ att'[k].terminal = att[k].terminal
      BY <1>0, <3>2 DEF Submitted, Attempt
    <3> QED BY <1>0, <2>2, <3>1, <3>3
        DEF MovesWell, AttemptInv, ACTIVE_STATES, Unsubmitted
  <2> QED BY <2>1, <2>2
<1> QED BY <1>1, <1>2, <1>3 DEF Submit

(* And a watcher, whatever happened since it read its copy.                 *)
LEMMA WatchMovesWell ==
  ASSUME IInv, [Next]_vars, NEW k \in Keys, NEW w \in Watchers, Watch(w)
  PROVE  MovesWell(k)
<1>0. att \in [Keys -> Attempt] /\ AttemptInv(k) /\ att[k].state \in {"none"} \cup States
  BY DEF IInv, TypeInv, TypeOK, Attempt
<1>1. CASE UNCHANGED att
  BY <1>1, UnwrittenMovesWell
<1>2. CASE WatchSave(w) /\ Save(watch[w].key, watch[w].copy)
  <2>1. CASE k # watch[w].key
    BY <1>0, <1>2, <2>1, UnwrittenMovesWell DEF Save
  <2>2. CASE k = watch[w].key
    <3> DEFINE a == watch[w].copy
    <3>1. /\ att'[k] = a /\ ValidTransition(att[k].state, a.state)
          /\ UNCHANGED <<remote, evidence>>
      BY <1>0, <1>2, <2>2 DEF Save, WatchSave
    <3>2. /\ WatchInv(w) /\ watch[w].step = "save" /\ a \in Attempt
      BY <1>2 DEF IInv, WatchSave, TypeInv, TypeOK
    <3>3. /\ att[k].remote /\ a.remote
          /\ a.state \notin Unsubmitted \cup {"ACCEPTED", "REJECTED", "SUBMITTED"}
          /\ a.terminal # "none" => remote[k] \in Ended
          /\ a.state \in {"VERIFIED", "CLEANED"} => Ran(k)
          /\ a.state = "CLEANED" => att[k] = a
      BY <2>2, <3>2 DEF WatchInv
    <3>4. a.state \in States /\ att[k].state # "none"
      BY <1>0, <3>2, <3>3 DEF Attempt, AttemptInv, Unsubmitted
    <3>5. /\ a.state \in {"RUNNING", "FINALIZING"} => att[k].state \in ACTIVE_STATES
          /\ att[k].state = "CLEANED" => a.state = "CLEANED"
      BY <1>0, <3>1, <3>4, Transitions
    <3> HIDE DEF a
    <3> QED BY <3>1, <3>3, <3>5
        DEF MovesWell, AttemptInv, ACTIVE_STATES, Unsubmitted, Ran
  <2> QED BY <2>1, <2>2
<1> QED BY <1>1, <1>2 DEF Watch, WatchStart, WatchRead, WatchPoll, WatchSave

(* Every step moves every attempt well.                                     *)
LEMMA AttemptStep ==
  ASSUME IInv, [Next]_vars
  PROVE  \A k \in Keys : MovesWell(k)
<1> SUFFICES ASSUME NEW k \in Keys PROVE MovesWell(k)
  OBVIOUS
<1>1. CASE Select \/ Extend \/ Accept
  BY <1>1, UnwrittenMovesWell DEF Select, Extend, Accept
<1>2. CASE DieHoldingLock \/ RecoverLock \/ NewImage \/ UNCHANGED vars
  BY <1>2, UnwrittenMovesWell DEF DieHoldingLock, RecoverLock, NewImage, vars
<1>3. CASE \E l \in Keys : RemoteStep(l)
  BY <1>3, UnwrittenMovesWell DEF RemoteStep
<1> QED
  BY <1>1, <1>2, <1>3, CommandMovesWell, SubmitMovesWell, WatchMovesWell DEF Next

(* The slot stays single: an attempt enters it only while it is empty.      *)
LEMMA SlotStep ==
  ASSUME IInv, \A k \in Keys : MovesWell(k)
  PROVE  OneSlot'
<1> SUFFICES ASSUME NEW k \in Keys, NEW l \in Keys,
                    att'[k].state \in ACTIVE_STATES, att'[l].state \in ACTIVE_STATES
             PROVE  k = l
  BY DEF OneSlot
<1>1. CASE sub.step = "idle"
  BY <1>1 DEF IInv, OneSlot, MovesWell
<1>2. CASE sub.step # "idle"
  BY <1>2 DEF IInv, SubmitInv, MovesWell
<1> QED BY <1>1, <1>2

(* What is selected has run, and no step takes that back.                   *)
LEMMA SelectionStep ==
  ASSUME IInv, [Next]_vars, \A k \in Keys : MovesWell(k)
  PROVE  SelectionInv'
<1>1. CASE UNCHANGED selection
  <2>1. selection # None => selection \in Keys
    BY DEF IInv, TypeInv, TypeOK
  <2> QED BY <1>1, <2>1, RanStays DEF IInv, SelectionInv, MovesWell
<1>2. CASE Select
  <2>1. selection' \in Keys /\ att[selection'].state \in {"VERIFIED", "CLEANED"}
    BY <1>2 DEF Select, Candidates, IInv, AttemptInv
  <2>2. att[selection'].remote /\ Ran(selection')
    BY <2>1 DEF IInv, AttemptInv
  <2>3. UNCHANGED <<att, remote, evidence>>
    BY <1>2 DEF Select
  <2> QED BY <2>2, <2>3 DEF SelectionInv, Ran
<1>3. UNCHANGED selection \/ Select
  <2>1. CASE \E k \in Keys : Plan(k) \/ Verify(k) \/ RemoteStep(k)
    BY <2>1 DEF Plan, Verify, RemoteStep
  <2>2. CASE Submit
    BY <2>2 DEF Submit, SubmitBegin, SubmitCreate, SubmitRecord, SubmitAdopt, SubmitEnd
  <2>3. CASE \E w \in Watchers : Watch(w)
    BY <2>3 DEF Watch, WatchStart, WatchRead, WatchPoll, WatchSave
  <2>4. CASE \/ Extend \/ Accept \/ Cleanup
             \/ DieHoldingLock \/ RecoverLock \/ NewImage \/ UNCHANGED vars
    BY <2>4 DEF Extend, Accept, Cleanup, DieHoldingLock, RecoverLock, NewImage, vars
  <2> QED BY <2>1, <2>2, <2>3, <2>4 DEF Next
<1> QED BY <1>1, <1>2, <1>3

(* A proven parent stays one.                                               *)
LEMMA ParentStays ==
  ASSUME IInv, [Next]_vars, NEW k, NEW plan, ProvenParent(k, plan)
  PROVE  ProvenParent(k, plan)'
<1>1. \A l \in Keys : Ran(l) => Ran(l)'
  BY RanStays DEF IInv
<1> QED BY <1>1 DEF ProvenParent

(* A submission begins with the slot empty and a proven parent, and nobody  *)
(* else writes the attempts while it holds the lock.                        *)
LEMMA SubmissionStep ==
  ASSUME IInv, [Next]_vars
  PROVE  SubmitInv'
<1>0. att \in [Keys -> Attempt] /\ (sub.step # "idle" => sub.key \in Keys)
  BY DEF IInv, TypeInv, TypeOK, Placed
<1>1. ASSUME NEW k \in Keys, SubmitBegin(k) PROVE SubmitInv'
  <2>1. /\ sub'.step = "create" /\ sub'.key = k /\ lock' = "submit"
        /\ UNCHANGED <<remote, evidence>>
    BY <1>1 DEF SubmitBegin
  <2>2. att' = [att EXCEPT ![k].state = "PREFLIGHTED"]
    BY <1>0, <1>1 DEF SubmitBegin, Save
  <2>3. /\ att'[k].state = "PREFLIGHTED" /\ att'[k].plan = att[k].plan
        /\ \A l \in Keys \ {k} : att'[l] = att[l]
    BY <1>0, <2>2 DEF Attempt
  <2>4. \A l \in Keys : att'[l].state \notin ACTIVE_STATES
    BY <1>1, <2>3 DEF SubmitBegin, SlotFree, ActiveAttempts, ACTIVE_STATES
  <2>5. ASSUME k[2] = "extension"
        PROVE  att[k].plan.parent \in Keys \ {k} /\ Ran(att[k].plan.parent)
    <3>1. att[k].plan.parent = selection /\ selection # None
      BY <1>1, <2>5 DEF SubmitBegin, build_plan, Parent, CanPlan
    <3>2. selection \in Keys /\ att[selection].remote /\ Ran(selection)
      BY <3>1 DEF IInv, TypeInv, TypeOK, SelectionInv
    <3>3. att[k].state \in Unsubmitted
      <4>1. ValidTransition(att[k].state, "PREFLIGHTED")
        BY <1>0, <1>1 DEF SubmitBegin, Save, Attempt
      <4>2. att[k].state \in {"none"} \cup States
        BY <1>0 DEF Attempt
      <4> QED BY <4>1, <4>2, Transitions DEF States
    <3>4. ~att[k].remote
      BY <3>3 DEF IInv, AttemptInv
    <3> QED BY <3>1, <3>2, <3>4
  <2>6. ProvenParent(k, att[k].plan)'
    BY <2>1, <2>3, <2>5 DEF ProvenParent, Ran
  <2> QED BY <2>1, <2>3, <2>4, <2>6 DEF SubmitInv
<1>2. ASSUME sub.step # "idle", UNCHANGED <<att, lock>>, sub'.key = sub.key
      PROVE  SubmitInv'
  <2>1. ProvenParent(sub.key, att[sub.key].plan)'
    BY <1>2, ParentStays DEF IInv, SubmitInv
  <2> QED BY <1>2, <2>1 DEF IInv, SubmitInv
<1>3. CASE sub'.step = "idle"
  BY <1>3 DEF SubmitInv
<1>4. CASE SubmitCreate
  BY <1>2, <1>4 DEF SubmitCreate, IInv, TypeInv, TypeOK
<1>5. CASE sub.step # "idle" /\ UNCHANGED <<att, lock, sub>>
  BY <1>2, <1>5
<1>6. \/ sub'.step = "idle" \/ SubmitCreate \/ \E k \in Keys : SubmitBegin(k)
      \/ sub.step # "idle" /\ UNCHANGED <<att, lock, sub>>
  <2>1. sub.step = "idle" \/ lock = "submit"
    BY DEF IInv, SubmitInv
  <2>2. CASE \/ \E k \in Keys : Plan(k) \/ Verify(k)
             \/ Select \/ Extend \/ Accept \/ Cleanup
    BY <2>1, <2>2 DEF Plan, Verify, Select, Extend, Accept, Cleanup
  <2>3. CASE Submit
    BY <2>3 DEF Submit, SubmitRecord, SubmitAdopt, SubmitEnd
  <2>4. CASE \E w \in Watchers : Watch(w)
    BY <2>1, <2>4 DEF Watch, WatchStart, WatchRead, WatchPoll, WatchSave
  <2>5. CASE \/ \E k \in Keys : RemoteStep(k)
             \/ DieHoldingLock \/ RecoverLock \/ NewImage \/ UNCHANGED vars
    BY <2>1, <2>5 DEF RemoteStep, DieHoldingLock, RecoverLock, NewImage, vars
  <2> QED BY <2>2, <2>3, <2>4, <2>5 DEF Next
<1> QED BY <1>1, <1>3, <1>4, <1>5, <1>6

(* A job is only ever created from the plan of the submission in progress.  *)
LEMMA RunsStep ==
  ASSUME IInv, [Next]_vars
  PROVE  (\A k \in Keys : runs[k] # None => ProvenParent(k, runs[k]))'
<1>1. CASE UNCHANGED runs
  BY <1>1, ParentStays DEF IInv
<1>2. CASE SubmitCreate
  <2> SUFFICES ASSUME NEW k \in Keys, runs'[k] # None
               PROVE  ProvenParent(k, runs[k])'
    OBVIOUS
  <2>1. CASE runs'[k] = runs[k]
    <3>1. ProvenParent(k, runs[k])'
      BY <2>1, ParentStays DEF IInv
    <3> QED BY <2>1, <3>1 DEF ProvenParent
  <2>2. CASE k = sub.key /\ runs'[k] = att[k].plan
    <3>1. ProvenParent(k, att[k].plan)
      BY <1>2, <2>2 DEF SubmitCreate, IInv, SubmitInv
    <3>2. ProvenParent(k, att[k].plan)' /\ UNCHANGED att
      BY <1>2, <3>1, ParentStays DEF SubmitCreate
    <3> QED BY <2>2, <3>2 DEF ProvenParent
  <2> QED BY <1>2, <2>1, <2>2 DEF SubmitCreate, IInv, TypeInv, TypeOK
<1>3. UNCHANGED runs \/ SubmitCreate
  <2>1. CASE \E k \in Keys : Plan(k) \/ Verify(k) \/ RemoteStep(k)
    BY <2>1 DEF Plan, Verify, RemoteStep
  <2>2. CASE Submit
    BY <2>2 DEF Submit, SubmitBegin, SubmitRecord, SubmitAdopt, SubmitEnd
  <2>3. CASE \E w \in Watchers : Watch(w)
    BY <2>3 DEF Watch, WatchStart, WatchRead, WatchPoll, WatchSave
  <2>4. CASE \/ Select \/ Extend \/ Accept \/ Cleanup
             \/ DieHoldingLock \/ RecoverLock \/ NewImage \/ UNCHANGED vars
    BY <2>4 DEF Select, Extend, Accept, Cleanup, DieHoldingLock, RecoverLock,
                NewImage, vars
  <2> QED BY <2>1, <2>2, <2>3, <2>4 DEF Next
<1> QED BY <1>1, <1>2, <1>3

(* A watcher that does nothing now still holds what is true: jobs are kept  *)
(* and stay ended, evidence stays complete, cleaned attempts stay as read.  *)
LEMMA WatchWaits ==
  ASSUME IInv, [Next]_vars, \A k \in Keys : MovesWell(k), NEW w \in Watchers,
         watch'[w] = watch[w]
  PROVE  WatchInv(w)'
<1>1. WatchInv(w) /\ (watch[w].step # "idle" => watch[w].key \in Keys)
  BY DEF IInv, TypeInv, Placed
<1>2. CASE watch[w].step \in {"poll", "save"}
  <2> DEFINE k == watch[w].key
             a == watch[w].copy
  <2>1. k \in Keys
    BY <1>1, <1>2
  <2>2. /\ att[k].remote => att'[k].remote
        /\ att[k].state = "CLEANED" => att'[k] = att[k]
        /\ remote[k] \in Ended => remote'[k] \in Ended
        /\ Ran(k) => Ran(k)'
    BY <2>1, RanStays DEF IInv, MovesWell
  <2> QED BY <1>1, <1>2, <2>1, <2>2 DEF WatchInv, Ran
<1>3. CASE watch[w].step \notin {"poll", "save"}
  BY <1>3 DEF WatchInv
<1> QED BY <1>2, <1>3

(* A watcher reads an attempt with a job, and its poll makes of it nothing  *)
(* that is not so.                                                          *)
LEMMA WatcherStep ==
  ASSUME IInv, [Next]_vars, \A k \in Keys : MovesWell(k), NEW w \in Watchers,
         Watch(w)
  PROVE  WatchInv(w)'
<1> DEFINE k == watch[w].key
           a == watch[w].copy
<1>0. /\ watch \in [Watchers -> WatchType] /\ watch[w] \in WatchType
      /\ att \in [Keys -> Attempt]
      /\ WatchInv(w) /\ (watch[w].step # "idle" => k \in Keys)
  BY DEF IInv, TypeInv, TypeOK, Placed, WatchType
<1>1. CASE watch'[w].step \notin {"poll", "save"}
  BY <1>1 DEF WatchInv
<1>2. ASSUME NEW l \in Keys, WatchStart(w, l) PROVE WatchInv(w)'
  <2>1. watch'[w].step = "read"
    BY <1>0, <1>2 DEF WatchStart, WatchType
  <2> QED BY <1>1, <2>1
<1>3. ASSUME WatchRead(w), watch'[w].step \in {"poll", "save"} PROVE WatchInv(w)'
  <2>1. /\ watch'[w] = [watch[w] EXCEPT !.step = "poll", !.copy = att[k]]
        /\ att[k].remote /\ UNCHANGED <<att, remote, evidence>>
    BY <1>0, <1>3 DEF WatchRead, Idle
  <2>2. watch'[w].step = "poll" /\ watch'[w].key = k /\ watch'[w].copy = att[k]
    BY <1>0, <2>1 DEF WatchType
  <2>3. k \in Keys /\ AttemptInv(k)
    BY <1>0, <1>3 DEF WatchRead, IInv
  <2> QED BY <2>1, <2>2, <2>3 DEF WatchInv, AttemptInv, Ran
<1>4. ASSUME WatchPoll(w), watch'[w].step \in {"poll", "save"} PROVE WatchInv(w)'
  <2> DEFINE Then(b, again) == [watch[w] EXCEPT !.step = "save", !.copy = b,
                                                !.again = again]
  <2>1. /\ k \in Keys /\ a \in Attempt /\ watch[w].step = "poll"
        /\ UNCHANGED <<att, remote, evidence>>
    BY <1>0, <1>4 DEF WatchPoll, WatchType
  <2>2. PICK b, again :
          /\ watch'[w] = Then(b, again)
          /\ \/ b = Stopped(a, "heartbeat") \/ b = Stopped(a, "unknown")
             \/ b = Terminal(a, remote[k]) /\ remote[k] \in Ended
             \/ b = Running(a)
    <3>1. PICK next \in {Idle, [watch[w] EXCEPT !.step = "read", !.copy = NoAttempt],
                         Then(Stopped(a, "heartbeat"), FALSE)}
                        \cup (IF remote[k] \in Ended
                                THEN {Then(Terminal(a, remote[k]), FALSE)}
                                ELSE {Then(Stopped(a, "unknown"), FALSE),
                                      Then(Running(a), FALSE), Then(Running(a), TRUE)}) :
                   watch' = [watch EXCEPT ![w] = next]
      BY <1>4 DEF WatchPoll
    <3>2. watch'[w] = next
      BY <1>0, <3>1
    <3>3. /\ next # Idle
          /\ next # [watch[w] EXCEPT !.step = "read", !.copy = NoAttempt]
      <4>1. /\ Idle.step = "idle"
            /\ [watch[w] EXCEPT !.step = "read", !.copy = NoAttempt].step = "read"
        BY <1>0 DEF Idle, WatchType
      <4> QED BY <1>4, <3>2, <4>1
    <3> HIDE DEF Then
    <3> QED BY <3>1, <3>2, <3>3
  <2>3. watch'[w].step = "save" /\ watch'[w].key = k /\ watch'[w].copy = b
    BY <1>0, <2>2 DEF WatchType
  <2>4. /\ att[k].remote /\ a.remote
        /\ a.state \notin Unsubmitted \cup {"ACCEPTED", "REJECTED"}
        /\ a.terminal # "none" => remote[k] \in Ended
        /\ a.state \in {"VERIFIED", "CLEANED"} => Ran(k)
        /\ a.state = "CLEANED" => att[k] = a
    BY <1>0, <2>1 DEF WatchInv
  <2>5. /\ b.remote
        /\ b.state \notin Unsubmitted \cup {"ACCEPTED", "REJECTED", "SUBMITTED"}
        /\ b.terminal # "none" => remote[k] \in Ended
        /\ b.state \in {"VERIFIED", "CLEANED"} => Ran(k)
        /\ b.state = "CLEANED" => att[k] = b
    <3>1. CASE b = Stopped(a, "heartbeat") \/ b = Stopped(a, "unknown")
      <4>1. b.state = "NEEDS_HUMAN" /\ b.remote = a.remote /\ b.terminal = a.terminal
        BY <2>1, <3>1 DEF Stopped, Attempt
      <4> QED BY <2>4, <4>1 DEF Unsubmitted
    <3>2. CASE b = Terminal(a, remote[k]) /\ remote[k] \in Ended
      <4>1. b.state = "FINALIZING" /\ b.remote = a.remote
        BY <2>1, <3>2 DEF Terminal, Attempt
      <4> QED BY <2>4, <3>2, <4>1 DEF Unsubmitted
    <3>3. CASE b = Running(a)
      <4>1. CASE a.state = "SUBMITTED"
        <5>1. b.state = "RUNNING" /\ b.remote = a.remote /\ b.terminal = a.terminal
          BY <2>1, <3>3, <4>1 DEF Running, Attempt
        <5> QED BY <2>4, <5>1 DEF Unsubmitted
      <4>2. CASE a.state # "SUBMITTED"
        BY <2>4, <3>3, <4>2 DEF Running
      <4> QED BY <4>1, <4>2
    <3> QED BY <2>2, <3>1, <3>2, <3>3
  <2> QED BY <2>1, <2>3, <2>4, <2>5 DEF WatchInv, Ran
<1>5. ASSUME WatchSave(w) PROVE WatchInv(w)'
  <2>1. watch'[w].step \in {"idle", "read"}
    <3>1. /\ Idle.step = "idle"
          /\ [watch[w] EXCEPT !.step = "read", !.copy = NoAttempt,
                              !.again = FALSE].step = "read"
      BY <1>0 DEF Idle, WatchType
    <3> QED BY <1>0, <1>5, <3>1 DEF WatchSave
  <2> QED BY <1>1, <2>1
<1> QED BY <1>1, <1>2, <1>3, <1>4, <1>5 DEF Watch

(* So every watcher holds what is true after every step of anybody.        *)
LEMMA WatchStep ==
  ASSUME IInv, [Next]_vars, \A k \in Keys : MovesWell(k)
  PROVE  \A w \in Watchers : WatchInv(w)'
<1> SUFFICES ASSUME NEW w \in Watchers PROVE WatchInv(w)'
  OBVIOUS
<1>1. ASSUME NEW v \in Watchers, Watch(v) PROVE WatchInv(w)'
  <2>1. CASE v = w
    BY <1>1, <2>1, WatcherStep
  <2>2. CASE v # w
    <3>1. watch'[w] = watch[w]
      BY <1>1, <2>2
      DEF Watch, WatchStart, WatchRead, WatchPoll, WatchSave, IInv, TypeInv, TypeOK
    <3> QED BY <3>1, WatchWaits
  <2> QED BY <2>1, <2>2
<1>2. UNCHANGED watch \/ \E v \in Watchers : Watch(v)
  <2>1. CASE \/ \E k \in Keys : Plan(k) \/ Verify(k) \/ RemoteStep(k)
             \/ Select \/ Extend \/ Accept \/ Cleanup
    BY <2>1 DEF Plan, Verify, RemoteStep, Select, Extend, Accept, Cleanup
  <2>2. CASE Submit
    BY <2>2 DEF Submit, SubmitBegin, SubmitCreate, SubmitRecord, SubmitAdopt, SubmitEnd
  <2>3. CASE DieHoldingLock \/ RecoverLock \/ NewImage \/ UNCHANGED vars
    BY <2>3 DEF DieHoldingLock, RecoverLock, NewImage, vars
  <2> QED BY <2>1, <2>2, <2>3 DEF Next
<1> QED BY <1>1, <1>2, WatchWaits

(* The invariant holds of a campaign without attempts.                      *)
LEMMA IndInit == Init => IInv
<1> SUFFICES ASSUME Init PROVE IInv
  OBVIOUS
<1>1. (\A k \in Keys : AttemptInv(k)) /\ OneSlot
  BY DEF Init, NoAttempt, AttemptInv, OneSlot, Unsubmitted, ACTIVE_STATES
<1>2. \A w \in Watchers : WatchInv(w)
  BY DEF Init, Idle, WatchInv
<1>3. /\ SubmitInv /\ SelectionInv
      /\ \A k \in Keys : runs[k] # None => ProvenParent(k, runs[k])
  BY DEF Init, SubmitInv, SelectionInv
<1> QED BY <1>1, <1>2, <1>3, TypeInit DEF IInv

(* And every step keeps it.                                                 *)
LEMMA IndStep == IInv /\ [Next]_vars => IInv'
<1> SUFFICES ASSUME IInv, [Next]_vars PROVE IInv'
  OBVIOUS
<1>1. \A k \in Keys : MovesWell(k)
  BY AttemptStep
<1>2. TypeInv' /\ \A k \in Keys : AttemptInv(k)'
  BY <1>1, TypeStep DEF IInv, MovesWell
<1>3. OneSlot' /\ SelectionInv' /\ SubmitInv'
  BY <1>1, SlotStep, SelectionStep, SubmissionStep
<1>4. /\ \A w \in Watchers : WatchInv(w)'
      /\ (\A k \in Keys : runs[k] # None => ProvenParent(k, runs[k]))'
  BY <1>1, WatchStep, RunsStep
<1> QED BY <1>2, <1>3, <1>4 DEF IInv

(* At every moment records, submissions and the copies of watchers only say *)
(* what is so, and the slot is single.                                      *)
THEOREM Invariance == Spec => []IInv
  BY IndInit, IndStep, PTL DEF Spec

(* At most one attempt is SUBMITTED, RUNNING or FINALIZING, however many    *)
(* watchers save what they read before, and whichever commands die.         *)
THEOREM SingleSlot == Spec => []OneActiveAttempt
<1>1. IInv => OneActiveAttempt
  <2> SUFFICES ASSUME IInv PROVE Cardinality(ActiveAttempts) <= 1
    BY DEF OneActiveAttempt
  <2>1. CASE ActiveAttempts = {}
    BY <2>1, FS_EmptySet
  <2>2. CASE ActiveAttempts # {}
    <3>1. PICK k \in Keys : ActiveAttempts = {k}
      BY <2>2 DEF IInv, OneSlot, ActiveAttempts
    <3>2. Cardinality(ActiveAttempts) = 1
      BY <3>1, FS_Singleton
    <3> QED BY <3>2
  <2> QED BY <2>1, <2>2
<1> QED BY <1>1, Invariance, PTL

(* A verified or cleaned attempt has a job that ended and whose evidence is *)
(* complete.                                                                *)
THEOREM Verified == Spec => []VerifiedIsProven
<1>1. IInv => VerifiedIsProven
  BY DEF IInv, AttemptInv, Ran, VerifiedIsProven
<1> QED BY <1>1, Invariance, PTL

(* A job of an extension was created from a plan whose parent is another    *)
(* run that ended with complete evidence.                                   *)
THEOREM Extensions == Spec => []ExtensionHasProvenParent
<1>1. IInv => ExtensionHasProvenParent
  BY DEF IInv, ProvenParent, Ran, ExtensionHasProvenParent
<1> QED BY <1>1, Invariance, PTL

(* No save of a watcher and no new plan drops a recorded job or rewrites a  *)
(* cleaned attempt.                                                         *)
THEOREM Jobs == Spec => JobsAreKept
<1>1. IInv /\ [Next]_vars => KeepsJobs
  BY AttemptStep DEF MovesWell, KeepsJobs
<1> QED BY <1>1, Invariance, PTL DEF Spec, JobsAreKept
(* The example is only ever recorded as accepted with an attempt that       *)
(* reaches the preferred speed and has run to its end with its evidence.    *)
AcceptanceIsProven ==
  acceptance # None =>
    acceptance \in Preferred /\ att[acceptance].remote /\ Ran(acceptance)

(* Accepting reads what is selected, which has run; and no later step, of a *)
(* watcher, a plan or a cleanup, takes back the job or its evidence.        *)
LEMMA AcceptanceStep ==
  ASSUME IInv, AcceptanceIsProven, [Next]_vars
  PROVE  AcceptanceIsProven'
<1>1. CASE UNCHANGED acceptance
  <2>1. acceptance # None => acceptance \in Keys
    BY DEF IInv, TypeInv, TypeOK
  <2> QED BY <1>1, <2>1, RanStays, AttemptStep
       DEF IInv, AcceptanceIsProven, MovesWell
<1>2. CASE Accept
  <2>1. acceptance' # None => acceptance' = selection /\ selection \in Preferred
    BY <1>2 DEF Accept
  <2>2. selection # None /\ UNCHANGED <<att, remote, evidence>>
    BY <1>2 DEF Accept
  <2> QED BY <2>1, <2>2 DEF IInv, SelectionInv, AcceptanceIsProven, Ran
<1>3. UNCHANGED acceptance \/ Accept
  <2>1. CASE \E k \in Keys : Plan(k) \/ Verify(k) \/ RemoteStep(k)
    BY <2>1 DEF Plan, Verify, RemoteStep
  <2>2. CASE Submit
    BY <2>2 DEF Submit, SubmitBegin, SubmitCreate, SubmitRecord, SubmitAdopt, SubmitEnd
  <2>3. CASE \E w \in Watchers : Watch(w)
    BY <2>3 DEF Watch, WatchStart, WatchRead, WatchPoll, WatchSave
  <2>4. CASE \/ Select \/ Extend \/ Cleanup
             \/ DieHoldingLock \/ RecoverLock \/ NewImage \/ UNCHANGED vars
    BY <2>4 DEF Select, Extend, Cleanup, DieHoldingLock, RecoverLock, NewImage, vars
  <2> QED BY <2>1, <2>2, <2>3, <2>4 DEF Next
<1> QED BY <1>1, <1>2, <1>3

(* An accepted example always stands on a proven attempt.                   *)
THEOREM Acceptance == Spec => []AcceptanceIsProven
<1>1. Init => AcceptanceIsProven
  BY DEF Init, AcceptanceIsProven
<1>2. IInv /\ AcceptanceIsProven /\ [Next]_vars => AcceptanceIsProven'
  BY AcceptanceStep
<1> QED BY <1>1, <1>2, Invariance, PTL DEF Spec
=============================================================================
