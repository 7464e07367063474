------------------------------ MODULE Campaign ------------------------------
(***************************************************************************)
(* The showcase campaign controller (showcase_campaign.py over the state    *)
(* file of campaign_state.py): the training attempts of one example, run by *)
(* CLI commands of operators who may be interrupted at any point.           *)
(*                                                                          *)
(* Every command but `watch` holds the campaign lock from its read of the   *)
(* state to its last write, so it is one step here, except `submit`, which  *)
(* saves the attempt before and after it calls the provider.  `watch` reads *)
(* and polls without the lock and takes it only to save.  A command that    *)
(* dies leaves the lock file behind until recover-lock removes it.          *)
(*                                                                          *)
(* The campaign is initialised and its implementation gate has passed.      *)
(***************************************************************************)
EXTENDS Integers, FiniteSets

CONSTANTS
  Seeds,       \* the seeds the matrix declares for the example
  Keys,        \* attempts that are ever planned, for model checking: the base
               \* attempt of every seed and some extensions
  Score,       \* Score[k]: where the run of k ranks (_rank_key); ties excluded
  Preferred,   \* runs whose metrics pass the hard gate and reach the
               \* preferred target
  Watchers,    \* processes running `watch`
  Images,      \* values of what build_plan reads besides the matrix and the
               \* selection: image evidence, subnet, secret versions
  None,        \* no attempt, no plan
  MaxUpsets    \* bound on commands that die and on changes of `image`

ASSUME KeysAssumption == /\ Seeds \X {"base"} \subseteq Keys
                         /\ Keys \subseteq Seeds \X {"base", "extension"}
                         /\ None \notin Keys \cup Images

ASSUME RankingAssumption == /\ Score \in [Keys -> Nat]
                            /\ \A k, l \in Keys : Score[k] = Score[l] => k = l
                            /\ Preferred \subseteq Keys

ASSUME BoundAssumption == MaxUpsets \in Nat

VARIABLES
  att,         \* state.json: the attempts, by key
  selection,   \* the example's recorded selection: the winning attempt
  consumed,    \* extension_consumed
  acceptance,  \* the attempt the example is recorded as ACCEPTED with; a
               \* REJECTED or NEEDS_HUMAN outcome records none
  lock,        \* "free", "stale" (its process died), or "submit"
  sub,         \* the submission in progress: its attempt and next step
  watch,       \* the local variables of each `watch`
  remote,      \* the provider's job of each run name
  runs,        \* the plan each job was created from
  image,       \* what build_plan would read now
  evidence,    \* runs whose durable evidence is complete
  upsets       \* commands that died and changes of `image` so far

example == <<selection, consumed, acceptance>>
outside == <<remote, runs, image, evidence>>
vars == <<att, example, lock, sub, watch, outside, upsets>>
-----------------------------------------------------------------------------
States == {"PLANNED", "PREFLIGHTED", "SUBMITTED", "RUNNING", "FINALIZING",
           "VERIFIED", "ACCEPTED", "REJECTED", "NEEDS_HUMAN", "CLEANED"}

ACTIVE_STATES == {"SUBMITTED", "RUNNING", "FINALIZING"}

(* TRANSITIONS of campaign_state.py; a new attempt is not validated.        *)
TRANSITIONS ==
  [s \in {"none"} \cup States |->
     CASE s = "none"        -> States
       [] s = "PLANNED"     -> {"PREFLIGHTED", "NEEDS_HUMAN"}
       [] s = "PREFLIGHTED" -> {"SUBMITTED", "PLANNED", "NEEDS_HUMAN"}
       [] s = "SUBMITTED"   -> {"RUNNING", "FINALIZING", "VERIFIED", "NEEDS_HUMAN"}
       [] s = "RUNNING"     -> {"FINALIZING", "VERIFIED", "NEEDS_HUMAN"}
       [] s = "FINALIZING"  -> {"VERIFIED", "NEEDS_HUMAN"}
       [] s = "VERIFIED"    -> {"ACCEPTED", "REJECTED", "NEEDS_HUMAN", "CLEANED"}
       [] s \in {"ACCEPTED", "REJECTED"} -> {"CLEANED", "NEEDS_HUMAN"}
       [] s = "NEEDS_HUMAN" -> {"CLEANED", "PLANNED", "VERIFIED"}
       [] s = "CLEANED"     -> {}]

(* Mutant: only the target state is checked.                                *)
ValidIfKnown(before, after) == after \in States
ValidTransition(before, after) ==
  after \in {before} \cup TRANSITIONS[before]

(* What plan_digest covers, as far as it can change.                        *)
PlanDigest == [parent : Keys \cup {None}, image : Images]

Attempt == [state    : {"none"} \cup States,
            remote   : BOOLEAN,                \* remote_id is recorded
            terminal : {"none", "ended", "cancelled"},
            watchdog : BOOLEAN,                \* reason_code: HEARTBEAT_LOST or
                                               \* UNKNOWN_PROVIDER_STATE
            clean    : BOOLEAN,                \* cleanup_state is PASS
            plan     : PlanDigest \cup {None}]

NoAttempt == [state |-> "none", remote |-> FALSE, terminal |-> "none",
              watchdog |-> FALSE, clean |-> FALSE, plan |-> None]

(* Jobs end by themselves, successfully or not, or are cancelled.           *)
Ended == {"ended", "cancelled"}

(* active_attempt: the attempts that hold the remote-job slot.              *)
ActiveAttempts == {k \in Keys : att[k].state \in ACTIVE_STATES}

Settled == {"VERIFIED", "CLEANED", "ACCEPTED", "REJECTED"}

(* The parent that build_plan derives; a base plan has none.                *)
Parent(k) == IF k[2] = "extension" THEN selection ELSE None

build_plan(k) == [parent |-> Parent(k), image |-> image]

CanPlanUnselected(k) == TRUE                                         \* mutant
CanPlan(k) == k[2] = "extension" => selection # None

(* Mutant: an attempt that stopped is planned anew even if it has a job.    *)
ReplannableStopped(a) == a.state \in {"none", "PLANNED", "PREFLIGHTED", "NEEDS_HUMAN"}
Replannable(a) ==
  \/ a.state \in {"none", "PLANNED", "PREFLIGHTED"}
  \/ a.state = "NEEDS_HUMAN" /\ ~a.remote

Planned(k) == [att[k] EXCEPT !.state = "PLANNED", !.terminal = "none",
                             !.watchdog = FALSE, !.plan = build_plan(k)]

Submitted(k) == [att[k] EXCEPT !.state = "SUBMITTED", !.remote = TRUE]

(* verify accepts complete evidence of a completed or a failed job, and of  *)
(* a cancelled one only after the watchdog stopped the attempt.             *)
Provable(a) == a.terminal = "ended" \/ a.watchdog

(* Mutant: verify does not ask the provider.                                *)
TerminalStateAssumed(k) == IF att[k].terminal # "none" THEN att[k].terminal ELSE "ended"
(* The recorded terminal state, or else what the provider says of the job.  *)
TerminalState(k) == IF att[k].terminal # "none" THEN att[k].terminal
                    ELSE IF att[k].remote THEN remote[k]
                    ELSE "absent"

Candidates == {k \in Keys : /\ att[k].state \in {"VERIFIED", "CLEANED", "ACCEPTED"}
                            /\ k \in evidence}

(* Jobs of the audit that no attempt's remote_id accounts for.              *)
Unaccounted == {k \in Keys : remote[k] = "active" /\ ~att[k].remote}

Idle == [step |-> "idle", key |-> None, copy |-> NoAttempt, again |-> FALSE]
-----------------------------------------------------------------------------
Init == /\ att = [k \in Keys |-> NoAttempt]
        /\ selection = None
        /\ consumed = FALSE
        /\ acceptance = None
        /\ lock = "free"
        /\ sub = [step |-> "idle", key |-> None]
        /\ watch = [w \in Watchers |-> Idle]
        /\ remote = [k \in Keys |-> "absent"]
        /\ runs = [k \in Keys |-> None]
        /\ image \in Images
        /\ evidence = {}
        /\ upsets = 0

(* _save_attempt: an invalid transition raises, and nothing is written.     *)
Save(k, a) == /\ ValidTransition(att[k].state, a.state)
              /\ att' = [att EXCEPT ![k] = a]

Locked == lock = "free" /\ UNCHANGED <<lock, sub, watch, outside, upsets>>
-----------------------------------------------------------------------------
Plan(k) == /\ Locked
           /\ CanPlan(k)
           /\ Replannable(att[k])
           /\ Save(k, Planned(k))
           /\ UNCHANGED example

(* Mutant: the slot is not looked at.                                       *)
SlotIgnored(k) == TRUE
SlotFree(k) == ActiveAttempts \ {k} = {}

(* submit, up to the PREFLIGHTED record.                                    *)
SubmitBegin(k) ==
  /\ lock = "free"
  /\ att[k].state \notin ACTIVE_STATES \cup {"none"}
  /\ SlotFree(k)
  /\ CanPlan(k)
  /\ att[k].plan = build_plan(k)
  /\ Save(k, [att[k] EXCEPT !.state = "PREFLIGHTED"])
  /\ lock' = "submit"
  /\ sub' = [step |-> "create", key |-> k]
  /\ UNCHANGED <<example, watch, outside, upsets>>

(* provider.submit: created, created with the answer lost, or refused; a    *)
(* name that exists is refused.                                             *)
SubmitCreate ==
  /\ sub.step = "create"
  /\ \/ /\ remote[sub.key] = "absent"
        /\ remote' = [remote EXCEPT ![sub.key] = "active"]
        /\ runs' = [runs EXCEPT ![sub.key] = att[sub.key].plan]
        /\ \E step \in {"record", "adopt"} : sub' = [sub EXCEPT !.step = step]
     \/ /\ sub' = [sub EXCEPT !.step = "adopt"]
        /\ UNCHANGED <<remote, runs>>
  /\ UNCHANGED <<att, example, lock, watch, image, evidence, upsets>>

(* The end of submit: its second save, and the release of the lock.         *)
SubmitEnd(a) == /\ Save(sub.key, a)
                /\ lock' = "free"
                /\ sub' = [step |-> "idle", key |-> None]
                /\ UNCHANGED <<example, watch, outside, upsets>>

SubmitRecord == /\ sub.step = "record"
                /\ SubmitEnd(Submitted(sub.key))

(* _adopt_existing: a job found by its name, or none (or no answer).        *)
SubmitAdopt ==
  /\ sub.step = "adopt"
  /\ \/ remote[sub.key] # "absent" /\ SubmitEnd(Submitted(sub.key))
     \/ SubmitEnd([att[sub.key] EXCEPT !.state = "NEEDS_HUMAN", !.watchdog = FALSE])

Submit == (\E k \in Keys : SubmitBegin(k)) \/ SubmitCreate \/ SubmitRecord
            \/ SubmitAdopt
-----------------------------------------------------------------------------
(* watch.  Only the watcher's own variables change until it saves.          *)
WatchOnly == UNCHANGED <<att, example, lock, sub, outside, upsets>>

WatchStart(w, k) == /\ watch[w].step = "idle"
                    /\ k \in ActiveAttempts
                    /\ watch' = [watch EXCEPT ![w].step = "read", ![w].key = k]
                    /\ WatchOnly

WatchRead(w) ==
  /\ watch[w].step = "read"
  /\ LET a == att[watch[w].key]
     IN watch' = [watch EXCEPT ![w] = IF a.remote
                                        THEN [@ EXCEPT !.step = "poll", !.copy = a]
                                        ELSE Idle]
  /\ WatchOnly

(* What a poll makes of the watcher's copy.                                 *)
Stopped(a, why) == [a EXCEPT !.state = "NEEDS_HUMAN",
                             !.watchdog = why \in {"heartbeat", "unknown"}]
Terminal(a, end) == [a EXCEPT !.state = "FINALIZING", !.terminal = end]
Running(a) == IF a.state = "SUBMITTED" THEN [a EXCEPT !.state = "RUNNING"] ELSE a

(* The poll fails (within the heartbeat, or beyond it), or answers a state  *)
(* that is not classified, a terminal state, or an active one.              *)
WatchPoll(w) ==
  /\ watch[w].step = "poll"
  /\ LET a    == watch[w].copy
         seen == remote[watch[w].key]
         Then(b, again) == [watch[w] EXCEPT !.step = "save", !.copy = b,
                                            !.again = again]
     IN \E next \in
          {Idle, [watch[w] EXCEPT !.step = "read", !.copy = NoAttempt],
           Then(Stopped(a, "heartbeat"), FALSE)}
          \cup (IF seen \in Ended
                  THEN {Then(Terminal(a, seen), FALSE)}
                  ELSE {Then(Stopped(a, "unknown"), FALSE),
                        Then(Running(a), FALSE), Then(Running(a), TRUE)}) :
            watch' = [watch EXCEPT ![w] = next]
  /\ WatchOnly

(* The save under the lock, of the whole attempt as it was read before the  *)
(* poll: it raises if the lock is held or the transition is invalid now.    *)
WatchSave(w) ==
  /\ watch[w].step = "save"
  /\ LET k    == watch[w].key
         done == IF watch[w].again
                   THEN [watch[w] EXCEPT !.step = "read", !.copy = NoAttempt,
                                         !.again = FALSE]
                   ELSE Idle
     IN \/ /\ lock = "free"
           /\ Save(k, watch[w].copy)
           /\ watch' = [watch EXCEPT ![w] = done]
        \/ /\ \/ lock # "free"
              \/ ~ValidTransition(att[k].state, watch[w].copy.state)
           /\ watch' = [watch EXCEPT ![w] = Idle]
           /\ UNCHANGED att
  /\ UNCHANGED <<example, lock, sub, outside, upsets>>

Watch(w) == \/ \E k \in Keys : WatchStart(w, k)
            \/ WatchRead(w) \/ WatchPoll(w) \/ WatchSave(w)
-----------------------------------------------------------------------------
(* verify: the evidence is checked once the job is known to have ended.     *)
Verify(k) ==
  /\ Locked
  /\ att[k].state \notin {"none"} \cup Settled
  /\ TerminalState(k) \in Ended
  /\ LET a == [att[k] EXCEPT !.terminal = TerminalState(k)]
     IN IF k \in evidence /\ Provable(a)
          THEN Save(k, [a EXCEPT !.state = "VERIFIED"])
          ELSE Save(k, Stopped(a, "evidence"))
  /\ UNCHANGED example

BaseSeedsSettled == \A s \in Seeds : att[<<s, "base">>].state \in Settled

(* select: the best candidate once all base seeds are settled.              *)
Select == /\ Locked
          /\ BaseSeedsSettled
          /\ selection' \in Candidates
          /\ \A k \in Candidates : Score[k] <= Score[selection']
          /\ UNCHANGED <<att, consumed, acceptance>>

Extend == /\ Locked
          /\ ~consumed
          /\ selection # None
          /\ consumed' = TRUE
          /\ UNCHANGED <<att, selection, acceptance>>

Accept ==
  /\ Locked
  /\ selection # None
  /\ LET clean == \A k \in Keys : att[k].state # "none" => att[k].clean
     IN acceptance' = IF selection \in Preferred /\ clean THEN selection ELSE None
  /\ UNCHANGED <<att, selection, consumed>>

CleanedUpByOutcome(a, pass) ==                                       \* mutant
  [a EXCEPT !.clean = pass, !.state = IF pass THEN "CLEANED" ELSE "BLOCKED"]
CleanedUp(a, pass) ==
  [a EXCEPT !.clean = pass,
            !.state = IF pass /\ @ = "VERIFIED" THEN "CLEANED" ELSE @]

(* cleanup: blocked by an unaccounted job, or by an instance nobody expects.*)
Cleanup ==
  /\ Locked
  /\ \E pass \in BOOLEAN :
       /\ pass => Unaccounted = {}
       /\ att' = [k \in Keys |->
                    IF att[k].state \in {"VERIFIED", "ACCEPTED", "REJECTED", "NEEDS_HUMAN"}
                      THEN CleanedUp(att[k], pass)
                      ELSE att[k]]
  /\ UNCHANGED example
-----------------------------------------------------------------------------
(* The process holding the lock dies, between two steps of submit or in any *)
(* other command before it writes.                                          *)
DieHoldingLock == /\ lock \in {"free", "submit"}
                  /\ upsets < MaxUpsets
                  /\ upsets' = upsets + 1
                  /\ lock' = "stale"
                  /\ sub' = [step |-> "idle", key |-> None]
                  /\ UNCHANGED <<att, example, watch, outside>>

RecoverLock == /\ lock = "stale"
               /\ lock' = "free"
               /\ UNCHANGED <<att, example, sub, watch, outside, upsets>>

(* The job publishes its evidence and ends; an operator may cancel it.      *)
RemoteStep(k) ==
  /\ remote[k] = "active"
  /\ \/ evidence' = evidence \cup {k} /\ UNCHANGED remote
     \/ /\ \E end \in Ended : remote' = [remote EXCEPT ![k] = end]
        /\ UNCHANGED evidence
  /\ UNCHANGED <<att, example, lock, sub, watch, runs, image, upsets>>

(* Other image evidence or another secret version is recorded.              *)
NewImage == /\ upsets < MaxUpsets
            /\ upsets' = upsets + 1
            /\ image' \in Images \ {image}
            /\ UNCHANGED <<att, example, lock, sub, watch, remote, runs, evidence>>
-----------------------------------------------------------------------------
Next == \/ \E k \in Keys : Plan(k) \/ Verify(k) \/ RemoteStep(k)
        \/ Submit \/ Select \/ Extend \/ Accept \/ Cleanup
        \/ \E w \in Watchers : Watch(w)
        \/ DieHoldingLock \/ RecoverLock \/ NewImage

Spec == Init /\ [][Next]_vars
-----------------------------------------------------------------------------
TypeOK ==
  /\ att \in [Keys -> Attempt]
  /\ selection \in Keys \cup {None}
  /\ consumed \in BOOLEAN
  /\ acceptance \in Keys \cup {None}
  /\ lock \in {"free", "stale", "submit"}
  /\ sub \in [step : {"idle", "create", "adopt", "record"}, key : Keys \cup {None}]
  /\ watch \in [Watchers -> [step : {"idle", "read", "poll", "save"},
                             key : Keys \cup {None}, copy : Attempt,
                             again : BOOLEAN]]
  /\ remote \in [Keys -> {"absent", "active"} \cup Ended]
  /\ runs \in [Keys -> PlanDigest \cup {None}]
  /\ image \in Images
  /\ evidence \subseteq Keys
  /\ upsets \in 0..MaxUpsets

(* At most one attempt holds the remote-job slot, although `watch` saves    *)
(* what it read before its poll and commands die between their steps.       *)
OneActiveAttempt == Cardinality(ActiveAttempts) <= 1

(* A verified or cleaned attempt has a recorded job that ended, and its     *)
(* durable evidence is complete.                                            *)
VerifiedIsProven ==
  \A k \in Keys : att[k].state \in {"VERIFIED", "CLEANED"} =>
      att[k].remote /\ remote[k] \in Ended /\ k \in evidence

(* An extension only ever runs from a winner: its parent is a run of the    *)
(* same example that ended with complete evidence, whatever was selected,   *)
(* planned again or re-recorded in between.                                 *)
ExtensionHasProvenParent ==
  \A k \in Keys : k[2] = "extension" /\ runs[k] # None =>
      /\ runs[k].parent \in evidence \ {k}
      /\ remote[runs[k].parent] \in Ended

(* A recorded remote id is never lost again, and a cleaned attempt never    *)
(* changes: neither a stale save nor a new plan overwrites them.            *)
KeepsJobs == \A k \in Keys : /\ att[k].remote => att'[k].remote
                             /\ att[k].remote => att'[k].state # "PLANNED"
                             /\ att[k].state = "CLEANED" => att'[k] = att[k]

JobsAreKept == [][KeepsJobs]_vars

(* At most one remote job of the campaign is active.                        *)
(* Claimed, and not what the code does (README, section 3).                 *)
OneActiveJob == Cardinality({k \in Keys : remote[k] = "active"}) <= 1

(* The job an attempt records was created from the plan of that attempt: a   *)
(* job found by its name is adopted only when its plan digest matches.      *)
(* Claimed, and not what the code does (README, section 3).                 *)
AdoptedMatchesPlan == \A k \in Keys : att[k].remote => runs[k] = att[k].plan

(* At most one extension of an example is ever submitted.                   *)
(* Claimed, and not what the code does (README, section 3).                 *)
SingleExtension ==
  Cardinality({k \in Keys : k[2] = "extension" /\ remote[k] # "absent"}) <= 1
=============================================================================
