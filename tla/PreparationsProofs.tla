------------------------- MODULE PreparationsProofs -------------------------
(***************************************************************************)
(* Proofs about Preparations, for any setups, runtime versions, limits and  *)
(* number of process stops.                                                 *)
(***************************************************************************)
EXTENDS Preparations, FiniteSetTheorems, TLAPS

USE DEF process, thread, WorkerOnly

WorkerPlaces == {"idle", "build", "record", "refused", "poll", "finalize"}

(* What the code writes into an attempt is an attempt.                      *)
LEMMA AttemptTypes ==
  /\ NoAttempt \in Attempt
  /\ version \in Versions => \A s \in Setups : Queued(s) \in Attempt
  /\ \A p \in Attempt :
       /\ Failed(p) \in Attempt /\ Preparing(p) \in Attempt
       /\ Preparing([p EXCEPT !.remote = TRUE]) \in Attempt
       /\ \A s \in FinalStates : [p EXCEPT !.ready = TRUE, !.state = s] \in Attempt
  BY DEF NoAttempt, Queued, Failed, Preparing, Attempt, ActiveStates, FinalStates

(* A put keeps the table of attempts well-typed.                            *)
LEMMA PutType ==
  ASSUME TypeOK, NEW a \in Ids, NEW p \in Attempt, Put(a, p)
  PROVE  row' \in [Ids -> Attempt]
  BY DEF TypeOK, Put

(* So does a worker that moves on with an attempt in hand.                  *)
LEMMA GoType ==
  ASSUME TypeOK, NEW a \in Ids, NEW step \in WorkerPlaces, NEW p \in Attempt,
         Go(a, step, p)
  PROVE  pc' \in [Ids -> WorkerPlaces] /\ copy' \in [Ids -> Attempt]
  BY DEF TypeOK, Go, WorkerPlaces

(* And one that returns.                                                    *)
LEMMA ReturnType ==
  ASSUME TypeOK, NEW a \in Ids, Return(a)
  PROVE  /\ pc' \in [Ids -> WorkerPlaces] /\ copy' \in [Ids -> Attempt]
         /\ late' \in [Ids -> BOOLEAN] /\ tries' \in [Ids -> 0..FinalizeAttempts]
<1>1. pc' \in [Ids -> WorkerPlaces] /\ copy' \in [Ids -> Attempt]
  BY GoType, AttemptTypes DEF Return, WorkerPlaces
<1>2. late' \in [Ids -> BOOLEAN] /\ tries' \in [Ids -> 0..FinalizeAttempts]
  BY LimitsAssumption DEF Return, TypeOK
<1> QED BY <1>1, <1>2

(* And one that fails its attempt and returns.                              *)
LEMMA FailAndReturnType ==
  ASSUME TypeOK, NEW a \in Ids, FailAndReturn(a)
  PROVE  /\ row' \in [Ids -> Attempt]
         /\ pc' \in [Ids -> WorkerPlaces] /\ copy' \in [Ids -> Attempt]
         /\ late' \in [Ids -> BOOLEAN] /\ tries' \in [Ids -> 0..FinalizeAttempts]
<1>1. Failed(copy[a]) \in Attempt
  BY AttemptTypes DEF TypeOK
<1> QED BY <1>1, PutType, ReturnType DEF FailAndReturn

(* A readable report of either verdict makes an attempt of the attempt.     *)
LEMMA VerdictType ==
  ASSUME TypeOK, NEW a \in Ids, remote[a].report # "none"
  PROVE  Verdict(a) \in Attempt
<1>1. copy[a] \in Attempt /\ remote[a].report \in FinalStates \cup {"foreign"}
  BY DEF TypeOK, RemoteJob, FinalStates
<1> QED BY <1>1, AttemptTypes DEF Verdict, FinalStates

(* Every variable is well-typed after any step of any actor.                *)
LEMMA TypeStep == TypeOK /\ [Next]_vars => TypeOK'
<1> SUFFICES ASSUME TypeOK, [Next]_vars PROVE TypeOK'
  OBVIOUS
<1> USE LimitsAssumption
<1>0. \A a \in Ids : copy[a] \in Attempt /\ row[a] \in Attempt
  BY DEF TypeOK
<1>1. ASSUME NEW s \in Setups, NEW retry \in BOOLEAN, NEW a \in Ids,
             Reserve(s, retry, a)
      PROVE  TypeOK'
  <2>1. row' \in [Ids -> Attempt]
    BY <1>1, PutType, AttemptTypes DEF Reserve, TypeOK
  <2> QED BY <1>1, <2>1 DEF Reserve, TypeOK
<1>2. ASSUME NEW a \in Ids, PublishInputs(a) PROVE TypeOK'
  <2>1. row' \in [Ids -> Attempt]
    BY <1>2, <1>0, PutType, AttemptTypes DEF PublishInputs, TypeOK
  <2> QED BY <1>2, <2>1 DEF PublishInputs, TypeOK
<1>3. ASSUME NEW a \in Ids, Launch(a) PROVE TypeOK'
  <2>1. pc' \in [Ids -> WorkerPlaces] /\ copy' \in [Ids -> Attempt]
    BY <1>3, <1>0, GoType DEF Launch, TypeOK, WorkerPlaces
  <2> QED BY <1>3, <2>1 DEF Launch, TypeOK, WorkerPlaces
<1>4. ASSUME NEW a \in Ids, Submit(a) PROVE TypeOK'
  <2>1. CASE FailAndReturn(a) /\ UNCHANGED remote
    BY <1>4, <2>1, FailAndReturnType DEF Submit, TypeOK, WorkerPlaces
  <2>2. ASSUME NEW step \in {"record", "refused"}, Go(a, step, copy[a]),
               remote' = [remote EXCEPT ![a].state = "live"],
               UNCHANGED <<row, late, tries>>
        PROVE  TypeOK'
    <3>1. pc' \in [Ids -> WorkerPlaces] /\ copy' \in [Ids -> Attempt]
      BY <2>2, <1>0, GoType DEF WorkerPlaces
    <3>2. remote' \in [Ids -> RemoteJob]
      BY <2>2 DEF TypeOK, RemoteJob
    <3> QED BY <1>4, <2>2, <3>1, <3>2 DEF Submit, TypeOK, WorkerPlaces
  <2> QED BY <1>4, <2>1, <2>2 DEF Submit
<1>5. ASSUME NEW a \in Ids, SubmissionRefused(a) PROVE TypeOK'
  BY <1>5, FailAndReturnType DEF SubmissionRefused, TypeOK, WorkerPlaces
<1>6. ASSUME NEW a \in Ids, RecordRemoteId(a) PROVE TypeOK'
  <2>1. row' \in [Ids -> Attempt]
    BY <1>6, <1>0, AttemptTypes, PutType DEF RecordRemoteId
  <2>2. pc' \in [Ids -> WorkerPlaces] /\ copy' \in [Ids -> Attempt]
    BY <1>6, <1>0, AttemptTypes, GoType DEF RecordRemoteId, WorkerPlaces
  <2> QED BY <1>6, <2>1, <2>2 DEF RecordRemoteId, TypeOK, WorkerPlaces
<1>7. ASSUME NEW a \in Ids, Poll(a) PROVE TypeOK'
  <2>0. UNCHANGED <<process, published, crashes, remote>>
    BY <1>7 DEF Poll
  <2>1. CASE FailAndReturn(a)
    BY <2>0, <2>1, FailAndReturnType DEF TypeOK, WorkerPlaces
  <2>2. CASE Go(a, "poll", copy[a]) /\ UNCHANGED <<row, late, tries>>
    <3>1. pc' \in [Ids -> WorkerPlaces] /\ copy' \in [Ids -> Attempt]
      BY <2>2, <1>0, GoType DEF WorkerPlaces
    <3> QED BY <2>0, <2>2, <3>1 DEF TypeOK, WorkerPlaces
  <2>3. CASE /\ Go(a, "finalize", copy[a])
             /\ tries' = [tries EXCEPT ![a] = FinalizeAttempts]
             /\ UNCHANGED <<row, late>>
    <3>1. pc' \in [Ids -> WorkerPlaces] /\ copy' \in [Ids -> Attempt]
      BY <2>3, <1>0, GoType DEF WorkerPlaces
    <3>2. tries' \in [Ids -> 0..FinalizeAttempts]
      BY <2>3 DEF TypeOK
    <3> QED BY <2>0, <2>3, <3>1, <3>2 DEF TypeOK, WorkerPlaces
  <2>4. CASE /\ Put(a, Preparing(copy[a])) /\ Go(a, "poll", Preparing(copy[a]))
             /\ UNCHANGED <<late, tries>>
    <3>1. row' \in [Ids -> Attempt]
      BY <2>4, <1>0, AttemptTypes, PutType
    <3>2. pc' \in [Ids -> WorkerPlaces] /\ copy' \in [Ids -> Attempt]
      BY <2>4, <1>0, AttemptTypes, GoType DEF WorkerPlaces
    <3> QED BY <2>0, <2>4, <3>1, <3>2 DEF TypeOK, WorkerPlaces
  <2> QED BY <1>7, <2>1, <2>2, <2>3, <2>4 DEF Poll
<1>8. ASSUME NEW a \in Ids, FinalizeAttempt(a) PROVE TypeOK'
  <2>0. UNCHANGED <<process, published, crashes, remote>>
    BY <1>8 DEF FinalizeAttempt
  <2>1. CASE FailAndReturn(a)
    BY <2>0, <2>1, FailAndReturnType DEF TypeOK, WorkerPlaces
  <2>2. CASE /\ tries[a] > 0 /\ tries' = [tries EXCEPT ![a] = @ - 1]
             /\ UNCHANGED <<row, pc, copy, late>>
    BY <2>0, <2>2 DEF TypeOK
  <2>3. CASE remote[a].report # "none" /\ Put(a, Verdict(a)) /\ Return(a)
    <3>1. row' \in [Ids -> Attempt]
      BY <2>3, VerdictType, PutType
    <3> QED BY <2>0, <2>3, <3>1, ReturnType DEF TypeOK, WorkerPlaces
  <2> QED BY <1>8, <2>1, <2>2, <2>3 DEF FinalizeAttempt
<1>9. ASSUME NEW a \in Ids, DeadlinePasses(a) PROVE TypeOK'
  BY <1>9 DEF DeadlinePasses, TypeOK
<1>10. ASSUME NEW a \in Ids, RemoteRuns(a) PROVE TypeOK'
  <2>1. remote' \in [Ids -> RemoteJob]
    BY <1>10 DEF RemoteRuns, TypeOK, RemoteJob
  <2> QED BY <1>10, <2>1 DEF RemoteRuns, TypeOK
<1>11. ASSUME Crash PROVE TypeOK'
  <2>1. copy' \in [Ids -> Attempt]
    BY <1>11, AttemptTypes DEF Crash
  <2> QED BY <1>11, <2>1 DEF Crash, TypeOK
<1>12. ASSUME Restart PROVE TypeOK'
  BY <1>12 DEF Restart, list_active_preparations, TypeOK
<1>13. ASSUME Booted PROVE TypeOK'
  BY <1>13 DEF Booted, TypeOK
<1>14. ASSUME NEW a \in Ids, ResumeAttempt(a) PROVE TypeOK'
  <2>1. row' \in [Ids -> Attempt]
    BY <1>14, <1>0, PutType, AttemptTypes DEF ResumeAttempt, ResumeUnsubmitted, TypeOK
  <2>2. pc' \in [Ids -> WorkerPlaces] /\ copy' \in [Ids -> Attempt]
    BY <1>14, <1>0, GoType DEF ResumeAttempt, TypeOK, WorkerPlaces
  <2> QED BY <1>14, <2>1, <2>2 DEF ResumeAttempt, TypeOK, WorkerPlaces
<1>15. CASE UNCHANGED vars
  BY <1>15 DEF vars, TypeOK
<1>16. ASSUME NEW a \in Ids, Handler(a) \/ Worker(a) PROVE TypeOK'
  BY <1>2, <1>3, <1>4, <1>5, <1>6, <1>7, <1>8, <1>16 DEF Handler, Worker
<1>17. ASSUME Startup PROVE TypeOK'
  BY <1>12, <1>13, <1>14, <1>17 DEF Startup
<1> QED
  BY <1>1, <1>9, <1>10, <1>11, <1>15, <1>16, <1>17 DEF Next

(* The initial state is well-typed.                                         *)
LEMMA TypeInit == Init => TypeOK
<1> SUFFICES ASSUME Init PROVE TypeOK
  OBVIOUS
<1>1. row \in [Ids -> Attempt] /\ copy \in [Ids -> Attempt]
  BY AttemptTypes DEF Init
<1>2. remote \in [Ids -> RemoteJob]
  BY DEF Init, NoRemote, RemoteJob
<1>3. tries \in [Ids -> 0..FinalizeAttempts] /\ crashes \in 0..MaxCrashes
  BY LimitsAssumption DEF Init
<1> QED BY <1>1, <1>2, <1>3 DEF Init, TypeOK

(* Every reachable state of the preparations is well-typed.                 *)
THEOREM Typing == Spec => []TypeOK
  BY TypeInit, TypeStep, PTL DEF Spec
-----------------------------------------------------------------------------
(***************************************************************************)
(* In whose hands an attempt is, and what that implies.  RequestInv: while  *)
(* its request thread has it, the attempt is as reserved and nothing runs   *)
(* remotely.  WorkerInv: a worker's copy is the record, its attempt is      *)
(* unfinished and its inputs are published.  ScanInv: so is an attempt that *)
(* still waits for the startup scan, and it has no thread.  RemoteInv: what *)
(* the record and the remote job say of the inputs and of the report.       *)
(***************************************************************************)
RequestInv(a) ==
  /\ handler[a] # "idle" =>
       /\ server = "serving" /\ pc[a] = "idle"
       /\ row[a].state = "queued" /\ ~row[a].remote /\ remote[a] = NoRemote
  /\ handler[a] = "launch" => a \in published

WorkerInv(a) ==
  /\ pc[a] # "idle" =>
       server # "down" /\ copy[a] = row[a] /\ IsActive(a) /\ a \in published
  /\ pc[a] = "finalize" => remote[a].state = "succeeded"

ScanInv(a) ==
  a \in bootQueue =>
    /\ server = "booting" /\ IsActive(a)
    /\ pc[a] = "idle" /\ handler[a] = "idle"

RemoteInv(a) ==
  /\ row[a].state = "none" => remote[a] = NoRemote
  /\ row[a].remote => a \in published
  /\ remote[a].state # "absent" => a \in published
  /\ row[a].state = "accepted" =>
       /\ remote[a].state = "succeeded" /\ remote[a].report = "accepted"
       /\ row[a].ready

Held(a) == RequestInv(a) /\ WorkerInv(a) /\ ScanInv(a) /\ RemoteInv(a)

IInv == TypeOK /\ (\A a \in Ids : Held(a)) /\ OneUsablePerFingerprint

(* An attempt that a step does not touch stays in the same hands.           *)
LEMMA Frame ==
  ASSUME NEW b \in Ids, Held(b), UNCHANGED server,
         row'[b] = row[b], handler'[b] = handler[b], pc'[b] = pc[b],
         copy'[b] = copy[b], remote'[b] = remote[b],
         b \in published => b \in published', b \in bootQueue' => b \in bootQueue
  PROVE  Held(b)'
  BY DEF Held, RequestInv, WorkerInv, ScanInv, RemoteInv, IsActive

(* A thread of the service writes only the attempt it was started for.      *)
LEMMA ThreadStep ==
  ASSUME TypeOK, NEW a \in Ids, Held(a), NEW b \in Ids, Held(b),
         Handler(a) \/ Worker(a)
  PROVE  Held(b)'
<1> USE DEF ActiveStates, IsActive
<1>1. ASSUME b # a PROVE Held(b)'
  <2>1. /\ UNCHANGED <<server, bootQueue>> /\ published \subseteq published'
        /\ row'[b] = row[b] /\ handler'[b] = handler[b] /\ pc'[b] = pc[b]
        /\ copy'[b] = copy[b] /\ remote'[b] = remote[b]
    <3>1. CASE Handler(a)
      BY <1>1, <3>1 DEF Handler, PublishInputs, Launch, Put, Go, TypeOK
    <3>2. CASE Submit(a) \/ SubmissionRefused(a) \/ RecordRemoteId(a)
      BY <1>1, <3>2
      DEF Submit, SubmissionRefused, RecordRemoteId, FailAndReturn, Return, Put, Go,
          TypeOK
    <3>3. CASE Poll(a) \/ FinalizeAttempt(a)
      BY <1>1, <3>3 DEF Poll, FinalizeAttempt, FailAndReturn, Return, Put, Go, TypeOK
    <3> QED BY <3>1, <3>2, <3>3 DEF Worker
  <2> QED BY <2>1, Frame DEF TypeOK
<1>2. ASSUME FailAndReturn(a), UNCHANGED <<process, published>>, pc[a] # "idle",
             remote'[a] = remote[a]
      PROVE  Held(a)'
  BY <1>2
  DEF FailAndReturn, Return, Put, Go, Failed, TypeOK, Attempt, Held, RequestInv,
      WorkerInv, ScanInv, RemoteInv
<1>3. ASSUME PublishInputs(a) PROVE Held(a)'
  BY <1>3
  DEF PublishInputs, Put, Failed, TypeOK, Attempt, Held, RequestInv, WorkerInv,
      ScanInv, RemoteInv, NoRemote
<1>4. ASSUME Launch(a) PROVE Held(a)'
  BY <1>4 DEF Launch, Go, TypeOK, Held, RequestInv, WorkerInv, ScanInv, RemoteInv
<1>5. ASSUME Submit(a) PROVE Held(a)'
  <2>1. CASE FailAndReturn(a) /\ UNCHANGED remote
    BY <1>5, <2>1, <1>2 DEF Submit
  <2>2. ASSUME NEW step \in {"record", "refused"}, Go(a, step, copy[a]),
               remote' = [remote EXCEPT ![a].state = "live"],
               UNCHANGED <<row, late, tries>>
        PROVE  Held(a)'
    BY <1>5, <2>2
    DEF Submit, Go, TypeOK, Held, RequestInv, WorkerInv, ScanInv, RemoteInv, RemoteJob
  <2> QED BY <1>5, <2>1, <2>2 DEF Submit
<1>6. ASSUME SubmissionRefused(a) PROVE Held(a)'
  BY <1>6, <1>2 DEF SubmissionRefused
<1>7. ASSUME RecordRemoteId(a) PROVE Held(a)'
  BY <1>7
  DEF RecordRemoteId, Preparing, Put, Go, TypeOK, Attempt, Held, RequestInv,
      WorkerInv, ScanInv, RemoteInv
<1>8. ASSUME Poll(a) PROVE Held(a)'
  <2>1. CASE FailAndReturn(a)
    BY <1>8, <2>1, <1>2 DEF Poll
  <2>2. ASSUME NEW step \in {"poll", "finalize"}, Go(a, step, copy[a]),
               step = "finalize" => remote[a].state = "succeeded",
               UNCHANGED row
        PROVE  Held(a)'
    BY <1>8, <2>2 DEF Poll, Go, TypeOK, Held, RequestInv, WorkerInv, ScanInv, RemoteInv
  <2>3. CASE Put(a, Preparing(copy[a])) /\ Go(a, "poll", Preparing(copy[a]))
    BY <1>8, <2>3
    DEF Poll, Preparing, Put, Go, TypeOK, Attempt, Held, RequestInv, WorkerInv,
        ScanInv, RemoteInv
  <2> QED BY <1>8, <2>1, <2>2, <2>3 DEF Poll
<1>9. ASSUME FinalizeAttempt(a) PROVE Held(a)'
  <2>1. CASE FailAndReturn(a)
    BY <1>9, <2>1, <1>2 DEF FinalizeAttempt
  <2>2. CASE tries' = [tries EXCEPT ![a] = @ - 1] /\ UNCHANGED <<row, pc, copy, late>>
    BY <1>9, <2>2
    DEF FinalizeAttempt, TypeOK, Held, RequestInv, WorkerInv, ScanInv, RemoteInv
  <2>3. CASE remote[a].report # "none" /\ Put(a, Verdict(a)) /\ Return(a)
    <3>1. /\ row'[a] = Verdict(a) /\ pc'[a] = "idle"
          /\ UNCHANGED <<remote, server, bootQueue, handler, published>>
      BY <1>9, <2>3 DEF FinalizeAttempt, Put, Return, Go, TypeOK
    <3>2. /\ copy[a] \in Attempt /\ pc[a] = "finalize"
          /\ remote[a].report \in {"accepted", "failed", "foreign"}
      BY <1>9, <2>3 DEF FinalizeAttempt, TypeOK, RemoteJob
    <3>3. CASE remote[a].report = "foreign"
      BY <3>1, <3>2, <3>3
      DEF Verdict, Failed, Attempt, Held, RequestInv, WorkerInv, ScanInv, RemoteInv
    <3>4. CASE remote[a].report # "foreign"
      BY <3>1, <3>2, <3>4
      DEF Verdict, Attempt, Held, RequestInv, WorkerInv, ScanInv, RemoteInv
    <3> QED BY <3>3, <3>4
  <2> QED BY <1>9, <2>1, <2>2, <2>3 DEF FinalizeAttempt
<1> QED
  BY <1>1, <1>3, <1>4, <1>5, <1>6, <1>7, <1>8, <1>9 DEF Handler, Worker

(* Each attempt is left in known hands by every step.                       *)
LEMMA HeldStep ==
  ASSUME TypeOK, \A a \in Ids : Held(a), [Next]_vars
  PROVE  \A b \in Ids : Held(b)'
<1> SUFFICES ASSUME NEW b \in Ids PROVE Held(b)'
  OBVIOUS
<1> USE DEF ActiveStates, IsActive
<1>1. ASSUME NEW s \in Setups, NEW retry \in BOOLEAN, NEW a \in Ids,
             Reserve(s, retry, a)
      PROVE  Held(b)'
  <2>1. CASE b # a
    <3>1. /\ UNCHANGED <<server, bootQueue, published>>
          /\ row'[b] = row[b] /\ handler'[b] = handler[b] /\ pc'[b] = pc[b]
          /\ copy'[b] = copy[b] /\ remote'[b] = remote[b]
      BY <1>1, <2>1 DEF Reserve, Put, TypeOK
    <3> QED BY <3>1, Frame DEF TypeOK
  <2>2. CASE b = a
    <3>1. Held(a) /\ row[a].state = "none" /\ ~row[a].remote
      BY <1>1 DEF Reserve, NoAttempt
    <3>2. pc[a] = "idle" /\ a \notin bootQueue
      BY <3>1 DEF Held, WorkerInv, ScanInv
    <3>3. remote[a] = NoRemote
      BY <3>1 DEF Held, RemoteInv
    <3> QED BY <1>1, <2>2, <3>1, <3>2, <3>3
        DEF Reserve, Put, Queued, TypeOK, Held, RequestInv, WorkerInv, ScanInv,
            RemoteInv, NoRemote
  <2> QED BY <2>1, <2>2
<1>2. ASSUME NEW a \in Ids, Handler(a) \/ Worker(a) PROVE Held(b)'
  BY <1>2, ThreadStep
<1>3. ASSUME NEW a \in Ids, DeadlinePasses(a) PROVE Held(b)'
  BY <1>3, Frame DEF DeadlinePasses, TypeOK
<1>4. ASSUME NEW a \in Ids, RemoteRuns(a) PROVE Held(b)'
  <2>1. UNCHANGED <<row, process, thread, published>>
    BY <1>4 DEF RemoteRuns
  <2>2. CASE b # a
    <3>1. remote'[b] = remote[b]
      BY <1>4, <2>2 DEF RemoteRuns, TypeOK
    <3> QED BY <2>1, <3>1, Frame DEF TypeOK
  <2>3. CASE b = a
    BY <1>4, <2>1, <2>3
    DEF RemoteRuns, TypeOK, RemoteJob, Held, RequestInv, WorkerInv, ScanInv,
        RemoteInv, NoRemote
  <2> QED BY <2>2, <2>3
<1>5. ASSUME Crash PROVE Held(b)'
  BY <1>5 DEF Crash, Held, RequestInv, WorkerInv, ScanInv, RemoteInv
<1>6. ASSUME Restart PROVE Held(b)'
  BY <1>6
  DEF Restart, list_active_preparations, Held, RequestInv, WorkerInv, ScanInv,
      RemoteInv
<1>7. ASSUME Booted PROVE Held(b)'
  BY <1>7 DEF Booted, Held, RequestInv, WorkerInv, ScanInv, RemoteInv
<1>8. ASSUME NEW a \in Ids, ResumeAttempt(a) PROVE Held(b)'
  <2>1. CASE b # a
    <3>1. /\ UNCHANGED <<server, published>> /\ bootQueue' \subseteq bootQueue
          /\ row'[b] = row[b] /\ handler'[b] = handler[b] /\ pc'[b] = pc[b]
          /\ copy'[b] = copy[b] /\ remote'[b] = remote[b]
      BY <1>8, <2>1 DEF ResumeAttempt, ResumeUnsubmitted, Put, Go, TypeOK
    <3> QED BY <3>1, Frame DEF TypeOK
  <2>2. CASE b = a
    BY <1>8, <2>2
    DEF ResumeAttempt, ResumeUnsubmitted, Put, Go, Failed, TypeOK, Attempt, Held,
        RequestInv, WorkerInv, ScanInv, RemoteInv
  <2> QED BY <2>1, <2>2
<1>9. CASE UNCHANGED vars
  BY <1>9, Frame DEF vars, TypeOK
<1> QED
  BY <1>1, <1>2, <1>3, <1>4, <1>5, <1>6, <1>7, <1>8, <1>9 DEF Next, Startup

-----------------------------------------------------------------------------
(* What a step may do to the records: nothing, reserve a new attempt for a  *)
(* fingerprint without a usable one, or rewrite an unfinished one as it is. *)
ReservesOne ==
  \E a \in Ids, s \in Setups : /\ row[a] = NoAttempt /\ Reusable(s) = {}
                               /\ UnderQuota
                               /\ row' = [row EXCEPT ![a] = Queued(s)]
RewritesActive ==
  \E a \in Ids, p \in Attempt :
    /\ IsActive(a) /\ p.setup = row[a].setup /\ p.version = row[a].version
    /\ p.state # "none"
    /\ row' = [row EXCEPT ![a] = p]
RowWrites == UNCHANGED row \/ ReservesOne \/ RewritesActive

(* Every step of every actor is such a write.                               *)
LEMMA RowStep ==
  ASSUME TypeOK, \A a \in Ids : Held(a), [Next]_vars
  PROVE  RowWrites
<1>0. ASSUME NEW a \in Ids PROVE copy[a] \in Attempt /\ row[a] \in Attempt
  BY DEF TypeOK
<1>1. ASSUME NEW s \in Setups, NEW retry \in BOOLEAN, NEW a \in Ids,
             Reserve(s, retry, a)
      PROVE  RowWrites
  BY <1>1 DEF Reserve, Put, RowWrites, ReservesOne
<1>2. ASSUME NEW a \in Ids, NEW p \in Attempt, IsActive(a), Put(a, p),
             p.setup = row[a].setup, p.version = row[a].version, p.state # "none"
      PROVE  RowWrites
  BY <1>2 DEF Put, RowWrites, RewritesActive
<1>3. ASSUME NEW a \in Ids, PublishInputs(a) PROVE RowWrites
  <2>1. IsActive(a)
    BY <1>3 DEF PublishInputs, Held, RequestInv, IsActive, ActiveStates
  <2>2. /\ Failed(row[a]) \in Attempt /\ Failed(row[a]).setup = row[a].setup
        /\ Failed(row[a]).version = row[a].version /\ Failed(row[a]).state # "none"
    BY <1>0 DEF Failed, Attempt, ActiveStates, FinalStates
  <2> QED BY <1>2, <1>3, <2>1, <2>2 DEF PublishInputs, RowWrites
<1>4. ASSUME NEW a \in Ids, Worker(a) PROVE RowWrites
  <2>1. IsActive(a) /\ copy[a] = row[a]
    <3>1. pc[a] # "idle"
      BY <1>4 DEF Worker, Submit, SubmissionRefused, RecordRemoteId, Poll,
                  FinalizeAttempt
    <3> QED BY <3>1 DEF Held, WorkerInv
  <2>2. /\ Failed(copy[a]) \in Attempt /\ Failed(copy[a]).setup = row[a].setup
        /\ Failed(copy[a]).version = row[a].version /\ Failed(copy[a]).state # "none"
    BY <1>0, <2>1 DEF Failed, Attempt, ActiveStates, FinalStates
  <2>3. \A p \in {copy[a], [copy[a] EXCEPT !.remote = TRUE]} :
          /\ Preparing(p) \in Attempt /\ Preparing(p).setup = row[a].setup
          /\ Preparing(p).version = row[a].version /\ Preparing(p).state # "none"
    BY <1>0, <2>1 DEF Preparing, Attempt, ActiveStates, FinalStates
  <2>4. remote[a].report # "none" =>
          /\ Verdict(a) \in Attempt /\ Verdict(a).setup = row[a].setup
          /\ Verdict(a).version = row[a].version /\ Verdict(a).state # "none"
    BY <1>0, <2>1, VerdictType DEF Verdict, Failed, Attempt
  <2>5. FailAndReturn(a) => RowWrites
    BY <1>2, <2>1, <2>2 DEF FailAndReturn
  <2>6. CASE Submit(a) \/ SubmissionRefused(a)
    BY <2>5, <2>6 DEF Submit, SubmissionRefused, RowWrites
  <2>7. CASE RecordRemoteId(a)
    BY <1>2, <2>1, <2>3, <2>7 DEF RecordRemoteId
  <2>8. CASE Poll(a)
    BY <1>2, <2>1, <2>3, <2>5, <2>8 DEF Poll, RowWrites
  <2>9. CASE FinalizeAttempt(a)
    BY <1>2, <2>1, <2>4, <2>5, <2>9 DEF FinalizeAttempt, RowWrites
  <2> QED BY <1>4, <2>6, <2>7, <2>8, <2>9 DEF Worker
<1>5. ASSUME NEW a \in Ids, ResumeAttempt(a) PROVE RowWrites
  <2>1. IsActive(a)
    BY <1>5 DEF ResumeAttempt, Held, ScanInv
  <2>2. /\ Failed(row[a]) \in Attempt /\ Failed(row[a]).setup = row[a].setup
        /\ Failed(row[a]).version = row[a].version /\ Failed(row[a]).state # "none"
    BY <1>0 DEF Failed, Attempt, ActiveStates, FinalStates
  <2> QED BY <1>2, <1>5, <2>1, <2>2 DEF ResumeAttempt, ResumeUnsubmitted, RowWrites
<1>6. ASSUME \/ \E a \in Ids : Launch(a) \/ DeadlinePasses(a) \/ RemoteRuns(a)
             \/ Crash \/ Restart \/ Booted \/ UNCHANGED vars
      PROVE  RowWrites
  BY <1>6 DEF Launch, DeadlinePasses, RemoteRuns, Crash, Restart, Booted, vars,
              RowWrites
<1> QED
  BY <1>1, <1>3, <1>4, <1>5, <1>6 DEF Next, Handler, Startup

(* Usable attempts only become fewer, but for a reservation where no usable *)
(* one was.                                                                 *)
LEMMA UsableStep ==
  ASSUME TypeOK, OneUsablePerFingerprint, RowWrites
  PROVE  OneUsablePerFingerprint'
<1> DEFINE Usable(r, a) == r[a].state \in ActiveStates \cup {"accepted"}
<1> SUFFICES ASSUME NEW b \in Ids, NEW c \in Ids,
                    row'[b].setup = row'[c].setup, row'[b].version = row'[c].version,
                    Usable(row', b), Usable(row', c)
             PROVE  b = c
  BY DEF OneUsablePerFingerprint
<1>1. CASE UNCHANGED row
  BY <1>1 DEF OneUsablePerFingerprint
<1>2. CASE ReservesOne
  <2>1. PICK a \in Ids, s \in Setups : /\ row[a] = NoAttempt /\ Reusable(s) = {}
                                       /\ row' = [row EXCEPT ![a] = Queued(s)]
    BY <1>2 DEF ReservesOne
  <2>2. /\ row'[a].setup = s /\ row'[a].version = version
        /\ \A d \in Ids \ {a} : row'[d] = row[d]
    BY <2>1 DEF TypeOK, Queued
  <2>3. \A d \in Ids : ~(row[d].setup = s /\ row[d].version = version /\ Usable(row, d))
    BY <2>1 DEF Reusable, Matching
  <2>4. CASE b # a /\ c # a
    BY <2>2, <2>4 DEF OneUsablePerFingerprint
  <2>5. CASE b = a /\ c # a
    BY <2>2, <2>3, <2>5
  <2>6. CASE b # a /\ c = a
    BY <2>2, <2>3, <2>6
  <2> QED BY <2>4, <2>5, <2>6
<1>3. CASE RewritesActive
  <2>1. PICK a \in Ids, p \in Attempt :
          /\ IsActive(a) /\ p.setup = row[a].setup /\ p.version = row[a].version
          /\ row' = [row EXCEPT ![a] = p]
    BY <1>3 DEF RewritesActive
  <2>2. \A d \in Ids : /\ row'[d].setup = row[d].setup
                       /\ row'[d].version = row[d].version
                       /\ Usable(row', d) => Usable(row, d)
    BY <2>1 DEF TypeOK, IsActive
  <2> QED BY <2>2 DEF OneUsablePerFingerprint
<1> QED BY <1>1, <1>2, <1>3 DEF RowWrites

(* The invariant holds before the first request.                           *)
LEMMA IndInit == Init => IInv
<1> SUFFICES ASSUME Init PROVE IInv
  OBVIOUS
<1>1. \A a \in Ids : Held(a)
  BY DEF Init, NoAttempt, NoRemote, Held, RequestInv, WorkerInv, ScanInv, RemoteInv
<1>2. OneUsablePerFingerprint
  BY DEF Init, NoAttempt, ActiveStates, OneUsablePerFingerprint
<1> QED BY <1>1, <1>2, TypeInit DEF IInv

(* And every step keeps it.                                                *)
LEMMA IndStep == IInv /\ [Next]_vars => IInv'
  BY TypeStep, HeldStep, RowStep, UsableStep DEF IInv

(* At every moment each attempt is in the hands of at most one thread, which *)
(* knows its record; and no fingerprint has two usable attempts.            *)
THEOREM Invariance == Spec => []IInv
  BY IndInit, IndStep, PTL DEF Spec

(* However requests, retries, failures, restarts and versions interleave, a *)
(* fingerprint has at most one attempt that is unfinished or accepted.      *)
THEOREM Uniqueness == Spec => []OneUsablePerFingerprint
<1>1. IInv => OneUsablePerFingerprint
  BY DEF IInv
<1> QED BY <1>1, Invariance, PTL

(* A remote job had its inputs published first; and an accepted attempt had *)
(* one, which succeeded, and whose report accepts its own fingerprint.      *)
THEOREM Genuineness == Spec => []EvidenceIsGenuine
<1>1. IInv => EvidenceIsGenuine
  <2> SUFFICES ASSUME IInv, NEW a \in Ids
               PROVE  /\ remote[a].state # "absent" => a \in published
                      /\ row[a].state = "accepted" =>
                           /\ remote[a] = [state |-> "succeeded", report |-> "accepted"]
                           /\ row[a].ready
    BY DEF EvidenceIsGenuine
  <2>1. /\ remote[a].state # "absent" => a \in published
        /\ row[a].state = "accepted" =>
             /\ remote[a].state = "succeeded" /\ remote[a].report = "accepted"
             /\ row[a].ready
    BY DEF IInv, Held, RemoteInv
  <2>2. remote[a] \in RemoteJob
    BY DEF IInv, TypeOK
  <2> QED BY <2>1, <2>2 DEF RemoteJob
<1> QED BY <1>1, Invariance, PTL

(* A setup shown as ready is one the start handler takes: the accepted      *)
(* attempt the projection saw is the only one, so the gate finds the same.  *)
THEOREM ReadyIsStartable == Spec => []ReadyCanStart
<1>1. IInv => ReadyCanStart
  <2> SUFFICES ASSUME IInv, NEW s \in Setups, Readiness(s) = "ready"
               PROVE  MayStart(s)
    BY DEF ReadyCanStart
  <2>1. PICK a \in Current(s) : row[a].state = "accepted"
    <3>1. \E a \in Current(s) : row[a].state = "accepted"
      BY DEF Readiness
    <3> QED BY <3>1
  <2>2. Accepted(s) = {a}
    <3>1. a \in Accepted(s)
      BY <2>1 DEF Current, Latest, Accepted
    <3>2. \A b \in Accepted(s) : b = a
      BY <3>1 DEF IInv, OneUsablePerFingerprint, Accepted, Matching
    <3> QED BY <3>1, <3>2
  <2>3. a \in Ids /\ a \in Int
    BY <2>2, LimitsAssumption DEF Accepted, Matching, Ids
  <2>4. Max(Accepted(s)) = a
    BY <2>2, <2>3 DEF Max
  <2> QED BY <2>1, <2>2, <2>3, <2>4 DEF IInv, Held, RemoteInv, MayStart
<1> QED BY <1>1, Invariance, PTL

(* A finished attempt is never written again.                               *)
FinishedIsFinal ==
  [][\A a \in Ids : row[a].state \in FinalStates => row'[a] = row[a]]_vars

(* No write of a late worker or of the startup scan follows the final one.  *)
THEOREM Finality == Spec => FinishedIsFinal
<1>1. IInv /\ [Next]_vars =>
        \A a \in Ids : row[a].state \in FinalStates => row'[a] = row[a]
  <2> SUFFICES ASSUME IInv, [Next]_vars, NEW a \in Ids, row[a].state \in FinalStates
               PROVE  row'[a] = row[a]
    OBVIOUS
  <2>1. RowWrites /\ row \in [Ids -> Attempt]
    BY RowStep DEF IInv, TypeOK
  <2> QED BY <2>1
      DEF RowWrites, ReservesOne, RewritesActive, IsActive, ActiveStates, FinalStates,
          NoAttempt
<1> QED BY <1>1, Invariance, PTL DEF Spec, FinishedIsFinal

-----------------------------------------------------------------------------
(* The refinement: the tenant's view of a step is a step of                 *)
(* PreparationContract.                                                     *)

(* An attempt has a fingerprint from the moment it exists.                  *)
Named ==
  \A a \in Ids :
    \/ row[a].state = "none" /\ row[a].setup = None
    \/ row[a].state # "none" /\ row[a].setup \in Setups /\ row[a].version \in Versions

(* Writes to the records keep it so.                                        *)
LEMMA NamedStep ==
  ASSUME TypeOK, Named, RowWrites
  PROVE  Named'
<1>1. CASE UNCHANGED row
  BY <1>1 DEF Named
<1>2. CASE ReservesOne
  <2>1. PICK a \in Ids, s \in Setups : row' = [row EXCEPT ![a] = Queued(s)]
    BY <1>2 DEF ReservesOne
  <2>2. \A d \in Ids : row'[d] = IF d = a THEN Queued(s) ELSE row[d]
    BY <2>1 DEF TypeOK
  <2> QED BY <2>2 DEF Named, Queued, TypeOK
<1>3. CASE RewritesActive
  <2>1. PICK a \in Ids, p \in Attempt :
          /\ IsActive(a) /\ p.setup = row[a].setup /\ p.version = row[a].version
          /\ p.state # "none" /\ row' = [row EXCEPT ![a] = p]
    BY <1>3 DEF RewritesActive
  <2>2. \A d \in Ids : row'[d] = IF d = a THEN p ELSE row[d]
    BY <2>1 DEF TypeOK
  <2>3. row[a].state # "none"
    BY <2>1 DEF IsActive, ActiveStates
  <2> QED BY <2>1, <2>2, <2>3 DEF Named
<1> QED BY <1>1, <1>2, <1>3 DEF RowWrites

(* What is seen of attempts S with the records r.                           *)
LEMMA OutcomeIs ==
  ASSUME NEW r, NEW S, \A a \in S : r[a].state \in ActiveStates \cup FinalStates
  PROVE  LET o == Outcome({r[a].state : a \in S})
             Active == \E a \in S : r[a].state \in ActiveStates
             Accepts == \E a \in S : r[a].state = "accepted"
         IN  /\ Active => o = "preparing"
             /\ ~Active /\ Accepts => o = "accepted"
             /\ ~Active /\ ~Accepts /\ S # {} => o = "failed"
             /\ S = {} => o = "none"
<1> DEFINE states == {r[a].state : a \in S}
           Active == \E a \in S : r[a].state \in ActiveStates
           Accepts == \E a \in S : r[a].state = "accepted"
<1>1. Active <=> states \cap ActiveStates # {}
  OBVIOUS
<1>2. Accepts <=> "accepted" \in states
  OBVIOUS
<1>3. S = {} <=> states = {}
  OBVIOUS
<1>4. states \subseteq ActiveStates \cup {"accepted", "failed"}
  BY DEF FinalStates
<1>5. ~Active /\ ~Accepts /\ S # {} => states = {"failed"}
  BY <1>1, <1>2, <1>3, <1>4
<1>6. ASSUME NEW W, W \subseteq ActiveStates \cup {"accepted", "failed"}
      PROVE  /\ W \cap ActiveStates # {} => Outcome(W) = "preparing"
             /\ W \cap ActiveStates = {} /\ "accepted" \in W => Outcome(W) = "accepted"
             /\ W = {"failed"} => Outcome(W) = "failed"
             /\ W = {} => Outcome(W) = "none"
  BY <1>6 DEF Outcome, ActiveStates
<1> HIDE DEF states
<1> QED BY <1>1, <1>2, <1>3, <1>4, <1>5, <1>6 DEF states

(* The tenant's view of one fingerprint, in this state and the next.        *)
LEMMA SeenIs ==
  ASSUME NEW f \in Fingerprints
  PROVE  /\ Seen[f] = Outcome({row[a].state : a \in Attempts(f)})
         /\ Seen'[f] = Outcome({row'[a].state : a \in Attempts(f)'})
BY DEF Seen, Attempts, Fingerprints

(* It follows from the states of the attempts behind it.                    *)
LEMMA SeenNow ==
  ASSUME NEW f \in Fingerprints,
         \A a \in Attempts(f) : row[a].state \in ActiveStates \cup FinalStates
  PROVE  LET Active == \E a \in Attempts(f) : row[a].state \in ActiveStates
             Accepts == \E a \in Attempts(f) : row[a].state = "accepted"
         IN  /\ Active => Seen[f] = "preparing"
             /\ ~Active /\ Accepts => Seen[f] = "accepted"
             /\ ~Active /\ ~Accepts /\ Attempts(f) # {} => Seen[f] = "failed"
             /\ Attempts(f) = {} => Seen[f] = "none"
<1>1. PICK S, r : S = Attempts(f) /\ r = row
  OBVIOUS
<1>2. Seen[f] = Outcome({r[a].state : a \in S})
  BY <1>1, SeenIs
<1>3. \A a \in S : r[a].state \in ActiveStates \cup FinalStates
  BY <1>1
<1> DEFINE o == Outcome({r[a].state : a \in S})
           Active == \E a \in S : r[a].state \in ActiveStates
           Accepts == \E a \in S : r[a].state = "accepted"
<1>4. /\ Active => o = "preparing"
      /\ ~Active /\ Accepts => o = "accepted"
      /\ ~Active /\ ~Accepts /\ S # {} => o = "failed"
      /\ S = {} => o = "none"
  BY <1>3, OutcomeIs
<1>5. o = Seen[f]
  BY <1>2
<1> HIDE DEF o
<1> QED BY <1>1, <1>4, <1>5

(* So it does in the next state.                                            *)
LEMMA SeenNext ==
  ASSUME NEW f \in Fingerprints,
         \A a \in Attempts(f)' : row'[a].state \in ActiveStates \cup FinalStates
  PROVE  LET Active == \E a \in Attempts(f)' : row'[a].state \in ActiveStates
             Accepts == \E a \in Attempts(f)' : row'[a].state = "accepted"
         IN  /\ Active => Seen'[f] = "preparing"
             /\ ~Active /\ Accepts => Seen'[f] = "accepted"
             /\ ~Active /\ ~Accepts /\ Attempts(f)' # {} => Seen'[f] = "failed"
<1>1. PICK S, r : S = Attempts(f)' /\ r = row'
  OBVIOUS
<1>2. Seen'[f] = Outcome({r[a].state : a \in S})
  BY <1>1, SeenIs
<1>3. \A a \in S : r[a].state \in ActiveStates \cup FinalStates
  BY <1>1
<1> DEFINE o == Outcome({r[a].state : a \in S})
           Active == \E a \in S : r[a].state \in ActiveStates
           Accepts == \E a \in S : r[a].state = "accepted"
<1>4. /\ Active => o = "preparing"
      /\ ~Active /\ Accepts => o = "accepted"
      /\ ~Active /\ ~Accepts /\ S # {} => o = "failed"
      /\ S = {} => o = "none"
  BY <1>3, OutcomeIs
<1>5. o = Seen'[f]
  BY <1>2
<1> HIDE DEF o
<1> QED BY <1>1, <1>4, <1>5

(* The attempts behind a fingerprint are under way or final.                *)
LEMMA Behind ==
  ASSUME TypeOK, Named, NEW f \in Fingerprints, NEW a \in Attempts(f)
  PROVE  row[a].state \in ActiveStates \cup FinalStates /\ a \in Ids
<1>1. a \in Ids /\ row[a].setup \in Setups /\ row[a] \in Attempt
  BY DEF Attempts, Fingerprints, TypeOK
<1>2. row[a].state # "none"
  BY <1>1, IdsAssumption DEF Named
<1> QED BY <1>1, <1>2 DEF Attempt

(* A fingerprint whose attempts a step leaves alone is seen as before.      *)
LEMMA SeenElsewhere ==
  ASSUME NEW f \in Fingerprints, Attempts(f)' = Attempts(f),
         \A a \in Attempts(f) : row'[a] = row[a]
  PROVE  Seen'[f] = Seen[f]
<1>1. {row'[a].state : a \in Attempts(f)'} = {row[a].state : a \in Attempts(f)}
  OBVIOUS
<1> QED BY <1>1, SeenIs

(* A view that changes at one fingerprint.                                  *)
LEMMA SeenChange ==
  ASSUME NEW f \in Fingerprints, NEW s, Seen'[f] = s,
         \A g \in Fingerprints \ {f} : Seen'[g] = Seen[g]
  PROVE  Seen' = [Seen EXCEPT ![f] = s]
<1>1. Seen = [g \in Fingerprints |-> Seen[g]] /\ Seen' = [g \in Fingerprints |-> Seen'[g]]
  BY DEF Seen, Fingerprints
<1> QED BY <1>1

(* Fewer fingerprints are seen in preparation than attempts are active.     *)
LEMMA UnderwayCount ==
  ASSUME TypeOK, Named, UnderQuota
  PROVE  Cardinality(Contract!Underway) < MaxActive
<1> DEFINE A == {a \in Ids : IsActive(a)}
           h == [a \in A |-> <<row[a].setup, row[a].version>>]
           I == {h[a] : a \in A}
<1>1. IsFiniteSet(A) /\ Cardinality(A) \in Nat
  <2>1. IsFiniteSet(Ids)
    BY FS_Interval, LimitsAssumption DEF Ids
  <2>2. A \in SUBSET Ids
    OBVIOUS
  <2> HIDE DEF A
  <2> QED BY <2>1, <2>2, FS_Subset, FS_CardinalityType
<1>2. h \in Surjection(A, I)
  BY DEF Surjection
<1>3. IsFiniteSet(I) /\ Cardinality(I) <= Cardinality(A)
  <2> HIDE DEF A, h, I
  <2> QED BY <1>1, <1>2, FS_Surjection
<1>4. Contract!Underway \in SUBSET I
  <2> SUFFICES ASSUME NEW f \in Fingerprints, Seen[f] = "preparing"
               PROVE  f \in I
    BY DEF Contract!Underway
  <2>1. PICK a \in Attempts(f) : row[a].state \in ActiveStates
    <3>1. \A a \in Attempts(f) : row[a].state \in ActiveStates \cup FinalStates
      BY Behind
    <3> QED BY <3>1, SeenNow
  <2>2. a \in A /\ f = <<row[a].setup, row[a].version>>
    BY <2>1 DEF Attempts, Fingerprints, IsActive
  <2> QED BY <2>2
<1>5. Cardinality(Contract!Underway) <= Cardinality(I) /\ IsFiniteSet(Contract!Underway)
  <2> HIDE DEF I
  <2> QED BY <1>3, <1>4, FS_Subset
<1>6. Cardinality(Contract!Underway) \in Nat /\ Cardinality(I) \in Nat
  <2> HIDE DEF I
  <2> QED BY <1>3, <1>5, FS_CardinalityType
<1> QED BY <1>1, <1>3, <1>5, <1>6, LimitsAssumption DEF UnderQuota

(* A reservation prepares a fingerprint that has no usable attempt.         *)
LEMMA ReservationSeen ==
  ASSUME TypeOK, Named, Named', TypeOK', ReservesOne
  PROVE  Contract!Next
<1>1. PICK a \in Ids, s \in Setups :
        /\ row[a] = NoAttempt /\ Reusable(s) = {} /\ UnderQuota
        /\ row' = [row EXCEPT ![a] = Queued(s)]
  BY DEF ReservesOne
<1>2. PICK f \in Fingerprints : f = <<s, version>>
  BY DEF Fingerprints, TypeOK
<1>3. /\ row'[a].setup = s /\ row'[a].version = version /\ row'[a].state = "queued"
      /\ \A d \in Ids \ {a} : row'[d] = row[d]
      /\ row[a].setup = None
  BY <1>1 DEF TypeOK, Queued, NoAttempt
<1>4. ASSUME NEW g \in Fingerprints \ {f}
      PROVE  Seen'[g] = Seen[g]
  <2>1. a \notin Attempts(g)
    BY <1>3, IdsAssumption DEF Attempts, Fingerprints
  <2>2. a \notin Attempts(g)'
    BY <1>2, <1>3 DEF Attempts, Fingerprints
  <2>3. Attempts(g)' = Attempts(g) /\ \A d \in Attempts(g) : row'[d] = row[d]
    BY <1>3, <2>1, <2>2 DEF Attempts
  <2> QED BY <2>3, SeenElsewhere
<1>5. Seen'[f] = "preparing"
  <2>1. a \in Attempts(f)'
    BY <1>2, <1>3 DEF Attempts
  <2>2. \A d \in Attempts(f)' : row'[d].state \in ActiveStates \cup FinalStates
    <3>1. \A d \in Attempts(f)' : d \in Ids /\ row'[d].setup \in Setups
                                 /\ row'[d] \in Attempt
      BY DEF Attempts, Fingerprints, TypeOK
    <3>2. \A d \in Attempts(f)' : row'[d].state # "none"
      BY <3>1, IdsAssumption DEF Named
    <3> QED BY <3>1, <3>2 DEF Attempt
  <2>3. \E d \in Attempts(f)' : row'[d].state \in ActiveStates
    BY <1>3, <2>1 DEF ActiveStates
  <2> QED BY <2>2, <2>3, SeenNext
<1>6. Seen[f] \in {"none", "failed"}
  <2>1. \A d \in Attempts(f) : row[d].state \in ActiveStates \cup FinalStates
    BY Behind
  <2>2. \A d \in Attempts(f) : row[d].state \notin ActiveStates \cup {"accepted"}
    BY <1>1, <1>2 DEF Reusable, Matching, Attempts
  <2> QED BY <2>1, <2>2, SeenNow
<1>7. Seen' = [Seen EXCEPT ![f] = "preparing"]
  BY <1>4, <1>5, SeenChange
<1>8. Contract!Prepare(f)
  <2>1. Cardinality(Contract!Underway) < MaxActive
    BY <1>1, UnderwayCount
  <2>2. \A S : Contract!Cardinality(S) = Cardinality(S)
    BY DEF Contract!Cardinality, Cardinality
  <2> QED BY <1>6, <1>7, <2>1, <2>2 DEF Contract!Prepare
<1> QED BY <1>8 DEF Contract!Next

(* Rewriting an unfinished attempt finishes its fingerprint, or nothing.    *)
LEMMA RewriteSeen ==
  ASSUME TypeOK, Named, OneUsablePerFingerprint, RewritesActive
  PROVE  Contract!Next \/ Seen' = Seen
<1>1. PICK a \in Ids, p \in Attempt :
        /\ IsActive(a) /\ p.setup = row[a].setup /\ p.version = row[a].version
        /\ p.state # "none" /\ row' = [row EXCEPT ![a] = p]
  BY DEF RewritesActive
<1>2. row[a].setup \in Setups /\ row[a].version \in Versions
  BY <1>1 DEF Named, IsActive, ActiveStates
<1>3. PICK f \in Fingerprints : f = <<row[a].setup, row[a].version>>
  BY <1>2 DEF Fingerprints
<1>4. row'[a] = p /\ \A d \in Ids \ {a} : row'[d] = row[d]
  BY <1>1 DEF TypeOK
<1>5. \A g \in Fingerprints : Attempts(g)' = Attempts(g)
  BY <1>1, <1>4 DEF Attempts
<1>6. a \in Attempts(f) /\ \A g \in Fingerprints \ {f} : a \notin Attempts(g)
  BY <1>3 DEF Attempts, Fingerprints
<1>7. ASSUME NEW g \in Fingerprints \ {f}
      PROVE  Seen'[g] = Seen[g]
  <2>1. \A d \in Attempts(g) : row'[d] = row[d]
    BY <1>4, <1>6 DEF Attempts
  <2> QED BY <1>5, <2>1, SeenElsewhere
<1>8. \A d \in Attempts(f) \ {a} : row[d].state = "failed"
  <2> SUFFICES ASSUME NEW d \in Attempts(f) \ {a} PROVE row[d].state = "failed"
    OBVIOUS
  <2>1. row[d].state \in ActiveStates \cup FinalStates /\ d \in Ids
    BY Behind
  <2>2. row[d].setup = row[a].setup /\ row[d].version = row[a].version
    BY <1>3 DEF Attempts
  <2>3. row[d].state \notin ActiveStates \cup {"accepted"}
    BY <1>1, <2>1, <2>2 DEF OneUsablePerFingerprint, IsActive
  <2> QED BY <2>1, <2>3 DEF FinalStates
<1>9. \A d \in Attempts(f)' \ {a} : row'[d].state = "failed"
  BY <1>4, <1>5, <1>8 DEF Attempts
<1>10. a \in Attempts(f)' /\ row'[a].state = p.state
       /\ p.state \in ActiveStates \cup FinalStates
  BY <1>1, <1>4, <1>5, <1>6 DEF Attempt
<1>11. \A d \in Attempts(f)' : row'[d].state \in ActiveStates \cup FinalStates
  BY <1>9, <1>10 DEF FinalStates
<1>12. Seen[f] = "preparing"
  <2>1. \A d \in Attempts(f) : row[d].state \in ActiveStates \cup FinalStates
    BY Behind
  <2> QED BY <1>1, <1>6, <2>1, SeenNow DEF IsActive
<1>13. CASE p.state \in ActiveStates
  <2>1. Seen'[f] = "preparing"
    BY <1>10, <1>11, <1>13, SeenNext
  <2>2. Seen' = [Seen EXCEPT ![f] = "preparing"]
    BY <1>7, <2>1, SeenChange
  <2>3. Seen = [g \in Fingerprints |-> Seen[g]]
    BY DEF Seen
  <2> QED BY <1>12, <2>2, <2>3
<1>14. CASE p.state \in FinalStates
  <2>1. ~(\E d \in Attempts(f)' : row'[d].state \in ActiveStates)
    BY <1>9, <1>10, <1>14 DEF ActiveStates, FinalStates
  <2>2. Seen'[f] = p.state
    <3>1. CASE p.state = "accepted"
      BY <1>10, <1>11, <2>1, <3>1, SeenNext
    <3>2. CASE p.state = "failed"
      <4>1. ~(\E d \in Attempts(f)' : row'[d].state = "accepted")
        BY <1>9, <1>10, <3>2
      <4> QED BY <1>10, <1>11, <2>1, <3>2, <4>1, SeenNext
    <3> QED BY <1>14, <3>1, <3>2 DEF FinalStates
  <2>3. Seen' = [Seen EXCEPT ![f] = p.state]
    BY <1>7, <2>2, SeenChange
  <2>4. Contract!Finish(f)
    BY <1>12, <1>14, <2>3 DEF Contract!Finish, FinalStates
  <2> QED BY <2>4 DEF Contract!Next
<1> QED BY <1>10, <1>13, <1>14

(* Every step of the service is one of the contract, or none.               *)
LEMMA ContractStep ==
  ASSUME IInv, Named, [Next]_vars
  PROVE  Contract!Next \/ Seen' = Seen
<1>1. RowWrites /\ TypeOK' /\ Named'
  BY RowStep, TypeStep, NamedStep DEF IInv
<1>2. CASE UNCHANGED row
  BY <1>2 DEF Seen, Attempts
<1>3. CASE ReservesOne
  BY <1>1, <1>3, ReservationSeen DEF IInv
<1>4. CASE RewritesActive
  BY <1>4, RewriteSeen DEF IInv
<1> QED BY <1>1, <1>2, <1>3, <1>4 DEF RowWrites

(* At the start nothing is prepared.                                        *)
LEMMA ContractInit ==
  ASSUME Init
  PROVE  Contract!Init /\ Named
<1>1. \A a \in Ids : row[a] = NoAttempt
  BY DEF Init
<1>2. Named
  BY <1>1 DEF Named, NoAttempt
<1>3. ASSUME NEW f \in Fingerprints
      PROVE  Seen[f] = "none"
  <2>1. Attempts(f) = {}
    BY <1>1, IdsAssumption DEF Attempts, NoAttempt, Fingerprints
  <2> QED BY <2>1, SeenNow
<1>4. Seen = [f \in Fingerprints |-> "none"]
  BY <1>3 DEF Seen
<1> QED BY <1>2, <1>4 DEF Contract!Init

(* The service keeps the contract on preparations: seen by fingerprint, an  *)
(* acceptance is final, only a failure is prepared again, and the tenant's  *)
(* limit is never exceeded, whatever stops, retries or deployments happen.  *)
THEOREM Refinement == Spec => ImplementsContract
<1>1. Init => Contract!Init /\ Named
  BY ContractInit
<1>2. IInv /\ Named /\ [Next]_vars => Named' /\ [Contract!Next]_Seen
  <2> SUFFICES ASSUME IInv, Named, [Next]_vars
               PROVE  Named' /\ (Contract!Next \/ Seen' = Seen)
    OBVIOUS
  <2>1. Named'
    BY RowStep, NamedStep DEF IInv
  <2> QED BY <2>1, ContractStep
<1> QED BY <1>1, <1>2, Invariance, PTL
     DEF Spec, ImplementsContract, Contract!Safety
=============================================================================
