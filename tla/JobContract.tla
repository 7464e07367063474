---------------------------- MODULE JobContract ----------------------------
(***************************************************************************)
(* What the service promises a tenant about a training job, as seen through *)
(* GET /jobs/{id}: the status only moves forward, `completed` is reached    *)
(* only through `finalizing` with the artifact manifest cached, a terminal  *)
(* status never changes, and every accepted job gets one.  Nothing about    *)
(* threads, restarts, polling or the remote provider appears here.          *)
(***************************************************************************)
EXTENDS Naturals

CONSTANT Jobs

VARIABLES status,   \* the lifecycle status of each job
          cached    \* the jobs whose artifact manifest is stored

vars == <<status, cached>>

Lifecycle == <<"queued", "starting", "training", "finalizing">>
Active    == {"queued", "starting", "training", "finalizing"}
Terminal  == {"completed", "failed"}

Init == /\ status = [j \in Jobs |-> "none"]
        /\ cached = {}

Submit(j) == /\ status[j] = "none"
             /\ status' = [status EXCEPT ![j] = "queued"]
             /\ UNCHANGED cached

(* A reconciliation may skip phases it never observed, not return to one.   *)
Advance(j) == \E from, to \in DOMAIN Lifecycle :
                 /\ from < to
                 /\ status[j] = Lifecycle[from]
                 /\ status' = [status EXCEPT ![j] = Lifecycle[to]]
                 /\ UNCHANGED cached

Cache(j) == /\ status[j] = "finalizing"
            /\ cached' = cached \cup {j}
            /\ UNCHANGED status

Complete(j) == /\ status[j] = "finalizing"
               /\ j \in cached
               /\ status' = [status EXCEPT ![j] = "completed"]
               /\ UNCHANGED cached

Fail(j) == /\ status[j] \in Active
           /\ status' = [status EXCEPT ![j] = "failed"]
           /\ UNCHANGED cached

Next == \E j \in Jobs : \/ Submit(j) \/ Advance(j) \/ Cache(j)
                        \/ Complete(j) \/ Fail(j)

Safety == Init /\ [][Next]_vars

Answered == \A j \in Jobs : (status[j] \in Active) ~> (status[j] \in Terminal)

Spec == Safety /\ Answered
=============================================================================
