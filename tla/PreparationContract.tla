------------------------ MODULE PreparationContract ------------------------
(***************************************************************************)
(* What the service promises a tenant about preparations: a setup is        *)
(* prepared for a runtime once at a time; an acceptance is for good, and is *)
(* what every later request is answered with; only after a failure is the   *)
(* setup prepared anew; and no more preparations are under way than the     *)
(* tenant may have.  Nothing about attempts, threads, restarts, reports or  *)
(* the remote provider appears here.                                        *)
(***************************************************************************)
EXTENDS Naturals, FiniteSets

CONSTANTS Fingerprints,   \* what is prepared: setups under runtimes
          MaxActive       \* preparations a tenant may have under way

VARIABLE status           \* of the preparation of each fingerprint

Underway == {f \in Fingerprints : status[f] = "preparing"}

Init == status = [f \in Fingerprints |-> "none"]

Prepare(f) == /\ status[f] \in {"none", "failed"}
              /\ Cardinality(Underway) < MaxActive
              /\ status' = [status EXCEPT ![f] = "preparing"]

Finish(f) == /\ status[f] = "preparing"
             /\ \E s \in {"accepted", "failed"} : status' = [status EXCEPT ![f] = s]

Next == \E f \in Fingerprints : Prepare(f) \/ Finish(f)

Safety == Init /\ [][Next]_status
=============================================================================
