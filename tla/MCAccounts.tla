----------------------------- MODULE MCAccounts -----------------------------
(***************************************************************************)
(* Accounts on a small instance: two addresses, one document that passes    *)
(* the upload checks and some that do not, and environments of which one    *)
(* fits only a quadruped and one stands on no task.                         *)
(***************************************************************************)
EXTENDS Accounts

CONSTANTS ann, bob, h1, h2, c1

MCEmails == {ann, bob}
MCThreads == {h1, h2}
MCClients == {c1}

\* Addresses, threads, codes and row identities are interchangeable.
MCSymmetry == Permutations(MCEmails) \union Permutations(MCThreads)
              \union Permutations(Codes) \union Permutations(RobotIds) \union Permutations(SetupIds)

Hinge(name) == [name |-> name, kind |-> "hinge", onRoot |-> FALSE]
Base == [name |-> "root", kind |-> "free", onRoot |-> TRUE]
Walker ==
  [parses |-> TRUE, tags |-> {"mujoco", "worldbody", "body", "joint", "motor"},
   outside |-> FALSE, roots |-> 1,
   bodies |-> <<[name |-> "torso"], [name |-> "leg"]>>,
   joints |-> <<Base, Hinge("hip")>>,
   geoms |-> <<[name |-> Absent, kind |-> "box"]>>,
   actuators |-> <<[name |-> "drive", joint |-> "hip"]>>]
\* Two joints of one name; an actuator of no joint; only the base is driven.
Twins == [Walker EXCEPT !.joints = <<Base, Hinge("hip"), Hinge("hip")>>]
Unreachable == [Walker EXCEPT !.actuators = <<[name |-> "drive", joint |-> "knee"]>>]
Undriven == [Walker EXCEPT !.actuators = <<[name |-> "drive", joint |-> "root"]>>]
MCUploads ==
  {[type |-> "quadruped", document |-> d] : d \in {Walker, Twins, Unreachable, Undriven}}

Ask(task, scene, objects) == [task |-> task, scene |-> scene, objects |-> objects]
Tall == [type |-> "step", height |-> 80]
MCRequests ==
  {Ask("recover-from-fall", "ramp-course", <<>>), Ask("fly", "flat-arena", <<>>),
   Ask("stand-balance", "flat-arena", <<Tall>>)}
=============================================================================
