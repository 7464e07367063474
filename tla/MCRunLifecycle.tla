--------------------------- MODULE MCRunLifecycle ---------------------------
(***************************************************************************)
(* RunLifecycle on small instances: what the cfg files give to TLC.         *)
(***************************************************************************)
EXTENDS RunLifecycle

MCTrainers == {"sb3", "mjx"}
=============================================================================
