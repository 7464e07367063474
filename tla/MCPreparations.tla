--------------------------- MODULE MCPreparations ---------------------------
(***************************************************************************)
(* Preparations on small instances: what the cfg files give to TLC.         *)
(***************************************************************************)
EXTENDS Preparations

CONSTANTS s1, s2, v1, v2

MCSetups == {s1, s2}
MCVersions == {v1, v2}
=============================================================================
