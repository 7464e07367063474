--------------------------- MODULE MCTrainingJobs ---------------------------
(***************************************************************************)
(* TrainingJobs on small instances: what the cfg files give to TLC.         *)
(***************************************************************************)
EXTENDS TrainingJobs

CONSTANTS j1, j2, t1, k1, k2

MCJobs == {j1, j2}
MCTenants == {t1}
MCKeys == {k1, k2}
=============================================================================
