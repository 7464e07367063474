---------------------------- MODULE MCCurriculum ----------------------------
(***************************************************************************)
(* A curriculum of a few steps: a flat phase of two, a ceiling of four and *)
(* a pilot of one, checkpoints at every step, two episodes of which one    *)
(* must reach the horizon, two possible bindings, three containers.        *)
(***************************************************************************)
EXTENDS Curriculum

\* In units of MinVelocity, and of half of it.
FallsOrCrawls == {-1, 1}
FallsOrWalks == {-1, 5}
=============================================================================
