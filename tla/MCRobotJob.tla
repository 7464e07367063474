----------------------------- MODULE MCRobotJob -----------------------------
(***************************************************************************)
(* RobotJob on a small instance: one robot and setup, two releases of the   *)
(* backend and two images, episodes of three steps.                        *)
(***************************************************************************)
EXTENDS RobotJob, TLC

CONSTANTS robot, setup, r1, r2, i1, i2

MCReleaseOf == (i1 :> r1) @@ (i2 :> r2)
MCSupports == (r1 :> {setup}) @@ (r2 :> {setup})
\* The backend of r1 with either image, and its successor.
MCDeployments == {[release |-> r1, image |-> i1], [release |-> r1, image |-> i2],
                  [release |-> r2, image |-> i2]}

\* Walking: three steps of one length, on line, upright, on the feet.
MCContract ==
  [settle_steps |-> 1, authored_height |-> 10, episode_steps |-> 3,
   fall_height_scale |-> 35, minimum_upright |-> 40, target_height_scale |-> 55,
   success_min_velocity |-> 1, success_max_lateral_drift |-> 1,
   success_min_height_of_target |-> 80, success_max_stance_offset |-> 1,
   success_max_unsupported_contact |-> 25]

At(x, height, pay) ==
  [finite |-> TRUE, fast |-> FALSE, x |-> x, y |-> 0, height |-> height,
   upright |-> 100, speed |-> 1, unsupported |-> FALSE, stance |-> 0, pay |-> pay]
MCSettled == At(0, 10, 0)
\* A walk, a richer crouch that gets nowhere, a stumble that gets up.
MCMotions == {<<At(1, 10, 1), At(2, 10, 1), At(3, 10, 1)>>,
              <<At(0, 6, 2), At(0, 6, 2), At(0, 6, 2)>>,
              <<At(1, 3, 1), At(2, 10, 1), At(3, 10, 1)>>}
MCProgressSeeds == <<7, 10>>
MCFinalSeeds == <<3, 2>>
=============================================================================
