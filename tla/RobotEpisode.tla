---------------------------- MODULE RobotEpisode ----------------------------
(***************************************************************************)
(* One episode of the custom-robot environment (custom_robot_env.py), the  *)
(* evaluation of a policy over its seeds and the ranking of checkpoints    *)
(* (custom_robot_job.py).  Pure operators: no state.                       *)
(*                                                                         *)
(* The physics is a trace of samples, one per control step: what the       *)
(* simulator shows after it.  A sample may be diverged in the joints while *)
(* the root looks well; lengths are in the units of the contract, speeds   *)
(* in lengths per step, rates and fractions in per cent.  The weighted     *)
(* reward terms of a step are one number, `pay`.                           *)
(***************************************************************************)
EXTENDS Integers, Sequences, FiniteSets

CONSTANTS Task,        \* "stand-balance", "walk-forward", "recover-from-fall"
          Contract,    \* the entry of TASK_CONTRACTS
          RunawayAt,   \* MAX_ROOT_DISTANCE
          Stride,      \* EVALUATION_SEED_STRIDE
          Threshold    \* TASK_SUCCESS_RATE_THRESHOLD, in per cent

Distance(a, b) == IF a < b THEN b - a ELSE a - b

-----------------------------------------------------------------------------
\* The episode.

\* reset: the reference height is the settled one, or the authored one for
\* the task that starts fallen (settle_steps = 0).
Reset(settled) ==
  [steps |-> 0, unsupported |-> 0, stance |-> 0, reward |-> 0,
   reference |-> IF Contract.settle_steps > 0 THEN settled.height
                                             ELSE Contract.authored_height,
   x0 |-> settled.x, y0 |-> settled.y, last |-> settled, reason |-> "running"]

Runaway(e, s) == s.fast \/ Distance(s.x, e.x0) > RunawayAt
                        \/ Distance(s.y, e.y0) > RunawayAt
Fallen(e, s) ==
  \/ 100 * s.height < e.reference * Contract.fall_height_scale
  \/ s.upright < Contract.minimum_upright
\* Falling ends an episode, except of the task that starts fallen.
FallTerminates(e, s) == Fallen(e, s) /\ Task # "recover-from-fall"

TerminationReason(e, s) ==
  CASE ~s.finite -> "non_finite"
    [] s.finite /\ Runaway(e, s) -> "runaway"
    [] s.finite /\ ~Runaway(e, s) /\ FallTerminates(e, s) -> "fall"
    [] OTHER -> IF e.steps + 1 >= Contract.episode_steps THEN "horizon"
                                                         ELSE "running"
Terminated(reason) == reason \in {"non_finite", "runaway", "fall"}

Step(e, s) ==
  LET reason == TerminationReason(e, s)
  IN  [e EXCEPT !.steps = @ + 1,
                !.unsupported = @ + (IF s.unsupported THEN 1 ELSE 0),
                !.stance = @ + s.stance,
                !.reward = @ + s.pay - (IF Terminated(reason) THEN 1 ELSE 0),
                !.last = s,
                !.reason = reason]

\* Whoever steps the environment stops when it is done.
Advance(e, s) == IF e.reason = "running" THEN Step(e, s) ELSE e
Played(settled, trace) ==
  LET after[k \in 0..Len(trace)] ==
        IF k = 0 THEN Reset(settled) ELSE Advance(after[k - 1], trace[k])
  IN  after
Play(settled, trace) == Played(settled, trace)[Len(trace)]

TargetHeight(e) == e.reference * Contract.target_height_scale   \* per cent

\* Posture of a standing robot at the last sample.
StandsTall(e) ==
  IF Task = "recover-from-fall"
  THEN e.last.height * 100 >= e.reference * Contract.success_height_scale
  ELSE 100 * Distance(100 * e.last.height, TargetHeight(e))
         <= TargetHeight(e) * Contract.success_height_tolerance

\* Walking is judged over the episode: to the horizon, far enough, on line.
Walked(e) ==
  /\ e.steps >= Contract.episode_steps
  /\ e.last.x - e.x0 >= Contract.success_min_velocity * e.steps
  /\ Distance(e.last.y, e.y0) <= Contract.success_max_lateral_drift
  /\ 10000 * e.last.height
       >= TargetHeight(e) * Contract.success_min_height_of_target

\* Feet under the body, and the weight on the feet, over the episode.
OnItsFeet(e) ==
  /\ e.stance <= Contract.success_max_stance_offset * e.steps
  /\ 100 * e.unsupported <= Contract.success_max_unsupported_contact * e.steps

\* The task that starts fallen states no bound on either.
Success(e) ==
  /\ ~Fallen(e, e.last)
  /\ Task = "recover-from-fall" \/ OnItsFeet(e)
  /\ IF Task = "walk-forward" THEN Walked(e)
     ELSE /\ e.last.upright >= Contract.success_upright
          /\ StandsTall(e)
          /\ e.last.speed <= Contract.success_max_root_speed

-----------------------------------------------------------------------------
\* Evaluation.

evaluation_seeds(base, episodes) ==
  [i \in 1..episodes |-> base[((i - 1) % Len(base)) + 1]
                           + ((i - 1) \div Len(base)) * Stride]

Rewards(played) ==
  LET upTo[k \in 0..Len(played)] ==
        IF k = 0 THEN 0 ELSE upTo[k - 1] + played[k].reward
  IN  upTo

\* played: the episode of each index.
EvaluatePolicy(base, played) ==
  LET n == Len(played)
      Rate(Holds(_)) ==
        (100 * Cardinality({i \in 1..n : Holds(played[i])})) \div n
  IN  [seeds |-> evaluation_seeds(base, n),
       success_rate |-> Rate(Success),
       fall_rate |-> Rate(LAMBDA e : Fallen(e, e.last)),
       reward |-> Rewards(played)[n],
       task_threshold_achieved |-> Rate(Success) >= Threshold]

RankOnReward(a) == <<a.reward, a.success_rate>>                      \* mutant
checkpoint_rank(a) == <<a.success_rate, a.reward>>

Better(a, b) == LET r == checkpoint_rank(a)
                    q == checkpoint_rank(b)
                IN  r[1] > q[1] \/ (r[1] = q[1] /\ r[2] > q[2])
=============================================================================
