------------------------------ MODULE Episodes ------------------------------
(***************************************************************************)
(* What a policy's rollouts are turned into: an episode per seed           *)
(* (train_mjx.evaluate_mjx, classify_g1_termination), the rank of a        *)
(* checkpoint among its siblings and the selection                         *)
(* (checkpoint_selection.py), the acceptance criteria, and the gates of    *)
(* the G1 curriculum (g1_curriculum.py).  Pure operators: no state.        *)
(*                                                                         *)
(* The physics is a rollout: the step at which the environment says done   *)
(* (0: not within the horizon), the cause it shows and the robot's mean    *)
(* speed, an integer; a robot that falls may go backwards.  Rewards are    *)
(* left out: every rank looks at them after the speeds.  All candidates    *)
(* of a selection have the same episodes, so a sum orders as a mean does.  *)
(***************************************************************************)
EXTENDS Integers, FiniteSets, Sequences, FiniteSetsExt

CONSTANTS Horizon,       \* steps of a full episode (1000 in the code)
          MinVelocity,   \* the speed the gates ask for (0.4)
          Velocities     \* the mean speeds a robot may have

Rollouts == [done : 0..Horizon, cause : {"nan_state", "torso_inversion"},
             speed : Velocities]

TerminationReason(r) == IF r.done = 0 THEN "horizon" ELSE r.cause

\* An episode that ends in its last step is as long as a full one, and fell.
Episode(r) == [length |-> IF r.done = 0 THEN Horizon ELSE r.done,
               fell |-> r.done # 0,
               reason |-> TerminationReason(r),
               velocity |-> r.speed]

Full(e) == e.length >= Horizon
Survived(e) == e.reason = "horizon" /\ ~e.fell

\* E is a function from episode indices to episodes.
Count(E, Holds(_)) == Cardinality({k \in DOMAIN E : Holds(E[k])})
Speeds(E) == {E[k].velocity : k \in DOMAIN E}
Lengths(E) == MapThenSumSet(LAMBDA k : E[k].length, DOMAIN E)
SpeedSum(E) == FoldSet(LAMBDA k, s : s + E[k].velocity, 0, DOMAIN E)

\* The measurements acceptance and ranking read.
Aggregate(E) == [no_fall_count |-> Count(E, LAMBDA e : ~e.fell),
                 min_velocity |-> Min(Speeds(E)),
                 length_sum |-> Lengths(E),
                 velocity_sum |-> SpeedSum(E)]

\* The later elements of a rank only break ties of the earlier ones.
Outranks(s, t) == \E i \in DOMAIN s : /\ s[i] > t[i]
                                      /\ \A j \in 1..(i - 1) : s[j] = t[j]

\* Rank of locomotion evidence; an earlier checkpoint wins a tie.
RankKey(E, step) ==
  LET a == Aggregate(E)
  IN  <<a.no_fall_count, a.min_velocity, a.length_sum, a.velocity_sum, -step>>

\* The candidates no other outranks, one alone when their steps differ;
\* evidence maps candidates to episodes.
SelectCheckpoint(evidence) ==
  {c \in DOMAIN evidence :
    \A d \in DOMAIN evidence \ {c} :
      ~Outranks(RankKey(evidence[d], d.step), RankKey(evidence[c], c.step))}

\* Acceptance of final evidence: episodes, required_horizons, min_velocity.
Accepted(E, episodes, required) ==
  /\ Cardinality(DOMAIN E) = episodes
  /\ Aggregate(E).no_fall_count >= required
  /\ Aggregate(E).min_velocity >= MinVelocity

\* The flat gate looks at the speeds of the full-length episodes only.
FlatGate(E, required) ==
  LET full == {k \in DOMAIN E : Full(E[k])}
  IN  /\ Cardinality(full) >= required
      /\ Count(E, Survived) >= required
      /\ full # {}
      /\ \A k \in full : E[k].velocity >= MinVelocity

\* The pilot gate: half of the episodes, a mean length, no invalid state.
PilotGate(E, meanLength) ==
  /\ 2 * Count(E, LAMBDA e : e.reason = "horizon" /\ Full(e))
       >= Cardinality(DOMAIN E)
  /\ Lengths(E) >= meanLength * Cardinality(DOMAIN E)
  /\ Min(Speeds(E)) >= MinVelocity
  /\ Count(E, LAMBDA e : e.reason = "nan_state") = 0

\* A parent of the diagnostic sweep never falls and never stands still.
EligibleParent(E) ==
  \A k \in DOMAIN E : /\ E[k].reason = "horizon" /\ Full(E[k])
                      /\ E[k].velocity >= MinVelocity

\* The sweep ranks full episodes before their lengths.
DiagnosticKey(E, step) ==
  <<Count(E, LAMBDA e : e.reason = "horizon" /\ Full(e)), Lengths(E),
    Min(Speeds(E)), SpeedSum(E), -step>>
=============================================================================
