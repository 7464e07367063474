----------------------------- MODULE MCCampaign -----------------------------
(***************************************************************************)
(* Campaign on small instances: what the cfg files give to TLC.  The second *)
(* seed ranks highest, and only its extension reaches the preferred target. *)
(***************************************************************************)
EXTENDS Campaign, TLC

CONSTANTS seedA, seedB, w1, i1, i2

MCSeeds == {seedA, seedB}
MCWatchers == {w1}
MCNoWatchers == {}
MCImages == {i1, i2}
MCSymmetry == Permutations(MCImages)
MCKeys == {<<seedA, "base">>, <<seedB, "base">>, <<seedB, "extension">>}
MCAllKeys == {seedA, seedB} \X {"base", "extension"}
ScoreOf(k) == (IF k[1] = seedA THEN 0 ELSE 1) + (IF k[2] = "base" THEN 0 ELSE 2)
MCScore == [k \in MCKeys |-> ScoreOf(k)]
MCAllScore == [k \in MCAllKeys |-> ScoreOf(k)]
MCPreferred == {<<seedB, "extension">>}
=============================================================================
