----------------------------- MODULE MCShowcase -----------------------------
(***************************************************************************)
(* Showcase on a small instance: a locomotion example with phases, a plain  *)
(* one, and two runs.  Deployments pin the first run to either example, to  *)
(* both by mistake, or to none; the second is the reviewed recording.       *)
(***************************************************************************)
EXTENDS Showcase

CONSTANTS g1, hopper, r1, recording, h1, h2

MCExamples == {g1, hopper}
MCThreads == {h1, h2}
MCEnvironment == [e \in MCExamples |-> IF e = g1 THEN "G1ForwardRoughTerrain" ELSE "Hopper-v5"]
MCBackend == [e \in MCExamples |-> IF e = g1 THEN "mjx" ELSE "sb3"]
MCPhases == [e \in {g1} |-> {"G1ForwardFlatTerrain", "G1ForwardRoughTerrain"}]
MCRecordings == {[example |-> g1, run |-> recording, environment |-> "G1JoystickRoughTerrain",
                  phases |-> {"G1JoystickFlatTerrain", "G1JoystickRoughTerrain"}]}

\* What a run of e published: its artifacts, its verdict and the numbers behind
\* it, and the digest of its selected policy.  evaluate.py gives a locomotion
\* run a criterion that cannot be checked.
Finalized(e, files, met, reached, selected) ==
  [artifacts |-> files, described |-> TRUE,
   environment |-> MCEnvironment[e], backend |-> MCBackend[e],
   met |-> met, reached |-> reached, checkable |-> e # g1,
   measured |-> TRUE, hard |-> TRUE,
   selected |-> selected, seeds |-> [selection |-> {1}, final |-> {2}],
   phases |-> {MCEnvironment[e]}, marked |-> {1}]
Whole == {"policy", "video"}

\* The reviewed recording missed its criterion.
Recorded ==
  [artifacts |-> Whole, described |-> TRUE,
   environment |-> "G1JoystickRoughTerrain", backend |-> "mjx",
   met |-> FALSE, reached |-> FALSE, checkable |-> FALSE,
   measured |-> TRUE, hard |-> FALSE,
   selected |-> 1, seeds |-> [selection |-> {1}, final |-> {2}],
   phases |-> {"G1JoystickFlatTerrain"}, marked |-> {1}]

\* Besides good runs: one without its video, one of either example whose
\* verdict its numbers contradict, which is noticed of hopper only, and one
\* whose published policy is not the selected one.
MCManifests ==
  [r \in {r1, recording} |->
     IF r = recording THEN {Recorded}
     ELSE {Finalized(hopper, Whole, TRUE, TRUE, 1), Finalized(g1, Whole, TRUE, TRUE, 1),
           Finalized(hopper, {"policy"}, TRUE, TRUE, 1),
           Finalized(hopper, Whole, TRUE, FALSE, 1),
           Finalized(g1, Whole, TRUE, FALSE, 1), Finalized(g1, Whole, TRUE, TRUE, 2)}]
MCPinnings == [MCExamples -> {r1, None}] \union
              {[e \in MCExamples |-> IF e = g1 THEN recording ELSE r1]}
=============================================================================
