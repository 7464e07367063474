-------------------------- MODULE CheckpointFiles --------------------------
(***************************************************************************)
(* The checkpoint files of one run tree (checkpoint.py): a directory maps   *)
(* the name of a checkpoint to its bytes and to the digest its sidecar      *)
(* declares.  A digest is the identity of the bytes, so both are tokens;    *)
(* None stands for a file that is not there.                                *)
(***************************************************************************)
EXTENDS Integers, FiniteSets

CONSTANTS
  None,  \* an absent file
  Total  \* config.training.total_steps, counted in checkpoint intervals

ASSUME TotalAssumption == Total \in Nat \ {0}

Kinds == {"initial", "step", "final", "interrupted"}

\* The names STEP_PATTERN matches; the alias final.zip is not one of them.
Names == [kind : Kinds, step : 0..Total]

NoFile == [data |-> None, meta |-> None]

\* One directory: every name to its two files.
EmptyTree == [n \in Names |-> NoFile]

\* A file saved here gets a sidecar with its own digest.
Saved(dir, n, token) == [dir EXCEPT ![n] = [data |-> token, meta |-> token]]

\* load_checkpoint_metadata: both files are there and the digest is right.
Loadable(dir, n) == dir[n].data # None /\ dir[n].meta = dir[n].data

\* list_step_checkpoints lists a name once its sidecar exists, unread.
Listed(dir) == {n \in Names : dir[n].data # None /\ dir[n].meta # None}

Distance(a, b) == IF a < b THEN b - a ELSE a - b

\* The order sorted() gives names of equal step: by file name.
Alphabetical == [final |-> 1, initial |-> 2, interrupted |-> 3, step |-> 4]

Before(m, n) == \/ m.step < n.step
                \/ /\ m.step = n.step
                   /\ Alphabetical[m.kind] < Alphabetical[n.kind]

\* The name of the least rank; among equal ranks the first listed.
FirstBy(S, rank) ==
  CHOOSE n \in S : \A m \in S \ {n} :
    rank[n] < rank[m] \/ (rank[n] = rank[m] /\ Before(n, m))

\* progression_checkpoints: the least step, the one nearest a quarter of the
\* budget, the greatest step.
Progression(dir) ==
  LET listed == Listed(dir)
  IN [initial |-> FirstBy(listed, [n \in Names |-> n.step]),
      quarter |-> FirstBy(listed, [n \in Names |-> Distance(4 * n.step, Total)]),
      final |-> FirstBy(listed, [n \in Names |-> Total - n.step])]

\* checkpoint_by_digest loads every listed checkpoint and wants one match.
ByDigest(dir, digest) == {n \in Listed(dir) : dir[n].data = digest}

ResolvesUniquely(dir, digest) ==
  /\ \A n \in Listed(dir) : Loadable(dir, n)
  /\ Cardinality(ByDigest(dir, digest)) = 1
=============================================================================
