----------------------------- MODULE MCTwoRuns -----------------------------
(* TwoRuns on small instances. *)
EXTENDS TwoRuns, TLC

SingleDeploys == {{b} : b \in Build}

Whole == [b \in Build |-> Features]

Symmetry == Permutations(Loop) \cup Permutations(Build)

(* the state without the histories *)
Forgetting == <<loop, mounts, directory, one, other, early>>
=============================================================================
