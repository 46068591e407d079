--------------------------- MODULE MCResourceLocks ---------------------------
(***************************************************************************)
(* An instance of ResourceLocks for TLC: the values of its constants.      *)
(***************************************************************************)
EXTENDS ResourceLocks, TLC

CONSTANTS w1, w2, d1, t1, t2

TwoWorkers == {w1, w2}
OneDevice == {d1}
TwoTasks == {t1, t2}

Symmetry == Permutations(Workers) \cup Permutations(Tasks)
=============================================================================
