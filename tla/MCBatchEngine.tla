--------------------------- MODULE MCBatchEngine ---------------------------
(* Instances of BatchEngine for TLC. *)
EXTENDS BatchEngine, TLC

CONSTANTS c1, c2
MCCallers == {c1, c2}
CallerSymmetry == Permutations(MCCallers)
=============================================================================
