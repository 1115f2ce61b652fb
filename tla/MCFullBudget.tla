---------------------------- MODULE MCFullBudget ----------------------------
(* An evidence bar of three, so that a rival may be visited and still be    *)
(* locked under it, and two iterations for a proof to save.                 *)
EXTENDS FullBudget

Symmetry == Permutations(Choice)
=============================================================================
