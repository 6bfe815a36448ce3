---------------------------- MODULE MCBaoClient ----------------------------
(* Instances of BaoClient for TLC. *)
EXTENDS BaoClient, TLC

CONSTANTS a, b

MCCallers == {a, b}
Symmetry == Permutations(MCCallers)
=============================================================================
