------------------------------ MODULE MCLimits ------------------------------
(* An instance of Limits for TLC. *)
EXTENDS Limits, TLC

CONSTANTS r1, r2, r3, r4, c1, c2

MCReqs == {r1, r2, r3, r4}
MCClients == {c1, c2}
Symmetry == Permutations(MCReqs) \cup Permutations(MCClients)
=============================================================================
