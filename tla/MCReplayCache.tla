--------------------------- MODULE MCReplayCache ---------------------------
(* ReplayCache on a small instance: see the cfg files.                      *)
EXTENDS ReplayCache, TLC

Symmetry == Permutations(Callers) \cup Permutations(ReplayKeys)
=============================================================================
