--------------------------- MODULE MCLogShipping ---------------------------
(* Instances of log shipping for TLC.                                      *)
EXTENDS LogShipping, TLC

CONSTANTS w1, w2, b1, b2

Symmetric == Permutations(Workers) \cup Permutations(Batches)
=============================================================================
