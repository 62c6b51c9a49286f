---------------------------- MODULE MCStreamTail ----------------------------
(* Instances of the streamed container log for TLC.                        *)
EXTENDS StreamTail

CONSTANTS r1, r2, b1, b2, b3

Symmetric == Permutations(Readers) \cup Permutations(Batches)
=============================================================================
