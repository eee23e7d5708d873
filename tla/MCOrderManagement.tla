--------------------------- MODULE MCOrderManagement ---------------------------
(* Instances of OrderManagement for TLC: a pool of two blocks, so that it  *)
(* is exhausted, and as many heap addresses as orders can need.            *)
EXTENDS OrderManagement, TLC

CONSTANTS b1, b2, n1, n2, n3

TwoBlocks == <<b1, b2>>
HeapNodes == {n1, n2, n3}
NodeSymmetry == Permutations(HeapNodes)
=============================================================================
