---------------------------- MODULE MCWaitFreeQueue ----------------------------
(* Instances of WaitFreeQueue for TLC: three slots, which hold two items,  *)
(* and five items, so that both indices go round.                          *)
EXTENDS WaitFreeQueue

CONSTANTS i1, i2, i3, i4, i5

FiveItems == {i1, i2, i3, i4, i5}
=============================================================================
