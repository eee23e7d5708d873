---------------------------- MODULE MCLockFreeQueue ----------------------------
(* Instances of LockFreeQueue for TLC: two producers that help each other, *)
(* two consumers that compete, and three items.                            *)
EXTENDS LockFreeQueue

CONSTANTS p1, p2, d1, d2, i1, i2, i3

TwoProducers == {p1, p2}
TwoConsumers == {d1, d2}
ThreeItems == {i1, i2, i3}
=============================================================================
