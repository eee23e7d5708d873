---------------------------- MODULE MCBatchRequests ----------------------------
(* Instances of BatchRequests for TLC: a batch of two urls and pools of    *)
(* two, one and no handle, so that requests overlap, reuse a handle and    *)
(* are refused.                                                            *)
EXTENDS BatchRequests

CONSTANTS h1, h2, r1, r2

TwoHandles == <<h1, h2>>
TwoRequests == {r1, r2}
=============================================================================
