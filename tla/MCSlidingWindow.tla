-------------------------- MODULE MCSlidingWindow --------------------------
(* Small instances of SlidingWindow.                                       *)
EXTENDS SlidingWindow, TLC

CONSTANTS r1, r2, r3

Alike == Permutations(Requests)
=============================================================================
