--------------------------- MODULE MCAlertSystem ---------------------------
(* Small instances of AlertSystem.                                         *)
EXTENDS AlertSystem

CONSTANTS i1, s1, r1, r2

OneService == [r \in Requests |-> s1]
OneProcess == [r \in Requests |-> i1]
=============================================================================
