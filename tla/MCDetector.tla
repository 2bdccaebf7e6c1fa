---------------------------- MODULE MCDetector ----------------------------
(* Small instances of Detector: which process serves which request.        *)
EXTENDS Detector, TLC

CONSTANTS i1, i2, s1, r1, r2, r3

(* One service, the worst case: every request competes with every other.   *)
OneService == [r \in Requests |-> s1]

OneProcess == [r \in Requests |-> i1]

(* Two processes share the Redis lock: r3 is served apart from the others. *)
TwoProcesses == [r \in Requests |-> IF r = r3 THEN i2 ELSE i1]

(* Requests served by the same process may be exchanged.                   *)
AllAlike == Permutations(Requests)
FirstTwoAlike == Permutations({r1, r2})
=============================================================================
