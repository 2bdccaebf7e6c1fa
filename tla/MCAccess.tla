------------------------------ MODULE MCAccess ------------------------------
(* Small instances of Access.                                              *)
EXTENDS Access, TLC

CONSTANTS q1, q2, s1, s2, k1, e1, e2

Alike == Permutations(Requests) \union Permutations(Sids) \union Permutations(Emails)

(* Whether r is a request that GoneIsRefused speaks of.                    *)
Barred(r) == late[r] /\ kind[r] \in Guarded \union {"post"}

(* What the rest of a request depends on, and GoneIsRefused looks at.      *)
Ahead(r) ==
    LET Until(awaits, x) == IF pc[r] \in awaits THEN None ELSE x IN
    IF pc[r] = "done" THEN <<Barred(r) /\ status[r] = "ok">>
    ELSE <<pc[r], Barred(r), status[r] = "ok" /\ Barred(r),
           Until({"touching"}, kind[r]),
           Until({"touching", "writing"}, cookie[r]),
           Until({"touching", "regenerating", "saving", "destroying"}, about[r]),
           Until({"touching", "destroying"}, sess[r]),
           now[r]>>

Seen == <<clock, tables, [r \in Requests |-> Ahead(r)]>>
=============================================================================
