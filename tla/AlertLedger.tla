---------------------------- MODULE AlertLedger ----------------------------
(***************************************************************************)
(* What alert delivery promises its caller, without queue, workers or      *)
(* retries: an alert that was handed over ends in the `alerts` table or in *)
(* the `alert_failures` table, for good; and in neither only in or after a *)
(* mishap, such as the death of a process.                                 *)
(***************************************************************************)
CONSTANT Alerts  \* the alerts of a behaviour

VARIABLES
    status,  \* per alert: what a reader of the two tables would say of it
    calm     \* no mishap has happened yet

vars == <<status, calm>>

Settled == {"sent", "failed", "dropped"}

TypeOK ==
    /\ status \in [Alerts -> Settled \union {"none", "open"}]
    /\ calm \in BOOLEAN

Init ==
    /\ status = [a \in Alerts |-> "none"]
    /\ calm = TRUE

Become(a, was, is) ==
    /\ status[a] = was
    /\ status' = [status EXCEPT ![a] = is]
    /\ UNCHANGED calm

Accept(a) == Become(a, "none", "open")

(* One entry, in the table of alerts or in that of failures.               *)
Send(a) == Become(a, "open", "sent")
Fail(a) == Become(a, "open", "failed")

Drop(a) == ~calm /\ Become(a, "open", "dropped")

(* Open alerts of one process may meet their ends together.                *)
Mishap ==
    /\ calm' = FALSE
    /\ status' \in [Alerts -> Settled \union {"none", "open"}]
    /\ \A a \in Alerts :
          \/ status'[a] = status[a]
          \/ status[a] = "open" /\ status'[a] \in Settled

Settle(a) == Send(a) \/ Fail(a) \/ Drop(a)

Next ==
    \/ \E a \in Alerts : Accept(a) \/ Settle(a)
    \/ Mishap

SafeSpec == Init /\ [][Next]_vars

(* Every alert that was handed over is settled eventually.                 *)
Spec == SafeSpec /\ \A a \in Alerts : WF_vars(Settle(a))
=============================================================================
