----------------------------- MODULE MCDashboard -----------------------------
(* Small instances of Dashboard.                                           *)
EXTENDS Dashboard

CONSTANTS a, b

All    == [service |-> None, range |-> 2]
OnlyA  == [service |-> a, range |-> 1]

Views == {All, OnlyA}

EachAlone == {{"stats"}, {"status"}, {"alerts"}, {"health"}}
Clocks  == [stats |-> 1, status |-> 3, alerts |-> 0, health |-> 0]
Rows    == [stats |-> 2, status |-> 1, alerts |-> 3, health |-> 0]
Budgets == [stats |-> 0, status |-> 1, alerts |-> 1, health |-> 3]
Senders == [stats |-> {a, b}, status |-> {a}, alerts |-> {a}, health |-> {}]
=============================================================================
