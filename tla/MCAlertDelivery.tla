-------------------------- MODULE MCAlertDelivery --------------------------
(* Small instances of AlertDelivery.                                       *)
EXTENDS AlertDelivery, TLC

CONSTANTS a1, a2, w1, w2

Alike == Permutations(Alerts) \union Permutations(Workers)
=============================================================================
