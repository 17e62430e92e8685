---- MODULE MCSubscriptionHistory ----
(* Small instances of SubscriptionHistory for TLC. *)
EXTENDS SubscriptionHistory

CONSTANTS a1, p1, r1, r2, k1, k2, k3

OneTime == 1 .. 1
TwoTimes == 1 .. 2
====
