---- MODULE MCHistoryTables ----
(* Small instances of HistoryTables for TLC. *)
EXTENDS HistoryTables, TLC

CONSTANTS a1, a2, p1, p2

AccountSymmetry == Permutations({a1, a2})
TwoTimes == 1 .. 2
====
