---- MODULE MCDatabaseOpen ----
(* Small instances of DatabaseOpen for TLC. *)
EXTENDS DatabaseOpen

CONSTANTS o1, o2, o3
====
