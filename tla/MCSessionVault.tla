---- MODULE MCSessionVault ----
(* Small instances of SessionVault for TLC. *)
EXTENDS SessionVault

CONSTANTS k1, k2, cli, agent

InTwoProcesses == {[k \in Calls |-> IF k = k1 THEN cli ELSE agent]}
====
