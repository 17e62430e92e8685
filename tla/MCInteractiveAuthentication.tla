---- MODULE MCInteractiveAuthentication ----
(* A small instance of InteractiveAuthentication, and with it of SessionVault, for TLC. *)
EXTENDS InteractiveAuthentication

CONSTANTS k1, k2, cli, agent

\* The two calls are made by one process or by two.
OneOrTwoProcesses ==
    {[k \in Calls |-> cli], [k \in Calls |-> IF k = k1 THEN cli ELSE agent]}
====
