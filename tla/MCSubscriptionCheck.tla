---- MODULE MCSubscriptionCheck ----
(* Small instances of SubscriptionCheck for TLC. *)
EXTENDS SubscriptionCheck, TLC

CONSTANTS c1, c2

OneCheck == {c1}
TwoChecks == {c1, c2}
CheckSymmetry == Permutations({c1, c2})

AllLandings == Urls
InsideLandings == {"billing", "outside"}

AllFailures == CredentialBackendFailureCode
SomeFailures == {"CANCELLED", "AUTHORIZATION_DENIED"}
====
