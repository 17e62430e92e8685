---- MODULE CredentialRead ----
(***************************************************************************)
(* What a credential backend promises of one call of usePassword           *)
(* (credential-backend.ts), whatever it does to get at the password: the   *)
(* call is answered, it hands the password over at most once, and never    *)
(* after the caller has given up.  OnePasswordProcess implements it.       *)
(***************************************************************************)
EXTENDS FailureCodes

CONSTANT ConsumerFailures  \* the codes with which the callback itself may fail

VARIABLES
    aborted,  \* request.signal.aborted
    pc,       \* "idle", "running", "consuming" or "done"
    answer

vars == <<aborted, pc, answer>>

Init == aborted = FALSE /\ pc = "idle" /\ answer = "none"

Answer(a) == pc' = "done" /\ answer' = a

\* The codes of a call that had no password to hand over.
ReadFailures == CredentialBackendFailureCode \ {"ORIGIN_MISMATCH", "CONSUMER_FAILED"}

\* The request does not fit the backend's configuration, or was given up before.
Refuse ==
    /\ pc = "idle"
    /\ \/ \E a \in {"ITEM_NOT_FOUND", "ORIGIN_MISMATCH"} : Answer(a)
       \/ aborted /\ Answer("CANCELLED")
    /\ UNCHANGED aborted

Start == pc = "idle" /\ ~aborted /\ pc' = "running" /\ UNCHANGED <<aborted, answer>>

\* Only a read that was given up is cancelled, but one that was given up may have
\* failed of something else before.
Fail ==
    /\ pc = "running"
    /\ \E a \in ReadFailures : (a = "CANCELLED" => aborted) /\ Answer(a)
    /\ UNCHANGED aborted

Deliver == pc = "running" /\ ~aborted /\ pc' = "consuming" /\ UNCHANGED <<aborted, answer>>

\* The callback returns or fails, after a cancellation as well.
Return ==
    /\ pc = "consuming"
    /\ \E a \in {"completed", "CONSUMER_FAILED"} \cup ConsumerFailures : Answer(a)
    /\ UNCHANGED aborted

Abort == ~aborted /\ aborted' = TRUE /\ UNCHANGED <<pc, answer>>

Next == Refuse \/ Start \/ Fail \/ Deliver \/ Return \/ Abort

Spec == Init /\ [][Next]_vars

\* A read that was started ends without the caller's help.
FairSpec == Spec /\ WF_vars(Fail \/ Deliver) /\ WF_vars(Return)
====
