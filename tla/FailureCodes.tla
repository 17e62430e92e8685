---- MODULE FailureCodes ----
(***************************************************************************)
(* The failure vocabularies of a subscription check and the three tables   *)
(* that translate between them.  A failure is raised with the code of the  *)
(* credential backend or of the controlled browser; it reaches the history *)
(* database as an outcome with a redacted code, and the agent as a broker  *)
(* failure code.                                                           *)
(***************************************************************************)

CredentialBackendFailureCode ==
    {"BACKEND_UNAVAILABLE", "BACKEND_LOCKED", "AUTHORIZATION_DENIED",
     "ITEM_NOT_FOUND", "VAULT_NOT_FOUND", "FIELD_NOT_FOUND",
     "MALFORMED_OUTPUT", "CONSUMER_FAILED", "ORIGIN_MISMATCH",
     "PROCESS_TIMEOUT", "OUTPUT_LIMIT_EXCEEDED", "PROCESS_FAILED",
     "CANCELLED"}

ControlledBrowserFailureCode ==
    {"SESSION_CORRUPT", "INTERACTIVE_REQUIRED", "LOGIN_FAILED",
     "ORIGIN_MISMATCH", "EXTRACTION_FAILED", "CHECK_FAILED"}

BrokerFailureCode ==
    {"REQUEST_DENIED", "BINDING_NOT_FOUND", "AUTHORIZATION_DENIED",
     "BACKEND_UNAVAILABLE", "CREDENTIAL_UNAVAILABLE", "REQUEST_CANCELLED",
     "SESSION_MISSING", "SESSION_EXPIRED", "REAUTHENTICATION_REQUIRED",
     "PERSISTENCE_FAILED"} \cup ControlledBrowserFailureCode

RedactedFailureCode ==
    {"AUTHENTICATION_REQUIRED", "SESSION_EXPIRED", "CONNECTOR_UNAVAILABLE",
     "EXTRACTION_FAILED", "INVALID_RESPONSE", "NETWORK_FAILED", "UNKNOWN_FAILURE"}

CheckOutcome == {"success", "failed", "reauthentication_required"}

----

\* What a check has in hand when it stops: a result, or an error of one of the
\* three kinds the code tells apart with instanceof.
BackendError(code) == [source |-> "backend", code |-> code]
BrowserError(code) == [source |-> "browser", code |-> code]
OtherError == [source |-> "other", code |-> "none"]
Completed == [source |-> "completed", code |-> "none"]

BackendErrors == {BackendError(code) : code \in CredentialBackendFailureCode}
BrowserErrors == {BrowserError(code) : code \in ControlledBrowserFailureCode}
Errors == BackendErrors \cup BrowserErrors \cup {OtherError}

\* Broker: the code the agent sees for a credential backend's failure.
MapBackendFailure(code) ==
    IF code = "BACKEND_LOCKED" THEN "INTERACTIVE_REQUIRED"
    ELSE IF code \in {"ITEM_NOT_FOUND", "VAULT_NOT_FOUND", "FIELD_NOT_FOUND",
                      "MALFORMED_OUTPUT"} THEN "CREDENTIAL_UNAVAILABLE"
    ELSE IF code \in {"PROCESS_TIMEOUT", "OUTPUT_LIMIT_EXCEEDED",
                      "PROCESS_FAILED"} THEN "BACKEND_UNAVAILABLE"
    ELSE IF code = "CANCELLED" THEN "REQUEST_CANCELLED"
    ELSE IF code = "CONSUMER_FAILED" THEN "LOGIN_FAILED"
    ELSE code  \* AUTHORIZATION_DENIED, ORIGIN_MISMATCH, BACKEND_UNAVAILABLE

FailedRow(code) == [outcome |-> "failed", code |-> code]
ReauthenticationRow ==
    [outcome |-> "reauthentication_required", code |-> "AUTHENTICATION_REQUIRED"]
SuccessRow == [outcome |-> "success", code |-> "none"]

\* The errors that ask the user to authenticate, that blame the provider's answer
\* and that blame the way to it.
IsAuthenticationError(error) ==
    \/ error.source = "backend" /\ error.code \in
         {"BACKEND_LOCKED", "AUTHORIZATION_DENIED", "ITEM_NOT_FOUND",
          "VAULT_NOT_FOUND", "FIELD_NOT_FOUND", "MALFORMED_OUTPUT",
          "CONSUMER_FAILED"}
    \/ error.source = "browser"
         /\ error.code \in {"INTERACTIVE_REQUIRED", "LOGIN_FAILED"}
IsResponseError(error) ==
    \/ error.source \in {"backend", "browser"} /\ error.code = "ORIGIN_MISMATCH"
    \/ error.source = "browser" /\ error.code = "SESSION_CORRUPT"
IsConnectionError(error) ==
    error.source = "backend" /\ error.code \in
      {"BACKEND_UNAVAILABLE", "PROCESS_TIMEOUT", "OUTPUT_LIMIT_EXCEEDED",
       "PROCESS_FAILED"}

\* Executor: the row that recordFailedCheck is asked to write for an error.
PersistenceOutcome(error) ==
    IF IsAuthenticationError(error) THEN ReauthenticationRow
    ELSE IF IsResponseError(error) THEN FailedRow("INVALID_RESPONSE")
    ELSE IF IsConnectionError(error) THEN FailedRow("CONNECTOR_UNAVAILABLE")
    ELSE IF error = BrowserError("EXTRACTION_FAILED")
         THEN FailedRow("EXTRACTION_FAILED")
    ELSE FailedRow("UNKNOWN_FAILURE")

\* Executor: the failure code of its result for an error it does not rethrow.
PublicFailure(error) ==
    IF error.source = "browser" THEN error.code ELSE "CHECK_FAILED"

Rows == [outcome : {"failed"}, code : RedactedFailureCode]
            \cup {ReauthenticationRow, SuccessRow}
====
