---- MODULE CheckResult ----
(***************************************************************************)
(* A synthetic check from the executor to the agent's answer, after the    *)
(* configuration and the request of CheckConfiguration: the way of an      *)
(* extracted subscription through the schemas of the browser flow          *)
(* (controlled-synthetic-browser.ts), of the history                       *)
(* (subscription-history.ts) and of the broker (credential-broker.ts) to a *)
(* row and an answer.  The three schemas are written separately; the two   *)
(* ends of the executor rely on their agreement.  What a check does in     *)
(* between, and its other failures, are SubscriptionCheck's.               *)
(*                                                                         *)
(* A text is abstracted to its white space and length; all fields that the *)
(* three schemas restrict in the same way are one field, rest.             *)
(***************************************************************************)
EXTENDS CheckConfiguration, FailureCodes

VARIABLES
    raw,           \* what connector.extract returned
    subscription,  \* what reconstructSubscription made of it
    failure,       \* the error of the flow
    row,           \* the row of the history
    result,        \* what the executor returned
    fault          \* ghost: the database failed

vars == <<stage, configured, answer, raw, subscription, failure, row, result, fault>>

\* padded: white space around the text.  The limit is passed before trimming only
\* (padded_long) or after it as well (long).
Texts == {"empty", "blank", "plain", "padded", "padded_long", "long"}

WithinLimit(text) == text \notin {"padded_long", "long"}

Trim(text) ==
    IF text = "blank" THEN "empty"
    ELSE IF text \in {"padded", "padded_long"} THEN "plain" ELSE text

\* The provider's id and name are the target's or others, the time of the check is the
\* one the connector was given or another.
RawResults ==
    [planName : Texts, provider : {"target", "other"}, checkedAt : {"given", "other"},
     rest : {"valid", "invalid"}, unknownFields : BOOLEAN]

ResultInit ==
    /\ Init
    /\ raw = None /\ subscription = None /\ failure = OtherError
    /\ row = None /\ result = None /\ fault = FALSE

----
(* The three schemas *)

\* z.string().min(1).max(...)
IsText(text) == text # "empty" /\ WithinLimit(text)

\* strictSubscriptionSchema, and the one of the broker, which has the same fields
StrictSchema(s) == IsText(s.planName) /\ s.rest = "valid"

\* z.string().trim().min(1).max(...): the schema changes the value.
IsTrimmedText(text) == IsText(Trim(text))

\* Mutant of NormalizedSubscription: the texts are checked and not trimmed.
CheckedSubscription(s) ==
    IF IsTrimmedText(s.planName) /\ s.rest = "valid" THEN s ELSE None

\* normalizedSubscriptionSchema of the history: the value to store, or None
NormalizedSubscription(s) ==
    IF IsTrimmedText(s.planName) /\ IsTrimmedText(s.providerName) /\ s.rest = "valid"
    THEN [s EXCEPT !.planName = Trim(@), !.providerName = Trim(@)] ELSE None

----
Raise(error) ==
    /\ failure' = error /\ stage' = "persistFailure"
    /\ UNCHANGED subscription

\* The flow begins with the URLs it will visit.
BeginBrowserCheck ==
    /\ stage = "started" /\ configuration.by = "synthetic"
    /\ IF \A path \in {"/login", "/billing"} :
              AssertExactOrigin(UrlAt(check.origin, path), check.origin)
       THEN stage' = "extract" /\ UNCHANGED <<subscription, failure>>
       ELSE Raise(BrowserError("ORIGIN_MISMATCH"))
    /\ UNCHANGED <<configured, answer, raw, row, result, fault>>

\* What reconstructSubscription hands on: a raw result that passes has the name of the
\* target.
Extracted == [planName |-> raw'.planName, providerName |-> configuration.name,
              provider |-> raw'.provider, rest |-> raw'.rest]

\* connector.extract may return anything; reconstructSubscription takes it or not.
ReconstructSubscription ==
    /\ stage = "extract"
    /\ raw' \in RawResults
    /\ IF /\ ~raw'.unknownFields /\ StrictSchema(raw')
          /\ raw'.provider = "target" /\ raw'.checkedAt = "given"
       THEN subscription' = Extracted /\ stage' = "record" /\ UNCHANGED failure
       ELSE Raise(BrowserError("EXTRACTION_FAILED"))
    /\ UNCHANGED <<configured, answer, row, result, fault>>

Return(r) == result' = r /\ stage' = "answer"

\* The executor writes rows of the account it was created for, not of the context's.
Write(entry) == row' = [account |-> recorder, outcome |-> entry.outcome, entry |-> entry]

\* The database fails: the call rejects, before it has committed its row or after.
Fault(entry) ==
    /\ fault' = TRUE
    /\ Write(entry) \/ UNCHANGED row
    /\ Return(Failure("PERSISTENCE_FAILED"))

\* recordSuccessfulCheck refuses an input before it opens the database.
RecordSuccess ==
    LET stored == NormalizedSubscription(subscription)
        success == [outcome |-> "success", subscription |-> stored]
    IN
    /\ stage = "record"
    /\ \/ /\ stored = None
          /\ Return(Failure("PERSISTENCE_FAILED"))
          /\ UNCHANGED <<row, fault>>
       \/ /\ stored # None
          /\ Write(success)
          /\ Return([outcome |-> "completed", subscription |-> subscription])
          /\ UNCHANGED fault
       \/ stored # None /\ Fault(success)
    /\ UNCHANGED <<configured, answer, raw, subscription, failure>>

\* #persistFailure, and the end of execute.  The target's name is never blank, so that
\* recordFailedCheck takes it.
PersistFailure ==
    /\ stage = "persistFailure"
    /\ \/ /\ Write(PersistenceOutcome(failure))
          /\ Return(Failure(PublicFailure(failure)))
          /\ UNCHANGED fault
       \/ Fault(PersistenceOutcome(failure))
    /\ UNCHANGED <<configured, answer, raw, subscription, failure>>

CompletedAnswer ==
    [outcome |-> "completed", account |-> check.account, subscription |-> result.subscription]

\* Mutant of ParseResult: the broker's schema insists on trimmed texts.
ParseTrimmedResult ==
    /\ stage = "answer"
    /\ Answer(IF result.outcome = "failed" THEN result
              ELSE IF StrictSchema(result.subscription)
                      /\ Trim(result.subscription.planName) = result.subscription.planName
              THEN CompletedAnswer ELSE Failure("CHECK_FAILED"))
    /\ UNCHANGED <<configured, raw, subscription, failure, row, result, fault>>

\* The broker takes nothing of the executor on trust.
ParseResult ==
    /\ stage = "answer"
    /\ Answer(IF result.outcome = "failed" THEN result
              ELSE IF StrictSchema(result.subscription)
              THEN CompletedAnswer ELSE Failure("CHECK_FAILED"))
    /\ UNCHANGED <<configured, raw, subscription, failure, row, result, fault>>

\* The executor of a plain broker is its caller's.
Finished ==
    /\ \/ stage \in {"refused", "answered"}
       \/ stage = "started" /\ configuration.by = "broker"
    /\ UNCHANGED vars

Next ==
    \/ ConfigurationNext /\ UNCHANGED <<raw, subscription, failure, row, result, fault>>
    \/ BeginBrowserCheck \/ ReconstructSubscription \/ RecordSuccess \/ PersistFailure
    \/ ParseResult
    \/ Finished

Spec == ResultInit /\ [][Next]_vars

----
(* Properties *)

Configured(account) ==
    {i \in DOMAIN configuration.bindings : configuration.bindings[i].account = account}

\* A check runs for the account that was asked for, under the only binding that was
\* configured for it, and the row it writes and the answer it gives are of that account.
\* Only an account without a binding is unknown, and a synthetic check that was accepted
\* does not lack its backend.
OneAccountThroughout ==
    /\ check # NoCheck =>
          \E i \in Configured(request.account) :
              /\ Configured(request.account) = {i}
              /\ check = [account |-> request.account,
                           kind |-> configuration.bindings[i].kind,
                           origin |-> Origin(configuration.bindings[i].origin.url)]
              /\ configuration.by = "synthetic" => configuration.target = request.account
    /\ row # None => row.account = request.account
    /\ answer.outcome = "completed" => answer.account = request.account
    /\ answer = Failure("BINDING_NOT_FOUND") => Configured(request.account) = {}
    /\ answer = Failure("BACKEND_UNAVAILABLE") => configuration.by = "broker"

\* What the history stores of a success is normalized text of the checked provider,
\* although the browser flow hands on what it extracted as it is.
StoredIsNormalized ==
    row.outcome = "success" =>
        /\ raw.provider = "target" /\ raw.checkedAt = "given" /\ ~raw.unknownFields
        /\ row.entry.subscription.planName = "plain"
        /\ row.entry.subscription.providerName = "plain"
        /\ row.entry.subscription.rest = "valid"

\* A success that the agent is told of is in the history, with the same subscription up
\* to the white space around its texts; and a success in the history is told to the
\* agent, unless the database failed: no schema refuses or drops on the way back what
\* another has let pass.  A check that ends without a row is answered as such.  That a
\* check could not be stored, which may be said of one that was, comes of a database
\* that failed or of a plan name of white space only, which the browser flow takes for
\* a name and the history does not.
AnswerIsStored ==
    stage = "answered" /\ check # NoCheck =>
        /\ answer.outcome = "completed" =>
              /\ row.outcome = "success"
              /\ row.entry.subscription = [answer.subscription EXCEPT
                                             !.planName = Trim(@), !.providerName = Trim(@)]
        /\ row.outcome = "success" =>
              \/ answer.outcome = "completed"
              \/ fault /\ answer = Failure("PERSISTENCE_FAILED")
        /\ row = None => answer = Failure("PERSISTENCE_FAILED")
        /\ answer = Failure("PERSISTENCE_FAILED") => fault \/ raw.planName = "blank"
====
