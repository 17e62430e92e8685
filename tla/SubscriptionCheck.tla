---- MODULE SubscriptionCheck ----
(***************************************************************************)
(* Calls of checkSubscription, from the agent's request to the answer: the *)
(* domain-bound broker (credential-broker.ts), the executor with its       *)
(* deadline (synthetic-subscription-check.ts) and the controlled browser   *)
(* flow (controlled-synthetic-browser.ts), for one configured account.     *)
(*                                                                         *)
(* The code runs on one event loop, so everything between two awaits is    *)
(* one step.  pc[c] names the await at which check c is suspended and each *)
(* action is the code from the resumption of that await to the next.       *)
(* Between two steps the deadline may pass, the page may move, the browser *)
(* may exit and other calls may change the stored session.                 *)
(***************************************************************************)
EXTENDS FailureCodes

CONSTANTS
    Checks,          \* the calls of checkSubscription
    Landings,        \* where a page may find itself after a navigation
    BackendFailures, \* failures of the credential backend that are explored
    BackendKind      \* "one_password" or "synthetic_fake"

Urls == {"blank", "billing", "login", "outside"}

ASSUME LandingsAssumption == Landings \subseteq Urls
ASSUME BackendFailuresAssumption ==
    BackendFailures \subseteq CredentialBackendFailureCode
ASSUME BackendKindAssumption == BackendKind \in {"one_password", "synthetic_fake"}

VARIABLES
    vault,     \* the account's stored session, as SessionVault.load reports it
    pc,        \* the await at which a check is suspended
    signal,    \* the check's AbortController
    browser,   \* the Playwright browser of a check
    url,       \* page.url()
    violation, \* ExactOriginBrowserBoundary.#violation
    session,   \* the session state loaded at the start of the check
    failure,   \* BoundSubscriptionCheckContext.#credentialFailure
    outcome,   \* what the browser flow returned or threw
    saved,     \* ghost: this check put a new session into the vault
    row,       \* the row of the history database written for the check
    response   \* the answer given to the agent

vars == <<vault, pc, signal, browser, url, violation, session, failure,
          outcome, saved, row, response>>
page == <<browser, url, violation>>
record == <<session, saved, row, response>>  \* what page steps leave alone

SessionStates == {"missing", "valid", "expired", "reauthentication_required"}

\* Steps at which the abort listener is attached and a page exists.
PageSteps == {"reuseNav", "reuseProbe", "reuseExtract", "loginNav", "detect",
              "form", "backend", "fill", "submit", "postDetect", "postProbe",
              "capture", "save", "extract"}
Steps == PageSteps \cup {"idle", "load", "launch", "setup", "cleanup", "record",
                         "done"}

TypeOK ==
    /\ vault \in SessionStates \cup {"corrupt"}
    /\ pc \in [Checks -> Steps]
    /\ signal \in [Checks -> {"pending", "timed_out", "released"}]
    /\ browser \in [Checks -> {"none", "open", "closing", "stuck", "closed"}]
    /\ url \in [Checks -> Urls]
    /\ violation \in [Checks -> BOOLEAN]
    /\ session \in [Checks -> SessionStates]
    /\ failure \in [Checks -> BrokerFailureCode \cup {"none"}]
    /\ outcome \in [Checks -> Errors \cup {Completed}]
    /\ saved \in [Checks -> BOOLEAN]
    /\ row \in [Checks -> Rows \cup {FailedRow("none")}]
    /\ response \in [Checks -> BrokerFailureCode \cup {"none", "completed"}]

NoRow == FailedRow("none")

Init ==
    /\ vault \in SessionStates \cup {"corrupt"}
    /\ pc = [c \in Checks |-> "idle"]
    /\ signal = [c \in Checks |-> "pending"]
    /\ browser = [c \in Checks |-> "none"]
    /\ url = [c \in Checks |-> "blank"]
    /\ violation = [c \in Checks |-> FALSE]
    /\ session = [c \in Checks |-> "missing"]
    /\ failure = [c \in Checks |-> "none"]
    /\ outcome = [c \in Checks |-> OtherError]
    /\ saved = [c \in Checks |-> FALSE]
    /\ row = [c \in Checks |-> NoRow]
    /\ response = [c \in Checks |-> "none"]

----
(* Helpers shared by the steps *)

Aborted(c) == signal[c] # "pending"

\* assertExactOrigin and originMatchesBinding, on the abstract URLs.
ExactOrigin(u) == u \in {"billing", "login"}

\* Mutant of Safe: only the current page is looked at, not what it did before.
SafeWithoutHistory(c) == browser[c] # "closed" /\ ExactOrigin(url[c])

\* assertSafe does not throw: no violation was seen, the page is not closed and
\* shows the allowed origin.
Safe(c) ==
    ~violation[c] /\ browser[c] # "closed" /\ ExactOrigin(url[c])

Goto(c, step) == pc' = [pc EXCEPT ![c] = step] /\ UNCHANGED outcome

\* The error that leaves runControlledSyntheticBrowserCheck: the outer catch
\* rethrows browser failures and turns any other into CHECK_FAILED once the
\* signal is aborted.  The finally blocks then run.
Thrown(c, error) ==
    IF error.source # "browser" /\ Aborted(c)
    THEN BrowserError("CHECK_FAILED") ELSE error
Stop(c, error) ==
    /\ pc' = [pc EXCEPT ![c] = "cleanup"]
    /\ outcome' = [outcome EXCEPT ![c] = Thrown(c, error)]

OriginMismatch == BrowserError("ORIGIN_MISMATCH")
LoginFailed == BrowserError("LOGIN_FAILED")

\* A step that continues only if assertSafe passes, on the page the await left.
GotoIfSafe(c, step) ==
    IF Safe(c)' THEN Goto(c, step) ELSE Stop(c, OriginMismatch)

\* Mutant of BackendFailed: the backend's code goes to the agent untranslated.
BackendFailedUnmapped(c, code) ==
    /\ failure' = [failure EXCEPT ![c] = code]
    /\ Stop(c, BackendError(code))

\* The catch of usePasswordForObservedUrl.
BackendFailed(c, code) ==
    /\ failure' = [failure EXCEPT ![c] = MapBackendFailure(code)]
    /\ Stop(c, BackendError(code))

\* Mutant of ConsumerFailed: a browser that is gone is taken for a cancellation.
ConsumerFailedByBrowser(c, error) ==
    BackendFailed(c, IF browser[c] = "closed" THEN "CANCELLED"
                     ELSE IF error = OriginMismatch THEN "ORIGIN_MISMATCH"
                     ELSE "CONSUMER_FAILED")

\* The catch of the password consumer, followed by the one above.
ConsumerFailed(c, error) ==
    BackendFailed(c,
        IF Aborted(c) THEN "CANCELLED"
        ELSE IF error = OriginMismatch THEN "ORIGIN_MISMATCH"
        ELSE "CONSUMER_FAILED")

\* The page is at u; a request outside the origin is seen by the boundary.
Arrive(c, u) ==
    /\ url' = [url EXCEPT ![c] = u]
    /\ violation' = [violation EXCEPT ![c] = @ \/ u = "outside"]

----
(* Request, session load and browser launch *)

\* checkSubscription up to the first await: the request is answered at once
\* unless it is well formed and names a bound account.
CheckSubscription(c) ==
    /\ pc[c] = "idle"
    /\ \/ /\ pc' = [pc EXCEPT ![c] = "load"]
          /\ UNCHANGED response
       \/ /\ pc' = [pc EXCEPT ![c] = "done"]
          /\ \E code \in {"REQUEST_DENIED", "BINDING_NOT_FOUND"} :
                response' = [response EXCEPT ![c] = code]
    /\ UNCHANGED <<vault, signal, page, session, failure, outcome, saved, row>>

\* sessionVault.load: any error is SESSION_CORRUPT, and no browser exists yet.
\* A deadline that passed during the load is noticed before the launch.
LoadSession(c) ==
    /\ pc[c] = "load"
    /\ \/ /\ vault # "corrupt"
          /\ session' = [session EXCEPT ![c] = vault]
          /\ IF Aborted(c) THEN Stop(c, BrowserError("CHECK_FAILED"))
             ELSE Goto(c, "launch")
       \/ /\ outcome' = [outcome EXCEPT ![c] = BrowserError("SESSION_CORRUPT")]
          /\ pc' = [pc EXCEPT ![c] = "cleanup"]
          /\ UNCHANGED session
    /\ UNCHANGED <<vault, signal, page, failure, saved, row, response>>

Launch(c) ==
    /\ pc[c] = "launch"
    /\ \/ /\ browser' = [browser EXCEPT ![c] = "open"]
          /\ Goto(c, "setup")
       \/ /\ Stop(c, OtherError)
          /\ UNCHANGED browser
    /\ UNCHANGED <<vault, signal, url, violation, failure, record>>

\* Mutant of SetUp: every session is taken for a valid one.
SetUpReusingAnything(c) ==
    /\ pc[c] = "setup"
    /\ (browser[c] = "open" /\ Goto(c, "reuseNav")) \/ Stop(c, OtherError)
    /\ UNCHANGED <<vault, signal, page, failure, record>>

\* newContext, install, newPage and attach.  The abort listener is added last:
\* an abort that came before it is never heard.
SetUp(c) ==
    /\ pc[c] = "setup"
    /\ \/ /\ browser[c] = "open"
          /\ Goto(c, IF session[c] = "valid" THEN "reuseNav" ELSE "loginNav")
       \/ Stop(c, OtherError)
    /\ UNCHANGED <<vault, signal, page, failure, record>>

----
(* The page *)

\* ExactOriginBrowserBoundary.navigate
Navigate(c, from, to) ==
    /\ pc[c] = from
    /\ UNCHANGED browser
    /\ \/ /\ browser[c] # "closed"
          /\ \E u \in Landings : Arrive(c, u)
          /\ GotoIfSafe(c, to)
       \/ /\ UNCHANGED <<url, violation>>
          /\ Stop(c, IF Safe(c) THEN LoginFailed ELSE OriginMismatch)
    /\ UNCHANGED <<vault, signal, failure, record>>

\* The inner catch around the reuse of a session: anything but a browser failure
\* falls back to the login.
FallBack(c) ==
    IF Aborted(c) THEN Stop(c, BrowserError("CHECK_FAILED"))
    ELSE GotoIfSafe(c, "loginNav")

\* The billing marker decides whether the stored session still authenticates.
ReuseProbe(c) ==
    /\ pc[c] = "reuseProbe"
    /\ UNCHANGED page
    /\ \/ browser[c] # "closed" /\ GotoIfSafe(c, "reuseExtract")
       \/ browser[c] # "closed" /\ Goto(c, "loginNav")
       \/ FallBack(c)
    /\ UNCHANGED <<vault, signal, failure, record>>

\* connector.extract on the reused session, and reconstructSubscription
ReuseExtract(c) ==
    /\ pc[c] = "reuseExtract"
    /\ UNCHANGED page
    /\ \/ browser[c] # "closed" /\ Stop(c, Completed)
       \/ browser[c] # "closed" /\ Stop(c, BrowserError("EXTRACTION_FAILED"))
       \/ FallBack(c)
    /\ UNCHANGED <<vault, signal, failure, record>>

\* detectInteractiveBoundary on the login page, then the start of formAction
DetectInteractive(c) ==
    /\ pc[c] = "detect"
    /\ UNCHANGED page
    /\ \/ browser[c] # "closed" /\ GotoIfSafe(c, "form")
       \/ browser[c] # "closed" /\ Stop(c, BrowserError("INTERACTIVE_REQUIRED"))
       \/ Stop(c, OtherError)
    /\ UNCHANGED <<vault, signal, failure, record>>

\* formAction: one form, with the expected action on the allowed origin; then
\* the broker compares the observed URL with the binding.
FormAction(c) ==
    /\ pc[c] = "form"
    /\ UNCHANGED page
    /\ \/ /\ browser[c] # "closed"
          /\ ExactOrigin(url[c])
          /\ Goto(c, "backend")
          /\ UNCHANGED failure
       \/ /\ browser[c] # "closed"
          /\ ~ExactOrigin(url[c])
          /\ BackendFailed(c, "ORIGIN_MISMATCH")
       \/ /\ \E error \in {OriginMismatch, LoginFailed, OtherError} :
                Stop(c, error)
          /\ UNCHANGED failure
    /\ UNCHANGED <<vault, signal, record>>

\* backend.usePassword up to its call of the consumer.  The 1Password backend
\* gives up on an aborted signal, and says CANCELLED only then.
UsePassword(c) ==
    /\ pc[c] = "backend"
    /\ UNCHANGED page
    /\ \/ /\ BackendKind = "one_password" => ~Aborted(c)
          /\ IF Safe(c) THEN Goto(c, "fill") /\ UNCHANGED failure
             ELSE ConsumerFailed(c, OriginMismatch)
       \/ \E code \in BackendFailures :
             /\ BackendKind = "one_password" /\ code = "CANCELLED" => Aborted(c)
             /\ BackendFailed(c, code)
    /\ UNCHANGED <<vault, signal, record>>

\* The consumer up to form submission: the form is looked up and compared again
\* before and after the fills, with assertSafe between them.
FillForm(c) ==
    /\ pc[c] = "fill"
    /\ UNCHANGED page
    /\ \/ Safe(c) /\ Goto(c, "submit") /\ UNCHANGED failure
       \/ ~Safe(c) /\ ConsumerFailed(c, OriginMismatch)
       \/ \E error \in {OriginMismatch, LoginFailed, OtherError} :
             ConsumerFailed(c, error)
    /\ UNCHANGED <<vault, signal, record>>

\* ExactOriginBrowserBoundary.submit.  When it resolves, the callback, the
\* backend and the broker return within the same turn.
Submit(c) ==
    /\ pc[c] = "submit"
    /\ UNCHANGED browser
    /\ \/ /\ browser[c] # "closed"
          /\ \E u \in Landings : Arrive(c, u)
          /\ IF Safe(c)' THEN Goto(c, "postDetect") /\ UNCHANGED failure
             ELSE ConsumerFailed(c, OriginMismatch)
       \/ /\ UNCHANGED <<url, violation>>
          /\ ConsumerFailed(c, IF Safe(c) THEN LoginFailed ELSE OriginMismatch)
    /\ UNCHANGED <<vault, signal, record>>

\* detectInteractiveBoundary after the login, then the check of the pathname
PostLoginDetect(c) ==
    /\ pc[c] = "postDetect"
    /\ UNCHANGED page
    /\ \/ /\ browser[c] # "closed"
          /\ \/ url[c] \in {"billing", "outside"} /\ Goto(c, "postProbe")
             \/ url[c] # "billing" /\ Stop(c, LoginFailed)
       \/ browser[c] # "closed" /\ Stop(c, BrowserError("INTERACTIVE_REQUIRED"))
       \/ Stop(c, OtherError)
    /\ UNCHANGED <<vault, signal, failure, record>>

PostLoginProbe(c) ==
    /\ pc[c] = "postProbe"
    /\ UNCHANGED page
    /\ \/ browser[c] # "closed" /\ GotoIfSafe(c, "capture")
       \/ browser[c] # "closed" /\ Stop(c, LoginFailed)
       \/ Stop(c, OtherError)
    /\ UNCHANGED <<vault, signal, failure, record>>

\* browserContext.storageState
CaptureState(c) ==
    /\ pc[c] = "capture"
    /\ UNCHANGED page
    /\ \/ browser[c] # "closed" /\ GotoIfSafe(c, "save")
       \/ Stop(c, OtherError)
    /\ UNCHANGED <<vault, signal, failure, record>>

\* Mutant of SaveSession: a page that left after the save is a failed login.
SaveSessionBlamingLogin(c) ==
    /\ pc[c] = "save"
    /\ UNCHANGED page
    /\ vault # "corrupt" /\ vault' = "valid"
    /\ saved' = [saved EXCEPT ![c] = TRUE]
    /\ IF Safe(c) THEN Goto(c, "extract") ELSE Stop(c, LoginFailed)
    /\ UNCHANGED <<signal, session, failure, row, response>>

\* sessionVault.save: it reads the stored file first, so a corrupt one is not
\* replaced, and it may still fail after the new file is in place.
SaveSession(c) ==
    /\ pc[c] = "save"
    /\ UNCHANGED page
    /\ \/ /\ vault # "corrupt"
          /\ vault' = "valid"
          /\ saved' = [saved EXCEPT ![c] = TRUE]
          /\ GotoIfSafe(c, "extract") \/ Stop(c, OtherError)
       \/ Stop(c, OtherError) /\ UNCHANGED <<vault, saved>>
    /\ UNCHANGED <<signal, session, failure, row, response>>

ExtractSubscription(c) ==
    /\ pc[c] = "extract"
    /\ UNCHANGED page
    /\ \/ browser[c] # "closed" /\ Stop(c, Completed)
       \/ Stop(c, BrowserError("EXTRACTION_FAILED"))
    /\ UNCHANGED <<vault, signal, failure, record>>

----
(* Clean-up, history and answer *)

\* browser.close().  If it fails, which nobody is told, the browser may be left.
CloseBrowser(c) ==
    \E b \in IF browser[c] \in {"none", "closed"} THEN {browser[c]} ELSE {"closed", "stuck"} :
        browser' = [browser EXCEPT ![c] = b]

\* Mutant of CleanUp: the result is recorded without another look at the signal.
CleanUpWithoutSignal(c) ==
    /\ pc[c] = "cleanup"
    /\ CloseBrowser(c)
    /\ Goto(c, "record")
    /\ UNCHANGED <<vault, signal, url, violation, failure, record>>

\* Mutant of CleanUp: it waits for the disconnection of a browser already gone.
CleanUpAwaitingExit(c) ==
    /\ pc[c] = "cleanup"
    /\ browser[c] # "closed"
    /\ CloseBrowser(c)
    /\ Goto(c, "record")
    /\ UNCHANGED <<vault, signal, url, violation, failure, record>>

\* The finally blocks close the browser; the executor then looks at the signal
\* once more before it records a result.
CleanUp(c) ==
    /\ pc[c] = "cleanup"
    /\ CloseBrowser(c)
    /\ pc' = [pc EXCEPT ![c] = "record"]
    /\ outcome' = [outcome EXCEPT ![c] =
                     IF @ = Completed /\ Aborted(c)
                     THEN BrowserError("CHECK_FAILED") ELSE @]
    /\ UNCHANGED <<vault, signal, url, violation, failure, record>>

\* The row that the executor asks the repository to write.
RequestedRow(c) ==
    IF outcome[c] = Completed THEN SuccessRow ELSE PersistenceOutcome(outcome[c])

\* Mutant of Answer: the credential failure kept in the context is forgotten.
AnswerWithoutContext(c, recorded) ==
    IF ~recorded THEN "PERSISTENCE_FAILED"
    ELSE IF outcome[c] = Completed THEN "completed"
    ELSE IF outcome[c].source = "backend" THEN "CHECK_FAILED"
    ELSE PublicFailure(outcome[c])

\* checkSubscription's answer to what the executor returned or threw.
Answer(c, recorded) ==
    IF ~recorded THEN "PERSISTENCE_FAILED"
    ELSE IF failure[c] # "none" THEN failure[c]
    ELSE IF outcome[c] = Completed THEN "completed"
    ELSE IF outcome[c].source = "backend" THEN "CHECK_FAILED"
    ELSE PublicFailure(outcome[c])

\* recordSuccessfulCheck or recordFailedCheck, the executor's finally block and
\* the answer.  A call that rejects may have committed its row all the same.
Record(c) ==
    /\ pc[c] = "record"
    /\ \/ /\ row' = [row EXCEPT ![c] = RequestedRow(c)]
          /\ response' = [response EXCEPT ![c] = Answer(c, TRUE)]
       \/ /\ \E r \in {NoRow, RequestedRow(c)} : row' = [row EXCEPT ![c] = r]
          /\ response' = [response EXCEPT ![c] = Answer(c, FALSE)]
    /\ signal' = [signal EXCEPT ![c] = IF @ = "pending" THEN "released" ELSE @]
    /\ Goto(c, "done")
    /\ UNCHANGED <<vault, page, session, failure, saved>>

----
(* What happens around a check *)

\* The deadline passes.  The listener, while attached, closes the browser.
Deadline(c) ==
    /\ pc[c] \notin {"idle", "done"}
    /\ signal[c] = "pending"
    /\ signal' = [signal EXCEPT ![c] = "timed_out"]
    /\ browser' = [browser EXCEPT ![c] =
                     IF pc[c] \in PageSteps /\ @ = "open" THEN "closing" ELSE @]
    /\ UNCHANGED <<vault, pc, url, violation, failure, outcome, record>>

\* The browser process is gone: it was told to close, or it crashed.
BrowserExits(c) ==
    /\ browser[c] \in {"open", "closing", "stuck"}
    /\ browser' = [browser EXCEPT ![c] = "closed"]
    /\ UNCHANGED <<vault, pc, signal, url, violation, failure, outcome, record>>

\* The close that the listener called fails.  It is swallowed there, and the page
\* goes on as if the deadline had not passed.
CloseFails(c) ==
    /\ browser[c] = "closing"
    /\ browser' = [browser EXCEPT ![c] = "stuck"]
    /\ UNCHANGED <<vault, pc, signal, url, violation, failure, outcome, record>>

\* The page navigates by itself, or does something that the boundary forbids.
PageMoves(c) ==
    /\ pc[c] \in PageSteps
    /\ browser[c] \in {"open", "closing", "stuck"}
    /\ \/ \E u \in Landings : Arrive(c, u)
       \/ /\ violation' = [violation EXCEPT ![c] = TRUE]
          /\ UNCHANGED url
    /\ UNCHANGED <<vault, pc, signal, browser, failure, outcome, record>>

\* The stored session runs out, is marked by requireReauthentication, or its file
\* is damaged.
VaultChanges ==
    /\ \/ vault = "valid" /\ vault' = "expired"
       \/ vault # "corrupt" /\ vault' = "reauthentication_required"
       \/ vault' = "corrupt"
    /\ vault' # vault
    /\ UNCHANGED <<pc, signal, page, failure, outcome, record>>

CheckStep(c) ==
    \/ CheckSubscription(c) \/ LoadSession(c) \/ Launch(c) \/ SetUp(c)
    \/ Navigate(c, "reuseNav", "reuseProbe") \/ ReuseProbe(c) \/ ReuseExtract(c)
    \/ Navigate(c, "loginNav", "detect") \/ DetectInteractive(c)
    \/ FormAction(c) \/ UsePassword(c) \/ FillForm(c) \/ Submit(c)
    \/ PostLoginDetect(c) \/ PostLoginProbe(c) \/ CaptureState(c)
    \/ SaveSession(c) \/ ExtractSubscription(c)
    \/ CleanUp(c) \/ Record(c)

Environment(c) == Deadline(c) \/ BrowserExits(c) \/ CloseFails(c) \/ PageMoves(c)

\* Every check was answered: nothing is left to happen.
Finished == (\A c \in Checks : pc[c] = "done") /\ UNCHANGED vars

Next ==
    \/ \E c \in Checks : CheckStep(c) \/ Environment(c)
    \/ VaultChanges
    \/ Finished

Spec == Init /\ [][Next]_vars

(***************************************************************************)
(* Fairness.  The vault, the database and Playwright's close() settle, and *)
(* a Playwright call on a browser that is gone rejects.  A call on a live  *)
(* page may hang, also one whose browser could not be closed: nothing is   *)
(* assumed of it.                                                          *)
(***************************************************************************)
Settles(c) ==
    /\ pc[c] \notin PageSteps \/ browser[c] = "closed" \/ pc[c] = "save"
    /\ pc[c] # "idle"
    /\ CheckStep(c)

Fairness ==
    \A c \in Checks :
        /\ WF_vars(Settles(c))
        /\ WF_vars(browser[c] = "closing" /\ BrowserExits(c))

FairSpec == Spec /\ Fairness

----
(* Properties *)

\* The rows that go with an answer when the record call succeeded.
AgreeingRow(answer) ==
    IF answer = "completed" THEN SuccessRow
    ELSE IF answer \in {"INTERACTIVE_REQUIRED", "LOGIN_FAILED",
                        "AUTHORIZATION_DENIED", "CREDENTIAL_UNAVAILABLE"}
         THEN ReauthenticationRow
    ELSE IF answer \in {"ORIGIN_MISMATCH", "SESSION_CORRUPT"}
         THEN FailedRow("INVALID_RESPONSE")
    ELSE IF answer = "EXTRACTION_FAILED" THEN FailedRow("EXTRACTION_FAILED")
    ELSE IF answer = "BACKEND_UNAVAILABLE" THEN FailedRow("CONNECTOR_UNAVAILABLE")
    ELSE FailedRow("UNKNOWN_FAILURE")

\* The answer an agent gets and the row in the history tell the same story,
\* although they come from two different tables and take different routes
\* (a rethrown backend failure, a credential failure kept in the context, an
\* executor result).  Only a check that ran out of time may be stored as
\* UNKNOWN_FAILURE under a more specific answer, and only a failed record call
\* leaves the row open.
OutcomeAgreement ==
    \A c \in Checks : pc[c] = "done" =>
        \/ response[c] \in {"REQUEST_DENIED", "BINDING_NOT_FOUND"} /\ row[c] = NoRow
        \/ response[c] = "PERSISTENCE_FAILED"
        \/ row[c] = AgreeingRow(response[c])
        \/ /\ signal[c] = "timed_out"
           /\ response[c] # "completed"
           /\ row[c] = FailedRow("UNKNOWN_FAILURE")

\* A row that asks for reauthentication never stands next to a session that the
\* same check has just stored: every failure after save is of another kind.
ReauthenticationMeansNoNewSession ==
    \A c \in Checks : saved[c] => row[c] # ReauthenticationRow

\* A successful row comes from a session that authenticated: one loaded as valid
\* or one this check logged in for and stored.
SuccessIsAuthenticated ==
    \A c \in Checks :
        row[c] = SuccessRow => session[c] = "valid" \/ saved[c]

\* Only a deadline produces REQUEST_CANCELLED with the 1Password backend, whether
\* the backend or the password callback noticed it.
CancelledMeansTimedOut ==
    BackendKind = "one_password" =>
        \A c \in Checks :
            response[c] = "REQUEST_CANCELLED" => signal[c] = "timed_out"

BeforeCapture == PageSteps \ {"save", "extract", "reuseExtract"}

\* A violation of the origin boundary is fatal whichever await it falls into: a
\* check whose page misbehaved before the session was captured never stores that
\* session and never succeeds.
ViolationIsFatal ==
    \A c \in Checks :
        [](violation[c] /\ pc[c] \in BeforeCapture
             => [](~saved[c] /\ row[c] # SuccessRow))

\* A check whose deadline passed before it came to record never records success,
\* even if the abort was not heard and the page work went through.
LateCheckIsNoSuccess ==
    \A c \in Checks :
        [](signal[c] = "timed_out" /\ pc[c] # "record" /\ response[c] = "none"
             => [](row[c] # SuccessRow))

\* A deadline that the listener hears ends the check, wherever it was suspended, and
\* the browser with it; only a close that fails may leave the one or the other.
HeardDeadlineAnswers ==
    \A c \in Checks :
        (signal[c] = "timed_out" /\ browser[c] \in {"closing", "closed"})
            ~> (pc[c] = "done" /\ browser[c] = "closed") \/ browser[c] = "stuck"

\* What the test "cancels a hanging login and closes the browser" says: once the
\* deadline has passed, a check does not go on with an open browser.
DeadlineClosesBrowser ==
    \A c \in Checks :
        signal[c] = "timed_out" /\ pc[c] \in PageSteps => browser[c] # "open"

\* What the documented sequence says: a valid session that is verified to be
\* still authenticated is reused, and the check does not turn to the login.
VerifiedSessionIsReused ==
    [][\A c \in Checks : pc[c] = "reuseExtract" => pc'[c] # "loginNav"]_vars
====
