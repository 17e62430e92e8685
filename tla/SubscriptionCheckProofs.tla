---- MODULE SubscriptionCheckProofs ----
(***************************************************************************)
(* Proofs about SubscriptionCheck, for any set of checks, any landings and *)
(* any backend.                                                            *)
(***************************************************************************)
EXTENDS SubscriptionCheck, TLAPS

----
(* The tables of FailureCodes *)

\* Every credential backend failure is translated to a code the agent may see.
LEMMA MapBackendFailureType ==
    ASSUME NEW code \in CredentialBackendFailureCode
    PROVE  MapBackendFailure(code) \in BrokerFailureCode
  BY DEF MapBackendFailure, CredentialBackendFailureCode, BrokerFailureCode,
         ControlledBrowserFailureCode

\* Every error has a failed row.
LEMMA PersistenceOutcomeType ==
    ASSUME NEW error \in Errors
    PROVE  PersistenceOutcome(error) \in Rows \ {SuccessRow}
  BY DEF PersistenceOutcome, IsAuthenticationError, IsResponseError,
         IsConnectionError, Errors, BackendErrors, BrowserErrors, Rows, BackendError, BrowserError, OtherError,
         RedactedFailureCode, FailedRow, ReauthenticationRow, SuccessRow

\* For a backend failure, the row and the translated answer agree.
LEMMA BackendTablesAgree ==
    ASSUME NEW code \in CredentialBackendFailureCode
    PROVE  PersistenceOutcome(BackendError(code))
             = AgreeingRow(MapBackendFailure(code))
  BY DEF PersistenceOutcome, IsAuthenticationError, IsResponseError,
         IsConnectionError, AgreeingRow, MapBackendFailure, BackendError,
         BrowserError, FailedRow, ReauthenticationRow, SuccessRow,
         CredentialBackendFailureCode

\* For a browser failure, the row and its public code agree.
LEMMA BrowserTablesAgree ==
    ASSUME NEW code \in ControlledBrowserFailureCode
    PROVE  PersistenceOutcome(BrowserError(code)) = AgreeingRow(code)
  BY DEF PersistenceOutcome, IsAuthenticationError, IsResponseError,
         IsConnectionError, AgreeingRow, BackendError, BrowserError, FailedRow,
         ReauthenticationRow, SuccessRow, ControlledBrowserFailureCode

----
(* The inductive invariant *)

Running == Steps \ {"cleanup", "record", "done"}

\* Nothing is answered or recorded before the end, and until then only the
\* deadline aborts the signal.
Unanswered(c) ==
    pc[c] # "done" =>
        row[c] = NoRow /\ response[c] = "none" /\ signal[c] # "released"

\* No credential failure is kept while the check goes on, and no browser exists
\* before the check starts.
NoFailureYet(c) ==
    /\ pc[c] \in Running => failure[c] = "none"
    /\ pc[c] = "idle" => browser[c] = "none"

\* How the outcome of the browser flow and the failure kept in the context go
\* together: the outer catch may have replaced a backend failure after a timeout.
OutcomeAndFailure(c) ==
    pc[c] \in {"cleanup", "record"} =>
        \/ failure[c] = "none" /\ outcome[c] \in BrowserErrors \cup {OtherError, Completed}
        \/ \E code \in CredentialBackendFailureCode :
              outcome[c] = BackendError(code) /\ failure[c] = MapBackendFailure(code)
        \/ /\ failure[c] # "none"
           /\ outcome[c] = BrowserError("CHECK_FAILED")
           /\ signal[c] = "timed_out"

\* The reuse steps are entered with a valid session, the extraction after a login
\* with a saved one; a completed check has one or the other.
Authenticated(c) ==
    /\ pc[c] \in {"reuseNav", "reuseProbe", "reuseExtract"} => session[c] = "valid"
    /\ pc[c] = "extract" => saved[c]
    /\ pc[c] \in {"cleanup", "record"} /\ outcome[c] = Completed
          => session[c] = "valid" \/ saved[c]

\* After the save no error asks for authentication.
SavedThenNoAuthenticationError(c) ==
    saved[c] =>
        /\ pc[c] \in {"extract", "cleanup", "record", "done"}
        /\ pc[c] \in {"cleanup", "record"} => ~IsAuthenticationError(outcome[c])

Agreed(c) ==
    pc[c] = "done" =>
        \/ response[c] \in {"REQUEST_DENIED", "BINDING_NOT_FOUND"} /\ row[c] = NoRow
        \/ response[c] = "PERSISTENCE_FAILED"
        \/ row[c] = AgreeingRow(response[c])
        \/ /\ signal[c] = "timed_out"
           /\ response[c] # "completed"
           /\ row[c] = FailedRow("UNKNOWN_FAILURE")

CheckInv(c) ==
    /\ Unanswered(c)
    /\ NoFailureYet(c)
    /\ OutcomeAndFailure(c)
    /\ Authenticated(c)
    /\ SavedThenNoAuthenticationError(c)
    /\ Agreed(c)
    /\ saved[c] => row[c] # ReauthenticationRow
    /\ row[c] = SuccessRow => session[c] = "valid" \/ saved[c]

IInv == TypeOK /\ \A c \in Checks : CheckInv(c)

----
(* Type correctness *)

USE DEF page, record, Goto, Stop, GotoIfSafe, Arrive

\* What the catch blocks throw is an error the tables know.
LEMMA ThrownType ==
    ASSUME NEW c \in Checks, NEW error \in Errors
    PROVE  Thrown(c, error) \in Errors
  BY DEF Thrown, Errors, BrowserErrors, BrowserError, ControlledBrowserFailureCode

\* The errors that the flow makes itself are errors.
LEMMA ErrorTypes ==
    /\ OriginMismatch \in Errors /\ LoginFailed \in Errors /\ OtherError \in Errors
    /\ \A code \in ControlledBrowserFailureCode : BrowserError(code) \in Errors
    /\ \A code \in CredentialBackendFailureCode : BackendError(code) \in Errors
  BY DEF OriginMismatch, LoginFailed, Errors, BrowserErrors, BackendErrors,
         ControlledBrowserFailureCode

\* Stopping with an error or a result keeps the control state well typed.
LEMMA StopType ==
    ASSUME TypeOK, NEW c \in Checks, NEW error \in Errors \cup {Completed},
           Stop(c, error)
    PROVE  /\ pc' \in [Checks -> Steps]
           /\ outcome' \in [Checks -> Errors \cup {Completed}]
  <1>1. CASE error \in Errors
    BY <1>1, ThrownType DEF TypeOK, Steps, Stop
  <1>2. CASE error = Completed
    <2>1. Thrown(c, error) \in Errors \cup {Completed}
      BY <1>2, ErrorTypes DEF Thrown, ControlledBrowserFailureCode
    <2> QED
      BY <2>1 DEF TypeOK, Steps, Stop
  <1> QED
    BY <1>1, <1>2

\* A failure of the backend or of the consumer keeps the state well typed.
LEMMA BackendFailedType ==
    ASSUME TypeOK, NEW c \in Checks, NEW code \in CredentialBackendFailureCode,
           BackendFailed(c, code)
    PROVE  /\ pc' \in [Checks -> Steps]
           /\ outcome' \in [Checks -> Errors \cup {Completed}]
           /\ failure' \in [Checks -> BrokerFailureCode \cup {"none"}]
  <1>1. Stop(c, BackendError(code))
    BY DEF BackendFailed
  <1>2. pc' \in [Checks -> Steps] /\ outcome' \in [Checks -> Errors \cup {Completed}]
    BY <1>1, StopType, ErrorTypes
  <1>3. failure' \in [Checks -> BrokerFailureCode \cup {"none"}]
    BY MapBackendFailureType DEF BackendFailed, TypeOK
  <1> QED
    BY <1>2, <1>3

\* A failing password callback keeps types.
LEMMA ConsumerFailedType ==
    ASSUME TypeOK, NEW c \in Checks, NEW error, ConsumerFailed(c, error)
    PROVE  /\ pc' \in [Checks -> Steps]
           /\ outcome' \in [Checks -> Errors \cup {Completed}]
           /\ failure' \in [Checks -> BrokerFailureCode \cup {"none"}]
  <1>1. PICK code \in CredentialBackendFailureCode : BackendFailed(c, code)
    BY DEF ConsumerFailed, CredentialBackendFailureCode
  <1> QED
    BY <1>1, BackendFailedType

\* The types of what a check's own step may change.
FlowType ==
    /\ pc \in [Checks -> Steps]
    /\ outcome \in [Checks -> Errors \cup {Completed}]
    /\ failure \in [Checks -> BrokerFailureCode \cup {"none"}]

\* Steps that neither stop nor fail change nothing of the flow but pc.
LEMMA GotoType ==
    ASSUME TypeOK, NEW c \in Checks, NEW step \in Steps, Goto(c, step)
    PROVE  /\ pc' \in [Checks -> Steps]
           /\ outcome' \in [Checks -> Errors \cup {Completed}]
  BY DEF TypeOK

\* So does going on after a look at the boundary,
LEMMA GotoIfSafeType ==
    ASSUME TypeOK, NEW c \in Checks, NEW step \in Steps, GotoIfSafe(c, step)
    PROVE  /\ pc' \in [Checks -> Steps]
           /\ outcome' \in [Checks -> Errors \cup {Completed}]
  <1>1. CASE Goto(c, step)
    BY <1>1, GotoType
  <1>2. CASE Stop(c, OriginMismatch)
    BY <1>2, StopType, ErrorTypes
  <1> QED
    BY <1>1, <1>2

\* and falling back from a session to the login.
LEMMA FallBackType ==
    ASSUME TypeOK, NEW c \in Checks, FallBack(c)
    PROVE  /\ pc' \in [Checks -> Steps]
           /\ outcome' \in [Checks -> Errors \cup {Completed}]
  <1>1. CASE Stop(c, BrowserError("CHECK_FAILED"))
    BY <1>1, StopType, ErrorTypes DEF ControlledBrowserFailureCode
  <1>2. CASE GotoIfSafe(c, "loginNav")
    BY <1>2, GotoIfSafeType DEF Steps, PageSteps
  <1> QED
    BY <1>1, <1>2 DEF FallBack

\* Each step of a check keeps the flow variables well typed.
LEMMA FlowTypePreserved ==
    ASSUME TypeOK, NEW c \in Checks, CheckStep(c)
    PROVE  FlowType'
  <1> USE DEF FlowType
  <1>0. TypeOK => failure \in [Checks -> BrokerFailureCode \cup {"none"}]
    BY DEF TypeOK
  <1> USE StopType, GotoType, GotoIfSafeType, FallBackType, ErrorTypes, <1>0
  <1>1. CASE CheckSubscription(c)
    BY <1>1 DEF CheckSubscription, TypeOK, Steps
  <1>2. CASE LoadSession(c)
    <2>1. CASE Stop(c, BrowserError("CHECK_FAILED"))
      BY <1>2, <2>1 DEF LoadSession, ControlledBrowserFailureCode
    <2>2. CASE Goto(c, "launch")
      BY <1>2, <2>2 DEF LoadSession, Steps
    <2>3. CASE /\ outcome' = [outcome EXCEPT ![c] = BrowserError("SESSION_CORRUPT")]
               /\ pc' = [pc EXCEPT ![c] = "cleanup"]
      BY <1>2, <2>3 DEF LoadSession, ControlledBrowserFailureCode, TypeOK, Steps
    <2> QED
      BY <1>2, <2>1, <2>2, <2>3 DEF LoadSession
  <1>3. CASE Launch(c)
    BY <1>3 DEF Launch, Steps
  <1>4. CASE SetUp(c)
    BY <1>4 DEF SetUp, Steps, PageSteps
  <1>5. CASE Navigate(c, "reuseNav", "reuseProbe")
    BY <1>5 DEF Navigate, Steps, PageSteps
  <1>6. CASE ReuseProbe(c)
    BY <1>6 DEF ReuseProbe, Steps, PageSteps
  <1>7. CASE ReuseExtract(c)
    BY <1>7 DEF ReuseExtract, ControlledBrowserFailureCode
  <1>8. CASE Navigate(c, "loginNav", "detect")
    BY <1>8 DEF Navigate, Steps, PageSteps
  <1>9. CASE DetectInteractive(c)
    BY <1>9 DEF DetectInteractive, Steps, PageSteps, ControlledBrowserFailureCode
  <1>10. CASE FormAction(c)
    BY <1>10, BackendFailedType DEF FormAction, Steps, PageSteps,
       CredentialBackendFailureCode
  <1>11. CASE UsePassword(c)
    BY <1>11, BackendFailedType, ConsumerFailedType, BackendFailuresAssumption
       DEF UsePassword, Steps, PageSteps
  <1>12. CASE FillForm(c)
    BY <1>12, ConsumerFailedType DEF FillForm, Steps, PageSteps
  <1>13. CASE Submit(c)
    BY <1>13, ConsumerFailedType DEF Submit, Steps, PageSteps
  <1>14. CASE PostLoginDetect(c)
    BY <1>14 DEF PostLoginDetect, Steps, PageSteps, ControlledBrowserFailureCode
  <1>15. CASE PostLoginProbe(c)
    BY <1>15 DEF PostLoginProbe, Steps, PageSteps
  <1>16. CASE CaptureState(c)
    BY <1>16 DEF CaptureState, Steps, PageSteps
  <1>17. CASE SaveSession(c)
    BY <1>17 DEF SaveSession, Steps, PageSteps
  <1>18. CASE ExtractSubscription(c)
    BY <1>18 DEF ExtractSubscription, ControlledBrowserFailureCode
  <1>19. CASE CleanUp(c)
    BY <1>19 DEF CleanUp, TypeOK, Steps, ControlledBrowserFailureCode
  <1>20. CASE Record(c)
    BY <1>20 DEF Record, Steps
  <1> QED
    BY <1>1, <1>2, <1>3, <1>4, <1>5, <1>6, <1>7, <1>8, <1>9, <1>10, <1>11,
       <1>12, <1>13, <1>14, <1>15, <1>16, <1>17, <1>18, <1>19, <1>20
       DEF CheckStep

\* A check's row is a row of the history, whichever error it is written for.
LEMMA RequestedRowType ==
    ASSUME TypeOK, NEW c \in Checks
    PROVE  RequestedRow(c) \in Rows
  <1>1. outcome[c] \in Errors \cup {Completed}
    BY DEF TypeOK
  <1>2. SuccessRow \in Rows
    BY DEF Rows
  <1> QED
    BY <1>1, <1>2, PersistenceOutcomeType DEF RequestedRow

\* The answer to the agent is a code of the vocabulary, recorded or not.
LEMMA AnswerType ==
    ASSUME TypeOK, NEW c \in Checks
    PROVE  /\ Answer(c, TRUE) \in BrokerFailureCode \cup {"completed"}
           /\ Answer(c, FALSE) \in BrokerFailureCode \cup {"completed"}
  <1>1. outcome[c] \in Errors \cup {Completed}
        /\ failure[c] \in BrokerFailureCode \cup {"none"}
    BY DEF TypeOK
  <1>2. \A error \in Errors : PublicFailure(error) \in BrokerFailureCode
    BY DEF PublicFailure, Errors, BackendErrors, BrowserErrors, BackendError,
           BrowserError, OtherError, BrokerFailureCode, ControlledBrowserFailureCode
  <1> QED
    BY <1>1, <1>2 DEF Answer, BrokerFailureCode, ControlledBrowserFailureCode

\* The variables outside the flow stay well typed too.
LEMMA CheckStepType ==
    ASSUME TypeOK, NEW c \in Checks, CheckStep(c)
    PROVE  TypeOK'
  <1>1. FlowType'
    BY FlowTypePreserved
  <1>2. vault' \in SessionStates \cup {"corrupt"}
    BY DEF TypeOK, CheckStep, CheckSubscription, LoadSession, Launch, SetUp,
           Navigate, ReuseProbe, ReuseExtract, DetectInteractive, FormAction,
           UsePassword, FillForm, Submit, PostLoginDetect, PostLoginProbe,
           CaptureState, SaveSession, ExtractSubscription, CleanUp, Record,
           SessionStates
  <1>3. signal' \in [Checks -> {"pending", "timed_out", "released"}]
    <2>1. CASE Record(c)
      BY <2>1 DEF Record, TypeOK
    <2>2. CASE UNCHANGED signal
      BY <2>2 DEF TypeOK
    <2> QED
      BY <2>1, <2>2
      DEF CheckStep, CheckSubscription, LoadSession, Launch, SetUp,
          Navigate, ReuseProbe, ReuseExtract, DetectInteractive, FormAction,
          UsePassword, FillForm, Submit, PostLoginDetect, PostLoginProbe,
          CaptureState, SaveSession, ExtractSubscription, CleanUp
  <1>4. browser' \in [Checks -> {"none", "open", "closing", "stuck", "closed"}]
    <2>1. CASE Launch(c) \/ CleanUp(c)
      BY <2>1 DEF Launch, CleanUp, CloseBrowser, TypeOK
    <2>2. CASE UNCHANGED browser
      BY <2>2 DEF TypeOK
    <2> QED
      BY <2>1, <2>2
      DEF CheckStep, CheckSubscription, LoadSession, SetUp,
          Navigate, ReuseProbe, ReuseExtract, DetectInteractive, FormAction,
          UsePassword, FillForm, Submit, PostLoginDetect, PostLoginProbe,
          CaptureState, SaveSession, ExtractSubscription, Record
  <1>5. url' \in [Checks -> Urls] /\ violation' \in [Checks -> BOOLEAN]
    <2>1. CASE \E u \in Landings : Arrive(c, u)
      BY <2>1, LandingsAssumption DEF TypeOK
    <2>2. CASE UNCHANGED <<url, violation>>
      BY <2>2 DEF TypeOK
    <2> QED
      BY <2>1, <2>2
      DEF CheckStep, CheckSubscription, LoadSession, Launch, SetUp,
          Navigate, ReuseProbe, ReuseExtract, DetectInteractive, FormAction,
          UsePassword, FillForm, Submit, PostLoginDetect, PostLoginProbe,
          CaptureState, SaveSession, ExtractSubscription, CleanUp, Record
  <1>6. session' \in [Checks -> SessionStates]
    BY DEF TypeOK, CheckStep, CheckSubscription, LoadSession, Launch, SetUp,
           Navigate, ReuseProbe, ReuseExtract, DetectInteractive, FormAction,
           UsePassword, FillForm, Submit, PostLoginDetect, PostLoginProbe,
           CaptureState, SaveSession, ExtractSubscription, CleanUp, Record
  <1>7. saved' \in [Checks -> BOOLEAN]
    BY DEF TypeOK, CheckStep, CheckSubscription, LoadSession, Launch, SetUp,
           Navigate, ReuseProbe, ReuseExtract, DetectInteractive, FormAction,
           UsePassword, FillForm, Submit, PostLoginDetect, PostLoginProbe,
           CaptureState, SaveSession, ExtractSubscription, CleanUp, Record
  <1>8. /\ row' \in [Checks -> Rows \cup {FailedRow("none")}]
        /\ response' \in [Checks -> BrokerFailureCode \cup {"none", "completed"}]
    <2>1. CASE Record(c)
      <3>1. PICK r \in {NoRow, RequestedRow(c)}, a \in {Answer(c, TRUE), Answer(c, FALSE)} :
              /\ row' = [row EXCEPT ![c] = r]
              /\ response' = [response EXCEPT ![c] = a]
        BY <2>1 DEF Record
      <3>2. /\ r \in Rows \cup {FailedRow("none")}
            /\ a \in BrokerFailureCode \cup {"completed"}
        BY RequestedRowType, AnswerType DEF NoRow
      <3> QED
        BY <3>1, <3>2 DEF TypeOK
    <2>2. CASE CheckSubscription(c)
      BY <2>2 DEF CheckSubscription, TypeOK, BrokerFailureCode
    <2>3. CASE UNCHANGED <<row, response>>
      BY <2>3 DEF TypeOK
    <2> QED
      BY <2>1, <2>2, <2>3
      DEF CheckStep, LoadSession, Launch, SetUp,
          Navigate, ReuseProbe, ReuseExtract, DetectInteractive, FormAction,
          UsePassword, FillForm, Submit, PostLoginDetect, PostLoginProbe,
          CaptureState, SaveSession, ExtractSubscription, CleanUp
  <1> QED
    BY <1>1, <1>2, <1>3, <1>4, <1>5, <1>6, <1>7, <1>8 DEF TypeOK, FlowType

\* Type correctness: every variable keeps its type in every behaviour.
THEOREM TypeCorrect == Spec => []TypeOK
  <1>1. Init => TypeOK
    BY DEF Init, TypeOK, SessionStates, Steps, PageSteps, Urls, Errors, NoRow
  <1>2. TypeOK /\ [Next]_vars => TypeOK'
    <2> SUFFICES ASSUME TypeOK, [Next]_vars PROVE TypeOK'
      OBVIOUS
    <2>1. ASSUME NEW c \in Checks, CheckStep(c) PROVE TypeOK'
      BY <2>1, CheckStepType
    <2>2. ASSUME NEW c \in Checks, Deadline(c) PROVE TypeOK'
      BY <2>2 DEF Deadline, TypeOK
    <2>3. ASSUME NEW c \in Checks, BrowserExits(c) \/ CloseFails(c) PROVE TypeOK'
      BY <2>3 DEF BrowserExits, CloseFails, TypeOK
    <2>4. ASSUME NEW c \in Checks, PageMoves(c) PROVE TypeOK'
      BY <2>4, LandingsAssumption DEF PageMoves, TypeOK
    <2>5. CASE VaultChanges
      BY <2>5 DEF VaultChanges, TypeOK, SessionStates
    <2>6. CASE UNCHANGED vars
      BY <2>6 DEF vars, TypeOK
    <2> QED
      BY <2>1, <2>2, <2>3, <2>4, <2>5, <2>6 DEF Next, Environment, Finished
  <1> QED
    BY <1>1, <1>2, PTL DEF Spec

----
(* Preservation of the inductive invariant *)

\* What CheckInv says is about these parts of the state.
StateOf(d) == <<pc[d], signal[d], browser[d], session[d], failure[d], outcome[d],
                saved[d], row[d], response[d]>>

\* CheckInv speaks only of the state of its own check.
LEMMA SameState ==
    ASSUME NEW d \in Checks, CheckInv(d), UNCHANGED StateOf(d)
    PROVE  CheckInv(d)'
  BY DEF StateOf, CheckInv, Unanswered, NoFailureYet, OutcomeAndFailure,
         Authenticated, SavedThenNoAuthenticationError, Agreed

\* The ways a step ends leave the other checks alone.
FlowOf(d) == <<pc[d], outcome[d], failure[d]>>

\* Steps that go on or stop a check,
LEMMA StopElsewhere ==
    ASSUME TypeOK, NEW c \in Checks, NEW d \in Checks, d # c
    PROVE  /\ \A error : Stop(c, error) => UNCHANGED <<pc[d], outcome[d]>>
           /\ \A step : Goto(c, step) => UNCHANGED <<pc[d], outcome[d]>>
           /\ \A step : GotoIfSafe(c, step) => UNCHANGED <<pc[d], outcome[d]>>
           /\ FallBack(c) => UNCHANGED <<pc[d], outcome[d]>>
  <1>1. \A error : Stop(c, error) => UNCHANGED <<pc[d], outcome[d]>>
    BY DEF TypeOK, Stop
  <1>2. \A step : Goto(c, step) => UNCHANGED <<pc[d], outcome[d]>>
    BY DEF TypeOK
  <1>3. \A step : GotoIfSafe(c, step) => UNCHANGED <<pc[d], outcome[d]>>
    BY <1>1, <1>2 DEF GotoIfSafe
  <1>4. FallBack(c) => UNCHANGED <<pc[d], outcome[d]>>
    BY <1>1, <1>3 DEF FallBack
  <1> QED
    BY <1>1, <1>2, <1>3, <1>4

\* and those on which a credential failure is kept.
LEMMA FailureElsewhere ==
    ASSUME TypeOK, NEW c \in Checks, NEW d \in Checks, d # c
    PROVE  /\ \A code : BackendFailed(c, code) => UNCHANGED FlowOf(d)
           /\ \A error : ConsumerFailed(c, error) => UNCHANGED FlowOf(d)
  <1>1. \A code : BackendFailed(c, code) => UNCHANGED FlowOf(d)
    <2> SUFFICES ASSUME NEW code, BackendFailed(c, code)
                 PROVE  UNCHANGED FlowOf(d)
      OBVIOUS
    <2>1. Stop(c, BackendError(code))
      BY DEF BackendFailed
    <2>2. UNCHANGED <<pc[d], outcome[d]>>
      BY <2>1, StopElsewhere
    <2>3. UNCHANGED failure[d]
      BY DEF BackendFailed, TypeOK
    <2> QED
      BY <2>2, <2>3 DEF FlowOf
  <1> QED
    BY <1>1 DEF ConsumerFailed

\* A step of one check leaves the control of the others alone.
LEMMA OtherFlows ==
    ASSUME TypeOK, NEW c \in Checks, NEW d \in Checks, d # c, CheckStep(c)
    PROVE  UNCHANGED FlowOf(d)
  <1> USE StopElsewhere, FailureElsewhere DEF FlowOf
  <1>1. CASE CheckSubscription(c)
    BY <1>1 DEF CheckSubscription, TypeOK
  <1>2. CASE LoadSession(c)
    <2>1. CASE Stop(c, BrowserError("CHECK_FAILED")) \/ Goto(c, "launch")
      BY <1>2, <2>1 DEF LoadSession
    <2>2. CASE /\ outcome' = [outcome EXCEPT ![c] = BrowserError("SESSION_CORRUPT")]
               /\ pc' = [pc EXCEPT ![c] = "cleanup"]
      BY <1>2, <2>2 DEF LoadSession, TypeOK
    <2> QED
      BY <1>2, <2>1, <2>2 DEF LoadSession
  <1>3. CASE Launch(c) \/ SetUp(c)
    BY <1>3 DEF Launch, SetUp
  <1>4. CASE Navigate(c, "reuseNav", "reuseProbe") \/ Navigate(c, "loginNav", "detect")
    BY <1>4 DEF Navigate
  <1>5. CASE ReuseProbe(c) \/ ReuseExtract(c)
    BY <1>5 DEF ReuseProbe, ReuseExtract
  <1>6. CASE DetectInteractive(c)
    BY <1>6 DEF DetectInteractive
  <1>7. CASE FormAction(c)
    BY <1>7 DEF FormAction
  <1>8. CASE UsePassword(c)
    BY <1>8 DEF UsePassword
  <1>9. CASE FillForm(c)
    BY <1>9 DEF FillForm
  <1>10. CASE Submit(c)
    BY <1>10 DEF Submit
  <1>11. CASE PostLoginDetect(c) \/ PostLoginProbe(c) \/ CaptureState(c)
    BY <1>11 DEF PostLoginDetect, PostLoginProbe, CaptureState
  <1>12. CASE SaveSession(c) \/ ExtractSubscription(c)
    BY <1>12 DEF SaveSession, ExtractSubscription
  <1>13. CASE CleanUp(c)
    BY <1>13 DEF CleanUp, TypeOK
  <1>14. CASE Record(c)
    BY <1>14 DEF Record
  <1> QED
    BY <1>1, <1>2, <1>3, <1>4, <1>5, <1>6, <1>7, <1>8, <1>9, <1>10, <1>11,
       <1>12, <1>13, <1>14 DEF CheckStep

\* A step of one check leaves the others alone.
LEMMA OtherChecks ==
    ASSUME TypeOK, NEW c \in Checks, NEW d \in Checks, d # c, CheckStep(c)
    PROVE  UNCHANGED StateOf(d)
  <1>1. UNCHANGED FlowOf(d)
    BY OtherFlows
  <1>2. UNCHANGED <<signal[d], browser[d], session[d]>>
    <2>1. CASE LoadSession(c)
      BY <2>1 DEF LoadSession, TypeOK
    <2>2. CASE Launch(c) \/ CleanUp(c)
      BY <2>2 DEF Launch, CleanUp, CloseBrowser, TypeOK
    <2>3. CASE Record(c)
      BY <2>3 DEF Record, TypeOK
    <2>4. CASE UNCHANGED <<signal, browser, session>>
      BY <2>4
    <2> QED
      BY <2>1, <2>2, <2>3, <2>4
      DEF CheckStep, CheckSubscription, SetUp,
          Navigate, ReuseProbe, ReuseExtract, DetectInteractive, FormAction,
          UsePassword, FillForm, Submit, PostLoginDetect, PostLoginProbe,
          CaptureState, SaveSession, ExtractSubscription
  <1>3. UNCHANGED <<saved[d], row[d], response[d]>>
    <2>1. CASE CheckSubscription(c)
      BY <2>1 DEF CheckSubscription, TypeOK
    <2>2. CASE SaveSession(c)
      BY <2>2 DEF SaveSession, TypeOK
    <2>3. CASE Record(c)
      BY <2>3 DEF Record, TypeOK
    <2>4. CASE UNCHANGED <<saved, row, response>>
      BY <2>4
    <2> QED
      BY <2>1, <2>2, <2>3, <2>4
      DEF CheckStep, LoadSession, Launch, SetUp,
          Navigate, ReuseProbe, ReuseExtract, DetectInteractive, FormAction,
          UsePassword, FillForm, Submit, PostLoginDetect, PostLoginProbe,
          CaptureState, ExtractSubscription, CleanUp
  <1> QED
    BY <1>1, <1>2, <1>3 DEF StateOf, FlowOf

\* Going on keeps the invariant when the next step's session is as it should be.
LEMMA GotoInv ==
    ASSUME TypeOK, NEW c \in Checks, CheckInv(c),
           pc[c] \in Running, NEW step \in Running \ {"idle"}, Goto(c, step),
           UNCHANGED <<signal, failure, row, response>>,
           step \in {"reuseNav", "reuseProbe", "reuseExtract"} => session'[c] = "valid",
           step = "extract" <=> saved'[c]
    PROVE  CheckInv(c)'
  <1>1. pc'[c] = step
    BY DEF TypeOK
  <1>2. step \notin {"idle", "cleanup", "record", "done"}
    BY DEF Running, Steps, PageSteps
  <1>3. pc[c] # "done"
    BY DEF Running, Steps, PageSteps
  <1>4. row[c] # ReauthenticationRow /\ row[c] # SuccessRow
    BY <1>3 DEF CheckInv, Unanswered, NoRow, FailedRow, ReauthenticationRow, SuccessRow
  <1> QED
    BY <1>1, <1>2, <1>3, <1>4
    DEF CheckInv, Unanswered, NoFailureYet, OutcomeAndFailure, Authenticated,
        SavedThenNoAuthenticationError, Agreed, Running

\* Stopping with an error that is not the backend's, or with a result, keeps it.
LEMMA StopInv ==
    ASSUME TypeOK, NEW c \in Checks, CheckInv(c), pc[c] \in Running,
           NEW error \in BrowserErrors \cup {OtherError, Completed}, Stop(c, error),
           UNCHANGED <<signal, failure, row, response>>,
           error = Completed => session'[c] = "valid" \/ saved'[c],
           saved'[c] => ~IsAuthenticationError(error)
    PROVE  CheckInv(c)'
  <1>1. pc'[c] = "cleanup" /\ outcome'[c] = Thrown(c, error)
    BY DEF TypeOK, Stop
  <1>2. pc[c] # "done"
    BY DEF Running, Steps, PageSteps
  <1>3. row[c] # ReauthenticationRow /\ row[c] # SuccessRow
    BY <1>2 DEF CheckInv, Unanswered, NoRow, FailedRow, ReauthenticationRow, SuccessRow
  <1>4. Thrown(c, error) \in {error, BrowserError("CHECK_FAILED")}
    BY DEF Thrown
  <1>5. BrowserError("CHECK_FAILED") \in BrowserErrors
        /\ BrowserError("CHECK_FAILED") # Completed
        /\ ~IsAuthenticationError(BrowserError("CHECK_FAILED"))
    BY DEF BrowserErrors, BrowserError, ControlledBrowserFailureCode, Completed,
           IsAuthenticationError
  <1> QED
    BY <1>1, <1>2, <1>3, <1>4, <1>5
    DEF CheckInv, Unanswered, NoFailureYet, OutcomeAndFailure, Authenticated,
        SavedThenNoAuthenticationError, Agreed, Running

\* A backend failure is kept in the context together with the error.
LEMMA BackendFailedInv ==
    ASSUME TypeOK, NEW c \in Checks, CheckInv(c), pc[c] \in Running,
           NEW code \in CredentialBackendFailureCode, BackendFailed(c, code),
           UNCHANGED <<signal, session, saved, row, response>>,
           ~saved[c]
    PROVE  CheckInv(c)'
  <1>1. /\ pc'[c] = "cleanup"
        /\ outcome'[c] = Thrown(c, BackendError(code))
        /\ failure'[c] = MapBackendFailure(code)
    BY DEF TypeOK, Stop, BackendFailed
  <1>2. pc[c] # "done"
    BY DEF Running, Steps, PageSteps
  <1>3. row[c] # ReauthenticationRow /\ row[c] # SuccessRow
    BY <1>2 DEF CheckInv, Unanswered, NoRow, FailedRow, ReauthenticationRow, SuccessRow
  <1>4. MapBackendFailure(code) # "none"
    BY MapBackendFailureType DEF BrokerFailureCode, ControlledBrowserFailureCode
  <1>5. \/ outcome'[c] = BackendError(code)
        \/ outcome'[c] = BrowserError("CHECK_FAILED") /\ signal[c] = "timed_out"
    <2>1. signal[c] \in {"pending", "timed_out"}
      BY <1>2 DEF CheckInv, Unanswered, TypeOK
    <2> QED
      BY <1>1, <2>1 DEF Thrown, Aborted
  <1>6. BackendError(code) # Completed /\ BrowserError("CHECK_FAILED") # Completed
    BY DEF BackendError, BrowserError, Completed
  <1> QED
    BY <1>1, <1>2, <1>3, <1>4, <1>5, <1>6
    DEF CheckInv, Unanswered, NoFailureYet, OutcomeAndFailure, Authenticated,
        SavedThenNoAuthenticationError, Agreed, Running

\* A failing password callback before the save keeps the invariant.
LEMMA ConsumerFailedInv ==
    ASSUME TypeOK, NEW c \in Checks, CheckInv(c), pc[c] \in Running,
           NEW error, ConsumerFailed(c, error),
           UNCHANGED <<signal, session, saved, row, response>>,
           ~saved[c]
    PROVE  CheckInv(c)'
  <1>1. PICK code \in CredentialBackendFailureCode : BackendFailed(c, code)
    BY DEF ConsumerFailed, CredentialBackendFailureCode
  <1> QED
    BY <1>1, BackendFailedInv

\* The errors that the steps stop with, none of which asks for authentication
\* where a session may have been saved.
LEMMA StepErrors ==
    /\ OriginMismatch \in BrowserErrors /\ LoginFailed \in BrowserErrors
    /\ \A code \in ControlledBrowserFailureCode : BrowserError(code) \in BrowserErrors
    /\ "CHECK_FAILED" \in ControlledBrowserFailureCode
    /\ "EXTRACTION_FAILED" \in ControlledBrowserFailureCode
    /\ "INTERACTIVE_REQUIRED" \in ControlledBrowserFailureCode
    /\ "SESSION_CORRUPT" \in ControlledBrowserFailureCode
    /\ \A error \in {OriginMismatch, OtherError, Completed,
                     BrowserError("EXTRACTION_FAILED")} : ~IsAuthenticationError(error)
    /\ \A error \in BrowserErrors \cup {OtherError} : error # Completed
  BY DEF OriginMismatch, LoginFailed, BrowserErrors, BrowserError, OtherError,
         Completed, ControlledBrowserFailureCode, IsAuthenticationError

\* A failed reuse goes on to the login or stops.
LEMMA FallBackInv ==
    ASSUME TypeOK, NEW c \in Checks, CheckInv(c), pc[c] \in Running, FallBack(c),
           UNCHANGED <<signal, failure, session, saved, row, response>>, ~saved[c]
    PROVE  CheckInv(c)'
  <1>0. saved'[c] = FALSE
    BY DEF TypeOK
  <1>1. CASE Stop(c, BrowserError("CHECK_FAILED")) \/ Stop(c, OriginMismatch)
    BY <1>0, <1>1, StopInv, StepErrors
  <1>2. CASE Goto(c, "loginNav")
    BY <1>0, <1>2, GotoInv DEF Running, Steps, PageSteps
  <1> QED
    BY <1>1, <1>2 DEF FallBack

\* The steps up to the launch of the browser
LEMMA StartInv ==
    ASSUME TypeOK, NEW c \in Checks, CheckInv(c),
           \/ CheckSubscription(c) \/ LoadSession(c) \/ Launch(c) \/ SetUp(c)
    PROVE  CheckInv(c)'
  <1>0. pc[c] \in {"idle", "load", "launch", "setup"} /\ pc[c] \in Running
    BY DEF CheckSubscription, LoadSession, Launch, SetUp, Running, Steps
  <1>1. ~saved[c] /\ failure[c] = "none"
    BY <1>0 DEF CheckInv, SavedThenNoAuthenticationError, NoFailureYet
  <1>2. CASE CheckSubscription(c)
    <2>1. row[c] = NoRow
      BY <1>0 DEF CheckInv, Unanswered
    <2>2. CASE pc' = [pc EXCEPT ![c] = "load"] /\ UNCHANGED response
      BY <1>1, <1>2, <2>2, GotoInv DEF CheckSubscription, Running, Steps, PageSteps, TypeOK
    <2>3. CASE /\ pc' = [pc EXCEPT ![c] = "done"]
               /\ \E code \in {"REQUEST_DENIED", "BINDING_NOT_FOUND"} :
                     response' = [response EXCEPT ![c] = code]
      <3>1. /\ pc'[c] = "done" /\ row'[c] = NoRow /\ ~saved'[c]
            /\ response'[c] \in {"REQUEST_DENIED", "BINDING_NOT_FOUND"}
            /\ browser'[c] = "none"
        BY <1>1, <1>2, <2>1, <2>3 DEF CheckSubscription, TypeOK, CheckInv, NoFailureYet
      <3> QED
        BY <3>1 DEF CheckInv, Unanswered, NoFailureYet, OutcomeAndFailure,
           Authenticated, SavedThenNoAuthenticationError, Agreed, Running,
           NoRow, FailedRow, SuccessRow, ReauthenticationRow
    <2> QED
      BY <1>2, <2>2, <2>3 DEF CheckSubscription
  <1>3. CASE LoadSession(c)
    <2>1. CASE Stop(c, BrowserError("CHECK_FAILED"))
      BY <1>0, <1>1, <1>3, <2>1, StopInv, StepErrors DEF LoadSession
    <2>2. CASE Goto(c, "launch")
      BY <1>0, <1>1, <1>3, <2>2, GotoInv DEF LoadSession, Running, Steps, PageSteps
    <2>3. CASE /\ outcome' = [outcome EXCEPT ![c] = BrowserError("SESSION_CORRUPT")]
               /\ pc' = [pc EXCEPT ![c] = "cleanup"]
      <3>1. Stop(c, BrowserError("SESSION_CORRUPT"))
        BY <2>3 DEF Stop, Thrown, BrowserError
      <3> QED
        BY <1>0, <1>1, <1>3, <3>1, StopInv, StepErrors DEF LoadSession
    <2> QED
      BY <1>3, <2>1, <2>2, <2>3 DEF LoadSession
  <1>4. CASE Launch(c)
    BY <1>0, <1>1, <1>4, StopInv, GotoInv, StepErrors
       DEF Launch, Running, Steps, PageSteps
  <1>5. CASE SetUp(c)
    BY <1>0, <1>1, <1>5, StopInv, GotoInv, StepErrors
       DEF SetUp, Running, Steps, PageSteps
  <1> QED
    BY <1>2, <1>3, <1>4, <1>5

\* The steps that try the stored session
LEMMA ReuseInv ==
    ASSUME TypeOK, NEW c \in Checks, CheckInv(c),
           \/ Navigate(c, "reuseNav", "reuseProbe")
           \/ ReuseProbe(c) \/ ReuseExtract(c)
    PROVE  CheckInv(c)'
  <1>0. pc[c] \in {"reuseNav", "reuseProbe", "reuseExtract"} /\ pc[c] \in Running
    BY DEF Navigate, ReuseProbe, ReuseExtract, Running, Steps, PageSteps
  <1>1. ~saved[c] /\ session[c] = "valid"
    BY <1>0 DEF CheckInv, SavedThenNoAuthenticationError, Authenticated
  <1>2. CASE Navigate(c, "reuseNav", "reuseProbe")
    BY <1>0, <1>1, <1>2, StopInv, GotoInv, StepErrors
       DEF Navigate, Running, Steps, PageSteps
  <1>3. CASE ReuseProbe(c)
    BY <1>0, <1>1, <1>3, StopInv, GotoInv, FallBackInv, StepErrors
       DEF ReuseProbe, Running, Steps, PageSteps
  <1>4. CASE ReuseExtract(c)
    BY <1>0, <1>1, <1>4, StopInv, GotoInv, FallBackInv, StepErrors
       DEF ReuseExtract, Running, Steps, PageSteps
  <1> QED
    BY <1>2, <1>3, <1>4

\* The steps of the login up to the capture of its session
LEMMA LoginInv ==
    ASSUME TypeOK, NEW c \in Checks, CheckInv(c),
           \/ Navigate(c, "loginNav", "detect") \/ DetectInteractive(c)
           \/ FormAction(c) \/ UsePassword(c) \/ FillForm(c) \/ Submit(c)
           \/ PostLoginDetect(c) \/ PostLoginProbe(c) \/ CaptureState(c)
    PROVE  CheckInv(c)'
  <1>0. /\ pc[c] \in PageSteps \ {"save", "extract", "reuseNav", "reuseProbe", "reuseExtract"}
        /\ pc[c] \in Running
    BY DEF Navigate, DetectInteractive, FormAction, UsePassword, FillForm, Submit,
       PostLoginDetect, PostLoginProbe, CaptureState, Running, Steps, PageSteps
  <1>1. ~saved[c]
    BY <1>0 DEF CheckInv, SavedThenNoAuthenticationError, PageSteps
  <1> USE <1>0, <1>1, StopInv, GotoInv, StepErrors DEF Running, Steps, PageSteps
  <1>2. CASE Navigate(c, "loginNav", "detect")
    BY <1>2 DEF Navigate
  <1>3. CASE DetectInteractive(c)
    BY <1>3 DEF DetectInteractive
  <1>4. CASE FormAction(c)
    BY <1>4, BackendFailedInv DEF FormAction, CredentialBackendFailureCode
  <1>5. CASE UsePassword(c)
    BY <1>5, BackendFailedInv, ConsumerFailedInv, BackendFailuresAssumption
       DEF UsePassword
  <1>6. CASE FillForm(c)
    BY <1>6, ConsumerFailedInv DEF FillForm
  <1>7. CASE Submit(c)
    BY <1>7, ConsumerFailedInv DEF Submit
  <1>8. CASE PostLoginDetect(c)
    BY <1>8 DEF PostLoginDetect
  <1>9. CASE PostLoginProbe(c)
    BY <1>9 DEF PostLoginProbe
  <1>10. CASE CaptureState(c)
    BY <1>10 DEF CaptureState
  <1> QED
    BY <1>2, <1>3, <1>4, <1>5, <1>6, <1>7, <1>8, <1>9, <1>10

\* Saving the new session and extracting with it
LEMMA SaveInv ==
    ASSUME TypeOK, NEW c \in Checks, CheckInv(c),
           SaveSession(c) \/ ExtractSubscription(c)
    PROVE  CheckInv(c)'
  <1>0. pc[c] \in {"save", "extract"} /\ pc[c] \in Running
    BY DEF SaveSession, ExtractSubscription, Running, Steps, PageSteps
  <1> USE <1>0, StopInv, GotoInv, StepErrors DEF Running, Steps, PageSteps
  <1>1. CASE SaveSession(c)
    <2>1. ~saved[c]
      BY <1>1 DEF SaveSession, CheckInv, SavedThenNoAuthenticationError
    <2>2. CASE saved' = [saved EXCEPT ![c] = TRUE]
      <3>1. saved'[c]
        BY <2>2 DEF TypeOK
      <3> QED
        BY <1>1, <3>1 DEF SaveSession
    <2>3. CASE Stop(c, OtherError) /\ UNCHANGED saved
      BY <1>1, <2>1, <2>3 DEF SaveSession
    <2> QED
      BY <1>1, <2>2, <2>3 DEF SaveSession
  <1>2. CASE ExtractSubscription(c)
    <2>1. saved[c]
      BY <1>2 DEF ExtractSubscription, CheckInv, Authenticated
    <2> QED
      BY <1>2, <2>1 DEF ExtractSubscription
  <1> QED
    BY <1>1, <1>2

\* The finally block of the browser flow keeps it,
LEMMA CleanUpInv ==
    ASSUME TypeOK, NEW c \in Checks, CheckInv(c), CleanUp(c)
    PROVE  CheckInv(c)'
  <1>1. pc[c] = "cleanup" /\ pc'[c] = "record"
    BY DEF CleanUp, TypeOK
  <1>2. \/ outcome'[c] = outcome[c]
        \/ outcome[c] = Completed /\ outcome'[c] = BrowserError("CHECK_FAILED")
    BY DEF CleanUp, TypeOK
  <1>3. /\ BrowserError("CHECK_FAILED") \in BrowserErrors
        /\ BrowserError("CHECK_FAILED") # Completed
        /\ ~IsAuthenticationError(BrowserError("CHECK_FAILED"))
        /\ \A code : BackendError(code) # Completed
    BY DEF BrowserErrors, BrowserError, ControlledBrowserFailureCode, Completed,
           IsAuthenticationError, BackendError
  <1>4. UNCHANGED <<signal, failure, session, saved, row, response>>
    BY DEF CleanUp
  <1> QED
    BY <1>1, <1>2, <1>3, <1>4
    DEF CheckInv, Unanswered, NoFailureYet, OutcomeAndFailure, Authenticated,
        SavedThenNoAuthenticationError, Agreed, Running

\* The heart of the matter: whatever the flow ended with, the row that is
\* requested and the answer that is given agree.
LEMMA RecordAgrees ==
    ASSUME TypeOK, NEW c \in Checks, CheckInv(c), pc[c] = "record"
    PROVE  \/ RequestedRow(c) = AgreeingRow(Answer(c, TRUE))
           \/ /\ signal[c] = "timed_out"
              /\ Answer(c, TRUE) # "completed"
              /\ RequestedRow(c) = FailedRow("UNKNOWN_FAILURE")
  <1>1. CASE failure[c] = "none"
    <2>1. CASE outcome[c] = Completed
      BY <1>1, <2>1 DEF RequestedRow, Answer, AgreeingRow
    <2>2. CASE outcome[c] = OtherError
      BY <1>1, <2>2 DEF RequestedRow, Answer, AgreeingRow, OtherError, Completed,
         PublicFailure, PersistenceOutcome, IsAuthenticationError, IsResponseError,
         IsConnectionError, BrowserError
    <2>3. CASE outcome[c] \in BrowserErrors
      <3>1. PICK code \in ControlledBrowserFailureCode : outcome[c] = BrowserError(code)
        BY <2>3 DEF BrowserErrors
      <3>2. Answer(c, TRUE) = code
        BY <1>1, <3>1 DEF Answer, Completed, PublicFailure, BrowserError
      <3>3. RequestedRow(c) = PersistenceOutcome(BrowserError(code))
        BY <3>1 DEF RequestedRow, Completed, BrowserError
      <3> QED
        BY <3>2, <3>3, BrowserTablesAgree
    <2> QED
      <3>1. \A code \in CredentialBackendFailureCode : MapBackendFailure(code) # "none"
        BY MapBackendFailureType DEF BrokerFailureCode, ControlledBrowserFailureCode
      <3> QED
        BY <1>1, <2>1, <2>2, <2>3, <3>1 DEF CheckInv, OutcomeAndFailure
  <1>2. ASSUME NEW code \in CredentialBackendFailureCode,
               outcome[c] = BackendError(code), failure[c] = MapBackendFailure(code)
        PROVE  RequestedRow(c) = AgreeingRow(Answer(c, TRUE))
    <2>1. Answer(c, TRUE) = MapBackendFailure(code)
      BY <1>2, MapBackendFailureType DEF Answer, BrokerFailureCode, ControlledBrowserFailureCode
    <2>2. RequestedRow(c) = PersistenceOutcome(BackendError(code))
      BY <1>2 DEF RequestedRow, Completed, BackendError
    <2> QED
      BY <2>1, <2>2, BackendTablesAgree
  <1>3. CASE /\ failure[c] # "none"
             /\ outcome[c] = BrowserError("CHECK_FAILED")
             /\ signal[c] = "timed_out"
    <2>1. Answer(c, TRUE) = failure[c] /\ failure[c] # "completed"
      BY <1>3 DEF Answer, TypeOK, BrokerFailureCode, ControlledBrowserFailureCode
    <2>2. RequestedRow(c) = FailedRow("UNKNOWN_FAILURE")
      BY <1>3 DEF RequestedRow, PersistenceOutcome, IsAuthenticationError,
         IsResponseError, IsConnectionError, BrowserError, Completed
    <2> QED
      BY <1>3, <2>1, <2>2
  <1> QED
    BY <1>1, <1>2, <1>3 DEF CheckInv, OutcomeAndFailure

\* and the recording of the outcome with the answer.
LEMMA RecordInv ==
    ASSUME TypeOK, NEW c \in Checks, CheckInv(c), Record(c)
    PROVE  CheckInv(c)'
  <1>1. /\ pc[c] = "record" /\ pc'[c] = "done"
        /\ UNCHANGED <<session, saved, browser>>
        /\ signal[c] = "timed_out" => signal'[c] = "timed_out"
    BY DEF Record, TypeOK
  <1>2. \/ row'[c] = RequestedRow(c) /\ response'[c] = Answer(c, TRUE)
        \/ row'[c] \in {NoRow, RequestedRow(c)} /\ response'[c] = "PERSISTENCE_FAILED"
    BY DEF Record, TypeOK, Answer
  <1>3. Agreed(c)'
    BY <1>1, <1>2, RecordAgrees DEF Agreed
  <1>4. outcome[c] \in Errors \cup {Completed}
    BY DEF TypeOK
  <1>5. RequestedRow(c) = ReauthenticationRow => IsAuthenticationError(outcome[c])
    BY DEF RequestedRow, PersistenceOutcome, FailedRow, ReauthenticationRow, SuccessRow
  <1>6. RequestedRow(c) = SuccessRow => outcome[c] = Completed
    BY <1>4, PersistenceOutcomeType DEF RequestedRow
  <1>7. NoRow # ReauthenticationRow /\ NoRow # SuccessRow
    BY DEF NoRow, FailedRow, ReauthenticationRow, SuccessRow
  <1> QED
    BY <1>1, <1>2, <1>3, <1>5, <1>6, <1>7
    DEF CheckInv, Unanswered, NoFailureYet, OutcomeAndFailure, Authenticated,
        SavedThenNoAuthenticationError, Running

\* What happens around a check does not disturb it.
LEMMA EnvironmentInv ==
    ASSUME TypeOK, NEW c \in Checks, NEW d \in Checks, CheckInv(d), Environment(c)
    PROVE  CheckInv(d)'
  <1>1. CASE Deadline(c)
    <2>1. /\ UNCHANGED <<pc, failure, outcome, session, saved, row, response>>
          /\ signal'[d] \in {signal[d], "timed_out"}
          /\ signal[d] = "timed_out" => signal'[d] = "timed_out"
          /\ browser'[d] = browser[d] \/ (pc[d] \in PageSteps /\ browser'[d] = "closing")
      BY <1>1 DEF Deadline, TypeOK
    <2> QED
      BY <2>1 DEF CheckInv, Unanswered, NoFailureYet, OutcomeAndFailure,
         Authenticated, SavedThenNoAuthenticationError, Agreed, PageSteps
  <1>2. CASE BrowserExits(c) \/ CloseFails(c)
    <2>1. /\ UNCHANGED <<pc, signal, failure, outcome, session, saved, row, response>>
          /\ \/ browser'[d] = browser[d]
             \/ browser[d] \in {"open", "closing", "stuck"} /\ browser'[d] \in {"closed", "stuck"}
      BY <1>2 DEF BrowserExits, CloseFails, TypeOK
    <2> QED
      BY <2>1 DEF CheckInv, Unanswered, NoFailureYet, OutcomeAndFailure,
         Authenticated, SavedThenNoAuthenticationError, Agreed
  <1>3. CASE PageMoves(c)
    BY <1>3, SameState DEF PageMoves, StateOf
  <1> QED
    BY <1>1, <1>2, <1>3 DEF Environment

----
(* The theorems *)

\* Every step of every check, and whatever else happens, keeps the invariant.
LEMMA Invariance == Spec => []IInv
  <1>1. Init => IInv
    <2> SUFFICES ASSUME Init PROVE IInv
      OBVIOUS
    <2>1. TypeOK
      BY DEF Init, TypeOK, SessionStates, Steps, PageSteps, Urls, Errors, NoRow
    <2>2. ASSUME NEW c \in Checks PROVE CheckInv(c)
      BY <2>2 DEF Init, CheckInv, Unanswered, NoFailureYet, OutcomeAndFailure,
         Authenticated, SavedThenNoAuthenticationError, Agreed, NoRow,
         FailedRow, SuccessRow, ReauthenticationRow
    <2> QED
      BY <2>1, <2>2 DEF IInv
  <1>2. IInv /\ TypeOK' /\ [Next]_vars => IInv'
    <2> SUFFICES ASSUME IInv, TypeOK', [Next]_vars, NEW d \in Checks
                 PROVE  CheckInv(d)'
      BY DEF IInv
    <2>0. TypeOK /\ CheckInv(d)
      BY DEF IInv
    <2>1. ASSUME NEW c \in Checks, CheckStep(c), d # c PROVE CheckInv(d)'
      BY <2>0, <2>1, OtherChecks, SameState
    <2>2. CASE CheckStep(d)
      BY <2>0, <2>2, StartInv, ReuseInv, LoginInv, SaveInv, CleanUpInv, RecordInv
         DEF CheckStep
    <2>3. ASSUME NEW c \in Checks, Environment(c) PROVE CheckInv(d)'
      BY <2>0, <2>3, EnvironmentInv
    <2>4. CASE VaultChanges
      BY <2>0, <2>4, SameState DEF VaultChanges, StateOf
    <2>5. CASE UNCHANGED vars
      BY <2>0, <2>5, SameState DEF vars, StateOf
    <2> QED
      BY <2>1, <2>2, <2>3, <2>4, <2>5 DEF Next, Finished
  <1> QED
    BY <1>1, <1>2, TypeCorrect, PTL DEF Spec

\* The answer given to the agent and the row in the history agree, for any number
\* of checks and any failures of the backend.
THEOREM AnswersAgreeWithHistory == Spec => []OutcomeAgreement
  <1>1. IInv => OutcomeAgreement
    BY DEF IInv, CheckInv, Agreed, OutcomeAgreement
  <1> QED
    BY <1>1, Invariance, PTL

\* No check asks for reauthentication after it stored a new session.
THEOREM NoReauthenticationAfterSave == Spec => []ReauthenticationMeansNoNewSession
  <1>1. IInv => ReauthenticationMeansNoNewSession
    BY DEF IInv, CheckInv, ReauthenticationMeansNoNewSession
  <1> QED
    BY <1>1, Invariance, PTL

\* Every recorded success had a session that authenticated.
THEOREM SuccessHadSession == Spec => []SuccessIsAuthenticated
  <1>1. IInv => SuccessIsAuthenticated
    BY DEF IInv, CheckInv, SuccessIsAuthenticated
  <1> QED
    BY <1>1, Invariance, PTL

----
(***************************************************************************)
(* Deadlines and violations: properties of a check's past                  *)
(***************************************************************************)

\* A signal that timed out stays so; the signal of a check that goes on is pending or
\* timed out.
LEMMA SignalKept ==
    ASSUME TypeOK, NEW c \in Checks, CheckStep(c), NEW d \in Checks
    PROVE  signal[d] = "timed_out" => signal'[d] = "timed_out"
  <1>1. CASE Record(c)
    BY <1>1 DEF Record, TypeOK
  <1>2. CASE UNCHANGED signal
    BY <1>2
  <1> QED
    BY <1>1, <1>2
    DEF CheckStep, CheckSubscription, LoadSession, Launch, SetUp,
        Navigate, ReuseProbe, ReuseExtract, DetectInteractive, FormAction,
        UsePassword, FillForm, Submit, PostLoginDetect, PostLoginProbe,
        CaptureState, SaveSession, ExtractSubscription, CleanUp

\* The steps of other checks and of the vault do not touch a check, and a step of its
\* environment touches its signal, its browser and its page only.
LEMMA AroundCheck ==
    ASSUME TypeOK, NEW c \in Checks, [Next]_vars, ~CheckStep(c)
    PROVE  /\ UNCHANGED <<pc[c], outcome[c], failure[c], saved[c], row[c], response[c]>>
           /\ signal[c] = "timed_out" => signal'[c] = "timed_out"
           /\ violation[c] => violation'[c]
  <1>1. ASSUME NEW e \in Checks, CheckStep(e)
        PROVE  /\ UNCHANGED StateOf(c)
               /\ violation[c] => violation'[c]
    <2>1. e # c
      BY <1>1
    <2>2. UNCHANGED StateOf(c)
      BY <1>1, <2>1, OtherChecks
    <2>3. violation[c] => violation'[c]
      <3>1. CASE \E u \in Landings : Arrive(e, u)
        BY <3>1, <2>1 DEF TypeOK
      <3>2. CASE UNCHANGED violation
        BY <3>2
      <3> QED
        BY <1>1, <3>1, <3>2
        DEF CheckStep, CheckSubscription, LoadSession, Launch, SetUp,
            Navigate, ReuseProbe, ReuseExtract, DetectInteractive, FormAction,
            UsePassword, FillForm, Submit, PostLoginDetect, PostLoginProbe,
            CaptureState, SaveSession, ExtractSubscription, CleanUp, Record
    <2> QED
      BY <2>2, <2>3
  <1>2. ASSUME NEW e \in Checks, Environment(e)
        PROVE  /\ UNCHANGED <<pc, outcome, failure, saved, row, response>>
               /\ signal[c] = "timed_out" => signal'[c] = "timed_out"
               /\ violation[c] => violation'[c]
    <2>1. CASE Deadline(e)
      BY <2>1 DEF Deadline, TypeOK
    <2>2. CASE BrowserExits(e) \/ CloseFails(e)
      BY <2>2 DEF BrowserExits, CloseFails
    <2>3. CASE PageMoves(e)
      BY <2>3 DEF PageMoves, TypeOK
    <2> QED
      BY <1>2, <2>1, <2>2, <2>3 DEF Environment
  <1>3. CASE VaultChanges
    BY <1>3 DEF VaultChanges
  <1>4. CASE UNCHANGED vars
    BY <1>4 DEF vars
  <1> QED
    BY <1>1, <1>2, <1>3, <1>4 DEF Next, Finished, StateOf

\* With the 1Password backend, a cancellation that is kept or answered has a deadline
\* behind it.
CancelledInv(c) ==
    BackendKind = "one_password" =>
        /\ failure[c] = "REQUEST_CANCELLED" => signal[c] = "timed_out"
        /\ response[c] = "REQUEST_CANCELLED" => signal[c] = "timed_out"

\* CANCELLED is the only backend failure that the agent sees as REQUEST_CANCELLED.
LEMMA OnlyCancelled ==
    ASSUME TypeOK, NEW c \in Checks, NEW code \in CredentialBackendFailureCode,
           BackendFailed(c, code), failure'[c] = "REQUEST_CANCELLED"
    PROVE  code = "CANCELLED"
  <1>1. MapBackendFailure(code) = "REQUEST_CANCELLED"
    BY DEF BackendFailed, TypeOK
  <1> QED
    BY <1>1 DEF MapBackendFailure, CredentialBackendFailureCode

\* A check step keeps a cancellation only once its signal is aborted.
LEMMA CancellationIsHeard ==
    ASSUME TypeOK, NEW c \in Checks, CheckStep(c), BackendKind = "one_password",
           failure'[c] = "REQUEST_CANCELLED"
    PROVE  failure[c] = "REQUEST_CANCELLED" \/ Aborted(c)
  <1>1. ASSUME NEW error, ConsumerFailed(c, error)
        PROVE  Aborted(c)
    <2>1. PICK code \in CredentialBackendFailureCode :
              BackendFailed(c, code) /\ (code = "CANCELLED" => Aborted(c))
      BY <1>1 DEF ConsumerFailed, CredentialBackendFailureCode
    <2> QED
      BY <2>1, OnlyCancelled
  <1>2. CASE UNCHANGED failure
    BY <1>2
  <1>3. CASE FormAction(c)
    <2>1. CASE BackendFailed(c, "ORIGIN_MISMATCH")
      BY <2>1, OnlyCancelled DEF CredentialBackendFailureCode
    <2> QED
      BY <1>2, <1>3, <2>1 DEF FormAction
  <1>4. CASE UsePassword(c)
    <2>1. ASSUME NEW code \in BackendFailures, code = "CANCELLED" => Aborted(c),
                 BackendFailed(c, code)
          PROVE  Aborted(c)
      BY <2>1, OnlyCancelled, BackendFailuresAssumption
    <2> QED
      BY <1>1, <1>2, <1>4, <2>1 DEF UsePassword
  <1>5. CASE FillForm(c)
    BY <1>1, <1>2, <1>5 DEF FillForm
  <1>6. CASE Submit(c)
    BY <1>1, <1>2, <1>6 DEF Submit
  <1> QED
    BY <1>2, <1>3, <1>4, <1>5, <1>6
    DEF CheckStep, CheckSubscription, LoadSession, Launch, SetUp,
        Navigate, ReuseProbe, ReuseExtract, DetectInteractive,
        PostLoginDetect, PostLoginProbe,
        CaptureState, SaveSession, ExtractSubscription, CleanUp, Record

\* The executor's own failure codes have no cancellation: such an answer is the
\* failure kept in the context.
LEMMA CancelledAnswer ==
    ASSUME TypeOK, NEW c \in Checks, CheckStep(c), response'[c] = "REQUEST_CANCELLED"
    PROVE  response[c] = "REQUEST_CANCELLED" \/ failure[c] = "REQUEST_CANCELLED"
  <1>1. CASE CheckSubscription(c)
    BY <1>1 DEF CheckSubscription, TypeOK
  <1>2. CASE Record(c)
    <2>1. PICK recorded \in BOOLEAN : response' = [response EXCEPT ![c] = Answer(c, recorded)]
      BY <1>2 DEF Record
    <2>2. Answer(c, recorded) = "REQUEST_CANCELLED"
      BY <2>1 DEF TypeOK
    <2>3. outcome[c] \in Errors \cup {Completed}
      BY DEF TypeOK
    <2>4. \A error \in Errors : PublicFailure(error) # "REQUEST_CANCELLED"
      BY DEF PublicFailure, Errors, BackendErrors, BrowserErrors, BackendError,
         BrowserError, OtherError, ControlledBrowserFailureCode
    <2> QED
      BY <2>2, <2>3, <2>4 DEF Answer
  <1>3. CASE UNCHANGED response
    BY <1>3
  <1> QED
    BY <1>1, <1>2, <1>3
    DEF CheckStep, LoadSession, Launch, SetUp,
        Navigate, ReuseProbe, ReuseExtract, DetectInteractive, FormAction,
        UsePassword, FillForm, Submit, PostLoginDetect, PostLoginProbe,
        CaptureState, SaveSession, ExtractSubscription, CleanUp

\* With the 1Password backend a check is answered REQUEST_CANCELLED only after its
\* deadline passed.
THEOREM CancelledWasTimedOut == Spec => []CancelledMeansTimedOut
  <1> DEFINE Inv == \A c \in Checks : CancelledInv(c)
  <1>1. Init => Inv
    BY DEF Init, CancelledInv
  <1>2. IInv /\ Inv /\ [Next]_vars => Inv'
    <2> SUFFICES ASSUME IInv, Inv, [Next]_vars, NEW c \in Checks,
                        BackendKind = "one_password"
                 PROVE  /\ failure'[c] = "REQUEST_CANCELLED" => signal'[c] = "timed_out"
                        /\ response'[c] = "REQUEST_CANCELLED" => signal'[c] = "timed_out"
      BY DEF CancelledInv
    <2>0. TypeOK /\ CheckInv(c)
      BY DEF IInv
    <2>1. /\ failure[c] = "REQUEST_CANCELLED" => signal[c] = "timed_out"
          /\ response[c] = "REQUEST_CANCELLED" => signal[c] = "timed_out"
      BY DEF CancelledInv
    <2>2. CASE CheckStep(c)
      <3>1. pc[c] # "done"
        BY <2>2
        DEF CheckStep, CheckSubscription, LoadSession, Launch, SetUp,
            Navigate, ReuseProbe, ReuseExtract, DetectInteractive, FormAction,
            UsePassword, FillForm, Submit, PostLoginDetect, PostLoginProbe,
            CaptureState, SaveSession, ExtractSubscription, CleanUp, Record
      <3>2. Aborted(c) => signal[c] = "timed_out"
        BY <2>0, <3>1 DEF Aborted, TypeOK, CheckInv, Unanswered
      <3>3. signal[c] = "timed_out" => signal'[c] = "timed_out"
        BY <2>0, <2>2, SignalKept
      <3>4. failure'[c] = "REQUEST_CANCELLED" => signal[c] = "timed_out"
        BY <2>0, <2>1, <2>2, <3>2, CancellationIsHeard
      <3>5. response'[c] = "REQUEST_CANCELLED" => signal[c] = "timed_out"
        BY <2>0, <2>1, <2>2, CancelledAnswer
      <3> QED
        BY <3>3, <3>4, <3>5
    <2>3. CASE ~CheckStep(c)
      BY <2>0, <2>1, <2>3, AroundCheck
    <2> QED
      BY <2>2, <2>3
  <1>3. Inv => CancelledMeansTimedOut
    BY DEF CancelledInv, CancelledMeansTimedOut
  <1> QED
    BY <1>1, <1>2, <1>3, Invariance, PTL DEF Spec

\* A check that timed out before it came to record: it has no success, and nothing to
\* record one from.
LateInv(c) ==
    /\ signal[c] = "timed_out" /\ row[c] # SuccessRow
    /\ pc[c] = "record" => outcome[c] # Completed

\* Such a check stays so: the executor looks at the signal after the browser flow.
LEMMA LateStays ==
    ASSUME IInv, NEW c \in Checks, LateInv(c), [Next]_vars
    PROVE  LateInv(c)'
  <1>0. TypeOK /\ CheckInv(c)
    BY DEF IInv
  <1>1. CASE ~CheckStep(c)
    BY <1>0, <1>1, AroundCheck DEF LateInv
  <1>2. CASE CheckStep(c)
    <2>0. signal'[c] = "timed_out"
      BY <1>0, <1>2, SignalKept DEF LateInv
    <2>1. CASE Record(c)
      <3>1. outcome[c] \in Errors
        BY <1>0, <2>1 DEF Record, LateInv, TypeOK
      <3>2. RequestedRow(c) # SuccessRow
        BY <3>1, PersistenceOutcomeType DEF RequestedRow, LateInv, Record, Completed, Errors, BackendErrors, BrowserErrors, BackendError, BrowserError, OtherError
      <3>3. row'[c] \in {NoRow, RequestedRow(c)} /\ pc'[c] = "done"
        BY <1>0, <2>1 DEF Record, TypeOK
      <3> QED
        BY <2>0, <3>2, <3>3 DEF LateInv, NoRow, FailedRow, SuccessRow
    <2>2. CASE CleanUp(c)
      <3>1. outcome'[c] # Completed
        BY <1>0, <2>2 DEF CleanUp, TypeOK, LateInv, Aborted, BrowserError, Completed
      <3>2. row' = row
        BY <2>2 DEF CleanUp
      <3> QED
        BY <2>0, <3>1, <3>2 DEF LateInv
    <2>3. ASSUME ~Record(c), ~CleanUp(c)
          PROVE  row' = row /\ pc'[c] # "record"
      BY <1>0, <1>2, <2>3
      DEF TypeOK, CheckStep, CheckSubscription, LoadSession, Launch, SetUp,
          Navigate, ReuseProbe, ReuseExtract, DetectInteractive, FormAction,
          UsePassword, FillForm, Submit, PostLoginDetect, PostLoginProbe,
          CaptureState, SaveSession, ExtractSubscription, BackendFailed,
          ConsumerFailed, FallBack
    <2> QED
      BY <2>0, <2>1, <2>2, <2>3 DEF LateInv
  <1> QED
    BY <1>1, <1>2

\* A check that timed out before it came to record never records a success, whatever
\* its page work comes to.
THEOREM LateCheckFails == Spec => LateCheckIsNoSuccess
  <1>1. ASSUME NEW c \in Checks
        PROVE  Spec => [](signal[c] = "timed_out" /\ pc[c] # "record" /\ response[c] = "none"
                            => [](row[c] # SuccessRow))
    <2>1. /\ IInv
          /\ signal[c] = "timed_out" /\ pc[c] # "record" /\ response[c] = "none"
          => LateInv(c)
      BY DEF IInv, CheckInv, Unanswered, Agreed, LateInv, AgreeingRow, NoRow, FailedRow,
         SuccessRow
    <2>2. IInv /\ LateInv(c) /\ [Next]_vars => LateInv(c)'
      BY LateStays
    <2>3. LateInv(c) => row[c] # SuccessRow
      BY DEF LateInv
    <2> QED
      BY <2>1, <2>2, <2>3, Invariance, PTL DEF Spec
  <1> QED
    BY <1>1 DEF LateCheckIsNoSuccess

\* A check whose page misbehaved before its session was captured: it has not saved one,
\* and has no result to record as a success.
ViolatedInv(c) ==
    /\ violation[c] /\ ~saved[c] /\ row[c] # SuccessRow
    /\ pc[c] \in BeforeCapture \cup {"cleanup", "record", "done"}
    /\ pc[c] \in {"cleanup", "record"} => outcome[c] # Completed

HIDE DEF Goto, Stop, GotoIfSafe

\* The ways on from a page step: with a violation none is safe, so that each goes to
\* another step before the capture or stops with an error.
LEMMA ViolatedGoesOn ==
    ASSUME TypeOK, NEW c \in Checks, violation[c], violation'[c]
    PROVE  /\ ~Safe(c) /\ ~Safe(c)'
           /\ \A step : GotoIfSafe(c, step) => Stop(c, OriginMismatch)
           /\ FallBack(c) => \E error \in BrowserErrors : Stop(c, error)
           /\ \A error \in Errors :
                 Stop(c, error) => pc'[c] = "cleanup" /\ outcome'[c] # Completed
  <1>1. ~Safe(c) /\ ~Safe(c)'
    BY DEF Safe
  <1>3. \A step : GotoIfSafe(c, step) => Stop(c, OriginMismatch)
    BY <1>1 DEF GotoIfSafe
  <1>4. FallBack(c) => \E error \in BrowserErrors : Stop(c, error)
    BY <1>3, StepErrors DEF FallBack
  <1>5. ASSUME NEW error \in Errors, Stop(c, error)
        PROVE  pc'[c] = "cleanup" /\ outcome'[c] # Completed
    <2>1. pc'[c] = "cleanup" /\ outcome'[c] = Thrown(c, error)
      BY <1>5 DEF TypeOK, Stop
    <2>2. Thrown(c, error) \in Errors
      BY ThrownType
    <2>3. \A e \in Errors : e # Completed
      BY DEF Errors, BackendErrors, BrowserErrors, BackendError, BrowserError, OtherError,
         Completed
    <2> QED
      BY <2>1, <2>2, <2>3
  <1> QED
    BY <1>1, <1>3, <1>4, <1>5

\* A failure of the backend or of the password callback stops the check too.
LEMMA FailureStops ==
    ASSUME TypeOK, NEW c \in Checks
    PROVE  /\ \A code \in CredentialBackendFailureCode :
                 BackendFailed(c, code) => \E error \in Errors : Stop(c, error)
           /\ \A error : ConsumerFailed(c, error) => \E e \in Errors : Stop(c, e)
  <1>1. \A code \in CredentialBackendFailureCode :
           BackendFailed(c, code) => \E error \in Errors : Stop(c, error)
    BY ErrorTypes DEF BackendFailed
  <1>2. \A error : ConsumerFailed(c, error) =>
                     \E code \in CredentialBackendFailureCode : BackendFailed(c, code)
    BY DEF ConsumerFailed, CredentialBackendFailureCode
  <1> QED
    BY <1>1, <1>2

\* A page step of such a check goes to a page step before the capture or stops.
LEMMA ViolatedPageStep ==
    ASSUME TypeOK, NEW c \in Checks, violation[c], violation'[c], pc[c] \in BeforeCapture,
           CheckStep(c)
    PROVE  /\ \/ pc'[c] \in BeforeCapture
              \/ pc'[c] = "cleanup" /\ outcome'[c] # Completed
           /\ UNCHANGED <<saved, row>>
  <1> DEFINE Kept == UNCHANGED <<saved, row>>
             Good == \/ pc'[c] \in BeforeCapture
                     \/ pc'[c] = "cleanup" /\ outcome'[c] # Completed
             Steer == \/ \E step \in BeforeCapture : Goto(c, step)
                      \/ \E error \in Errors : Stop(c, error)
  <1>1. Steer => Good
    <2>1. ASSUME NEW step \in BeforeCapture, Goto(c, step) PROVE pc'[c] \in BeforeCapture
      BY <2>1 DEF Goto, TypeOK
    <2> QED
      BY <2>1, ViolatedGoesOn
  <1>2. /\ ~Safe(c) /\ ~Safe(c)'
        /\ \A step : GotoIfSafe(c, step) => Stop(c, OriginMismatch)
        /\ FallBack(c) => \E error \in BrowserErrors : Stop(c, error)
    BY ViolatedGoesOn
  <1>3. /\ BrowserErrors \subseteq Errors
        /\ {"loginNav", "reuseProbe", "detect", "backend", "fill", "submit", "postDetect", "postProbe"}
             \subseteq BeforeCapture
    BY DEF Errors, BeforeCapture, PageSteps
  <1> HIDE DEF Good
  <1> USE <1>2, <1>3, ErrorTypes
  <1>4. ASSUME Navigate(c, "reuseNav", "reuseProbe") \/ Navigate(c, "loginNav", "detect") PROVE Steer /\ Kept
    BY <1>4 DEF Navigate
  <1>5. ASSUME ReuseProbe(c) PROVE Steer /\ Kept
    BY <1>5 DEF ReuseProbe
  <1>6. ASSUME DetectInteractive(c) PROVE Steer /\ Kept
    BY <1>6 DEF DetectInteractive, ControlledBrowserFailureCode
  <1>7. ASSUME FormAction(c) PROVE Steer /\ Kept
    BY <1>7, FailureStops DEF FormAction, CredentialBackendFailureCode
  <1>8. ASSUME UsePassword(c) PROVE Steer /\ Kept
    BY <1>8, FailureStops, BackendFailuresAssumption DEF UsePassword
  <1>9. ASSUME FillForm(c) PROVE Steer /\ Kept
    BY <1>9, FailureStops DEF FillForm
  <1>10. ASSUME Submit(c) PROVE Steer /\ Kept
    BY <1>10, FailureStops DEF Submit
  <1>11. ASSUME PostLoginDetect(c) PROVE Steer /\ Kept
    BY <1>11 DEF PostLoginDetect, ControlledBrowserFailureCode
  <1>12. ASSUME PostLoginProbe(c) PROVE Steer /\ Kept
    BY <1>12 DEF PostLoginProbe
  <1>13. ASSUME CaptureState(c) PROVE Steer /\ Kept
    BY <1>13 DEF CaptureState
  <1> QED
    <2>1. ~(\/ CheckSubscription(c) \/ LoadSession(c) \/ Launch(c) \/ SetUp(c)
            \/ ReuseExtract(c) \/ SaveSession(c) \/ ExtractSubscription(c)
            \/ CleanUp(c) \/ Record(c))
      BY DEF CheckSubscription, LoadSession, Launch, SetUp, ReuseExtract, SaveSession,
         ExtractSubscription, CleanUp, Record, BeforeCapture, PageSteps
    <2> QED
      BY <2>1, <1>1, <1>4, <1>5, <1>6, <1>7, <1>8, <1>9, <1>10, <1>11, <1>12, <1>13
         DEF CheckStep, Good

\* Such a check stays so.
LEMMA ViolatedStays ==
    ASSUME IInv, NEW c \in Checks, ViolatedInv(c), [Next]_vars
    PROVE  ViolatedInv(c)'
  <1>0. TypeOK
    BY DEF IInv
  <1>1. CASE ~CheckStep(c)
    BY <1>0, <1>1, AroundCheck DEF ViolatedInv
  <1>2. CASE CheckStep(c)
    <2>0. violation'[c]
      <3>1. CASE \E u \in Landings : Arrive(c, u)
        BY <3>1, <1>0 DEF TypeOK, ViolatedInv
      <3>2. CASE UNCHANGED violation
        BY <3>2 DEF ViolatedInv
      <3> QED
        BY <1>2, <3>1, <3>2
        DEF CheckStep, CheckSubscription, LoadSession, Launch, SetUp,
            Navigate, ReuseProbe, ReuseExtract, DetectInteractive, FormAction,
            UsePassword, FillForm, Submit, PostLoginDetect, PostLoginProbe,
            CaptureState, SaveSession, ExtractSubscription, CleanUp, Record
    <2>1. CASE pc[c] \in BeforeCapture
      <3>1. /\ \/ pc'[c] \in BeforeCapture
               \/ pc'[c] = "cleanup" /\ outcome'[c] # Completed
            /\ UNCHANGED <<saved, row>>
        BY <1>0, <1>2, <2>0, <2>1, ViolatedPageStep DEF ViolatedInv
      <3>2. "cleanup" \notin BeforeCapture /\ "record" \notin BeforeCapture
        BY DEF BeforeCapture, PageSteps
      <3> QED
        BY <2>0, <3>1, <3>2 DEF ViolatedInv
    <2>2. CASE pc[c] = "cleanup"
      <3>1. CleanUp(c)
        BY <1>2, <2>2
        DEF CheckStep, CheckSubscription, LoadSession, Launch, SetUp,
            Navigate, ReuseProbe, ReuseExtract, DetectInteractive, FormAction,
            UsePassword, FillForm, Submit, PostLoginDetect, PostLoginProbe,
            CaptureState, SaveSession, ExtractSubscription, Record
      <3>2. pc'[c] = "record" /\ outcome'[c] # Completed /\ UNCHANGED <<saved, row>>
        BY <1>0, <2>2, <3>1 DEF CleanUp, TypeOK, ViolatedInv, BrowserError, Completed
      <3> QED
        BY <2>0, <3>2 DEF ViolatedInv
    <2>3. CASE pc[c] = "record"
      <3>1. Record(c)
        BY <1>2, <2>3
        DEF CheckStep, CheckSubscription, LoadSession, Launch, SetUp,
            Navigate, ReuseProbe, ReuseExtract, DetectInteractive, FormAction,
            UsePassword, FillForm, Submit, PostLoginDetect, PostLoginProbe,
            CaptureState, SaveSession, ExtractSubscription, CleanUp
      <3>2. outcome[c] \in Errors /\ outcome[c] # Completed
        BY <1>0, <2>3 DEF ViolatedInv, TypeOK
      <3>3. RequestedRow(c) # SuccessRow
        BY <3>2, PersistenceOutcomeType DEF RequestedRow
      <3>4. /\ row'[c] \in {NoRow, RequestedRow(c)} /\ pc'[c] = "done" /\ UNCHANGED saved
        BY <1>0, <3>1 DEF Record, TypeOK, Goto
      <3> QED
        BY <2>0, <3>3, <3>4 DEF ViolatedInv, NoRow, FailedRow, SuccessRow
    <2>4. pc[c] # "done"
      BY <1>2
      DEF CheckStep, CheckSubscription, LoadSession, Launch, SetUp,
          Navigate, ReuseProbe, ReuseExtract, DetectInteractive, FormAction,
          UsePassword, FillForm, Submit, PostLoginDetect, PostLoginProbe,
          CaptureState, SaveSession, ExtractSubscription, CleanUp, Record
    <2> QED
      BY <2>1, <2>2, <2>3, <2>4 DEF ViolatedInv
  <1> QED
    BY <1>1, <1>2

\* A violation of the origin boundary before the capture is fatal, whichever await it
\* falls into: the check never saves a session and never records a success.
THEOREM ViolationsAreFatal == Spec => ViolationIsFatal
  <1>1. ASSUME NEW c \in Checks
        PROVE  Spec => [](violation[c] /\ pc[c] \in BeforeCapture
                            => [](~saved[c] /\ row[c] # SuccessRow))
    <2>1. IInv /\ violation[c] /\ pc[c] \in BeforeCapture => ViolatedInv(c)
      BY DEF IInv, CheckInv, Unanswered, SavedThenNoAuthenticationError, ViolatedInv,
         BeforeCapture, PageSteps, NoRow, FailedRow, SuccessRow
    <2>2. IInv /\ ViolatedInv(c) /\ [Next]_vars => ViolatedInv(c)'
      BY ViolatedStays
    <2>3. ViolatedInv(c) => ~saved[c] /\ row[c] # SuccessRow
      BY DEF ViolatedInv
    <2> QED
      BY <2>1, <2>2, <2>3, Invariance, PTL DEF Spec
  <1> QED
    BY <1>1 DEF ViolationIsFatal
====
