---- MODULE CheckWithOnePassword ----
(***************************************************************************)
(* A check of SubscriptionCheck together with the read of                  *)
(* OnePasswordProcess that it starts.  The two run on one event loop and   *)
(* share the signal: the deadline that closes the browser also terminates  *)
(* the 1Password process, and the password callback of the read is the     *)
(* form filling of the check.                                              *)
(***************************************************************************)
EXTENDS SubscriptionCheck, Integers

CONSTANTS
    Check,           \* the one check that is looked at
    MaxOutputBytes

ASSUME CheckAssumption == Checks = {Check}
ASSUME OnePasswordAssumption == BackendKind = "one_password"

VARIABLES  \* of the read, see OnePasswordProcess
    readPc, child, exit, stdoutBytes, stderrBytes, captured, settled,
    terminationCode, timeout, forceKillTimer, listening, result, held, delivered,
    onError, uncaught, answer

\* The callback maps each of its failures to one of three codes.
ConsumerFailures == {"CANCELLED", "ORIGIN_MISMATCH", "CONSUMER_FAILED"}

Read == INSTANCE OnePasswordProcess WITH aborted <- Aborted(Check), pc <- readPc

readVars == <<readPc, child, exit, stdoutBytes, stderrBytes, captured, settled,
              terminationCode, timeout, forceKillTimer, listening, result, held,
              delivered, onError, uncaught, answer>>

jointVars == <<vars, readVars>>

JointInit == Init /\ Read!Init

----
AtBackend == pc[Check] = "backend"
InConsumer == pc[Check] \in {"fill", "submit"}

\* usePassword runs up to its first await in the turn of FormAction.
StartRead == AtBackend /\ UNCHANGED vars /\ (Read!Spawn \/ Read!Refuse)

\* The await of the process resumes: the backend calls the callback or fails.
ReadFinished == AtBackend /\ UNCHANGED vars /\ Read!RunFinished

\* The callback begins, with its assertSafe.
CallbackBegins ==
    /\ AtBackend /\ readPc = "consuming"
    /\ Safe(Check) /\ Goto(Check, "fill")
    /\ UNCHANGED <<vault, signal, page, record, failure, readVars>>

\* The callback fails: the backend hands the failure on, and the broker.
CallbackFails ==
    /\ \/ AtBackend /\ ~Safe(Check) /\ ConsumerFailed(Check, OriginMismatch)
          /\ UNCHANGED <<vault, signal, page, record>>
       \/ (FillForm(Check) \/ Submit(Check)) /\ pc'[Check] = "cleanup"
    /\ Read!Consumed /\ failure'[Check] = MapBackendFailure(answer')

CallbackGoesOn == FillForm(Check) /\ pc'[Check] = "submit" /\ UNCHANGED readVars

CallbackReturns ==
    /\ Submit(Check) /\ pc'[Check] = "postDetect"
    /\ Read!Consumed /\ answer' = "completed"

\* The backend failed before it had a password: usePasswordForObservedUrl throws.
ReadFails ==
    /\ AtBackend /\ readPc = "done"
    /\ BackendFailed(Check, answer)
    /\ UNCHANGED <<vault, signal, page, record, readVars>>

\* Until the turn ends that started the read, delivered the password or heard of a
\* failure, no event is handled.
TurnIsOver == ~(AtBackend /\ readPc \in {"idle", "consuming", "done"})

----
\* The other steps of the check.  The finally block of Record releases the signal,
\* which nobody listens to any more.
OtherCheckStep ==
    /\ ~AtBackend /\ ~InConsumer
    /\ CheckStep(Check)
    /\ IF Aborted(Check)' # Aborted(Check) THEN Read!Abort ELSE UNCHANGED readVars

\* Mutant of JointDeadline: the signal is not passed on to the backend.
DeadlineForBrowserOnly == Deadline(Check) /\ UNCHANGED readVars

\* The deadline is heard by the browser flow and by the process runner.
JointDeadline == TurnIsOver /\ Deadline(Check) /\ Read!Abort

PageEvent ==
    /\ TurnIsOver /\ UNCHANGED readVars
    /\ BrowserExits(Check) \/ CloseFails(Check) \/ PageMoves(Check)

ProcessEvent ==
    /\ TurnIsOver /\ UNCHANGED vars
    /\ Read!Timeout \/ Read!Data \/ Read!Exit \/ Read!Close \/ Read!ForceKill

BackendStep ==
    StartRead \/ ReadFinished \/ CallbackBegins \/ CallbackFails \/ CallbackReturns
    \/ CallbackGoesOn \/ ReadFails

JointFinished == (Finished \/ uncaught) /\ UNCHANGED jointVars

JointNext ==
    \/ /\ ~uncaught
       /\ \/ BackendStep \/ OtherCheckStep \/ JointDeadline \/ PageEvent \/ ProcessEvent
          \/ VaultChanges /\ UNCHANGED readVars
    \/ JointFinished

JointSpec == JointInit /\ [][JointNext]_jointVars

\* The steps of SubscriptionCheck that settle, and a browser that closes.  Of the read
\* only its own timers and awaits are assumed to go on.
JointSettles ==
    /\ pc[Check] \notin PageSteps \/ browser[Check] = "closed" \/ pc[Check] = "save"
    /\ pc[Check] # "idle"
    /\ OtherCheckStep \/ CallbackFails \/ CallbackGoesOn \/ CallbackReturns

BrowserCloses ==
    TurnIsOver /\ browser[Check] = "closing" /\ BrowserExits(Check) /\ UNCHANGED readVars

ReadGoesOn == StartRead \/ ReadFinished \/ CallbackBegins \/ CallbackFails \/ ReadFails

TimerFires == TurnIsOver /\ UNCHANGED vars /\ (Read!Timeout \/ Read!ForceKill)

JointFairness ==
    /\ WF_jointVars(~uncaught /\ JointSettles) /\ WF_jointVars(~uncaught /\ BrowserCloses)
    /\ WF_jointVars(~uncaught /\ AtBackend /\ ReadGoesOn)
    /\ WF_jointVars(~uncaught /\ TimerFires)

FairJointSpec == JointSpec /\ JointFairness

----
(* Properties *)

\* The check that SubscriptionCheck describes, where the read of the password is one
\* step that ends of itself, is what the check and the 1Password process do together,
\* unless the process runner ends the program.
ImplementsCheck == Spec /\ ([](~uncaught) => Fairness)
====
