---- MODULE OnePasswordProcess ----
(***************************************************************************)
(* One call of usePassword on the 1Password backend                        *)
(* (one-password-backend.ts), with the process it runs                     *)
(* (one-password-process-runner.ts): the timeout, the cancellation, the    *)
(* output limits, the two signals, the events of the child process and the *)
(* callback race each other.  Each action is one callback of the event     *)
(* loop, or something the child does by itself.                            *)
(***************************************************************************)
EXTENDS FailureCodes, Integers

CONSTANTS
    MaxOutputBytes,   \* maxStdoutBytes and maxStderrBytes
    ConsumerFailures  \* the codes with which the callback itself may fail

ASSUME MaxOutputBytesAssumption == MaxOutputBytes \in Nat \ {0}
ASSUME ConsumerFailuresAssumption == ConsumerFailures \subseteq CredentialBackendFailureCode

VARIABLES
    aborted,         \* request.signal.aborted
    pc,              \* where usePassword is
    child,           \* the process: "none", "running", "exited" or "closed"
    exit,            \* how the process exited
    stdoutBytes, stderrBytes,
    captured,        \* stdoutChunks or stderrChunks hold output
    settled,
    terminationCode,
    timeout,         \* the timer of request.timeoutMs is armed
    forceKillTimer,  \* the timer of the second signal is armed
    listening,       \* the abort listener is attached
    result,          \* how the promise of run was settled
    held,            \* the buffers of the result hold output
    delivered,       \* consume was called with the password
    onError,         \* the "error" listener, which hears one event, is attached
    uncaught,        \* an "error" event had no listener: the program ends
    answer

process == <<child, exit>>
output == <<stdoutBytes, stderrBytes, captured>>
timers == <<timeout, forceKillTimer, listening>>
vars == <<aborted, pc, process, output, settled, terminationCode, timers, result,
          held, delivered, onError, uncaught, answer>>

OnePasswordProcessFailureCode ==
    {"EXECUTABLE_UNAVAILABLE", "PROCESS_TIMEOUT", "OUTPUT_LIMIT_EXCEEDED",
     "PROCESS_FAILED", "CANCELLED"}

ProcessTypeOK ==
    /\ aborted \in BOOLEAN
    /\ pc \in {"idle", "running", "consuming", "done"}
    /\ child \in {"none", "running", "exited", "closed"}
    /\ exit \in {"none", "zero", "nonzero", "signal"}
    /\ stdoutBytes \in 0 .. MaxOutputBytes + 1
    /\ stderrBytes \in 0 .. MaxOutputBytes + 1
    /\ captured \in BOOLEAN /\ settled \in BOOLEAN
    /\ terminationCode \in OnePasswordProcessFailureCode \cup {"none"}
    /\ timeout \in BOOLEAN /\ forceKillTimer \in BOOLEAN /\ listening \in BOOLEAN
    /\ result \in OnePasswordProcessFailureCode \cup {"none", "resolved"}
    /\ held \in BOOLEAN /\ delivered \in BOOLEAN
    /\ onError \in BOOLEAN /\ uncaught \in BOOLEAN
    /\ answer \in CredentialBackendFailureCode \cup {"none", "completed"}

Init ==
    /\ aborted = FALSE /\ pc = "idle" /\ child = "none" /\ exit = "none"
    /\ stdoutBytes = 0 /\ stderrBytes = 0 /\ captured = FALSE
    /\ settled = FALSE /\ terminationCode = "none"
    /\ timeout = FALSE /\ forceKillTimer = FALSE /\ listening = FALSE
    /\ result = "none" /\ held = FALSE /\ delivered = FALSE
    /\ onError = FALSE /\ uncaught = FALSE /\ answer = "none"

----
(* The closures of run *)

\* Mutant of Settle: the second timer is forgotten.
SettleLeavingTimer(r) ==
    /\ settled' = TRUE /\ result' = r
    /\ captured' = FALSE
    /\ timeout' = FALSE /\ listening' = FALSE /\ UNCHANGED forceKillTimer

\* The promise is settled: cleanup and clearCapturedOutput.
Settle(r) ==
    /\ settled' = TRUE /\ result' = r
    /\ captured' = FALSE
    /\ timeout' = FALSE /\ listening' = FALSE /\ forceKillTimer' = FALSE

\* Mutant of Terminate: nothing follows a signal that the child ignores.
TerminateOnce(code, armed, attached) ==
    /\ terminationCode' = IF terminationCode = "none" THEN code ELSE terminationCode
    /\ captured' = FALSE /\ timeout' = armed /\ listening' = attached
    /\ UNCHANGED <<settled, result, forceKillTimer, onError>>

\* terminate, called with the timeout armed or not and the abort listener attached
\* or not.  Only the first call counts.  The child gets the signal, whatever it does
\* about it, or is gone; or else kill emits "error", which fails the call, and the
\* second timer is armed after cleanup.
Terminate(code, armed, attached) ==
    IF terminationCode # "none"
    THEN /\ timeout' = armed /\ listening' = attached
         /\ UNCHANGED <<settled, terminationCode, captured, forceKillTimer, result, onError>>
    ELSE /\ terminationCode' = code
         /\ captured' = FALSE
         /\ forceKillTimer' = TRUE
         /\ \/ /\ timeout' = armed /\ listening' = attached
               /\ UNCHANGED <<settled, result, onError>>
            \/ /\ child = "running"
               /\ onError' = FALSE
               /\ settled' = TRUE /\ result' = "PROCESS_FAILED"
               /\ timeout' = FALSE /\ listening' = FALSE

\* Mutant of MapProcessFailure: the names of the two vocabularies are taken for the
\* same.
MapProcessFailureByName(code) == code

\* How the backend reports a failure of the process.
MapProcessFailure(code) ==
    IF code = "EXECUTABLE_UNAVAILABLE" THEN "BACKEND_UNAVAILABLE" ELSE code

\* What classifyCliFailure makes of the error output.
CliFailures ==
    {"FIELD_NOT_FOUND", "ITEM_NOT_FOUND", "VAULT_NOT_FOUND", "AUTHORIZATION_DENIED",
     "BACKEND_LOCKED", "BACKEND_UNAVAILABLE", "PROCESS_FAILED"}

----
(* usePassword *)

\* The call ends; the finally block clears the buffers of the result.
Answer(a) == pc' = "done" /\ answer' = a /\ held' = FALSE

Unprocessed == <<aborted, process, output, settled, terminationCode, timers, result,
                 onError, uncaught>>

\* The checks before the process is started.
Refuse ==
    /\ pc = "idle"
    /\ \/ \E code \in {"ITEM_NOT_FOUND", "ORIGIN_MISMATCH"} : Answer(code)
       \/ aborted /\ Answer("CANCELLED")
    /\ UNCHANGED <<Unprocessed, delivered>>

\* run: the process is started, or spawn throws or reports that it cannot be.
Spawn ==
    /\ pc = "idle" /\ ~aborted
    /\ pc' = "running"
    /\ \/ /\ child' = "running" /\ timeout' = TRUE /\ listening' = TRUE
          /\ onError' = TRUE
          /\ UNCHANGED <<settled, result>>
       \/ /\ settled' = TRUE
          /\ result' \in {"EXECUTABLE_UNAVAILABLE", "PROCESS_FAILED"}
          /\ UNCHANGED <<child, timeout, listening, onError>>
    /\ UNCHANGED <<aborted, exit, output, terminationCode, forceKillTimer, held,
                   delivered, uncaught, answer>>

\* The await of run resumes.  The output may be malformed; it is when it is empty.
RunFinished ==
    /\ pc = "running" /\ settled
    /\ \/ result # "resolved" /\ Answer(MapProcessFailure(result)) /\ UNCHANGED delivered
       \/ /\ result = "resolved" /\ UNCHANGED delivered
          /\ IF aborted THEN Answer("CANCELLED")
             ELSE IF exit # "zero" THEN \E code \in CliFailures : Answer(code)
             ELSE IF stderrBytes > 0 THEN Answer("PROCESS_FAILED")
             ELSE Answer("MALFORMED_OUTPUT")
       \/ /\ result = "resolved" /\ ~aborted
          /\ exit = "zero" /\ stderrBytes = 0 /\ stdoutBytes > 0
          /\ pc' = "consuming" /\ delivered' = TRUE
          /\ UNCHANGED <<held, answer>>
    /\ UNCHANGED Unprocessed

\* Mutant of Consumed: the buffers are cleared only if the callback succeeds.
ConsumedWithoutFinally ==
    /\ pc = "consuming"
    /\ \/ Answer("completed")
       \/ pc' = "done" /\ answer' = "CONSUMER_FAILED" /\ UNCHANGED held
    /\ UNCHANGED <<Unprocessed, delivered>>

\* The await of consume resumes.
Consumed ==
    /\ pc = "consuming"
    /\ \E a \in {"completed", "CONSUMER_FAILED"} \cup ConsumerFailures : Answer(a)
    /\ UNCHANGED <<Unprocessed, delivered>>

----
(* The callbacks of run *)

\* The await of a settled promise resumes before the next event is handled.
EventLoopIsFree == ~(pc = "running" /\ settled)

Unused == <<pc, process, held, delivered, uncaught, answer>>

\* Mutant of Abort: the call is failed without the child being told.
AbortLeavingChild ==
    /\ ~aborted /\ aborted' = TRUE
    /\ IF listening THEN Settle("CANCELLED") /\ UNCHANGED <<terminationCode, onError>>
       ELSE UNCHANGED <<settled, result, captured, timers, terminationCode, onError>>
    /\ UNCHANGED <<Unused, stdoutBytes, stderrBytes>>

\* The caller gives up, at any time.
Abort ==
    /\ ~aborted /\ aborted' = TRUE
    /\ IF listening THEN Terminate("CANCELLED", timeout, FALSE)
       ELSE UNCHANGED <<settled, terminationCode, captured, timers, result, onError>>
    /\ UNCHANGED <<Unused, stdoutBytes, stderrBytes>>

Timeout ==
    /\ timeout /\ EventLoopIsFree
    /\ Terminate("PROCESS_TIMEOUT", FALSE, listening)
    /\ UNCHANGED <<Unused, aborted, stdoutBytes, stderrBytes>>

\* A chunk arrives, of one byte or of more than is allowed.
Chunk(bytes) == \E n \in {1, MaxOutputBytes + 1} :
    bytes' = IF bytes + n > MaxOutputBytes THEN MaxOutputBytes + 1 ELSE bytes + n

\* What becomes of a chunk: it is captured or it is one too many.
Keep(bytes) ==
    IF bytes > MaxOutputBytes THEN Terminate("OUTPUT_LIMIT_EXCEEDED", timeout, listening)
    ELSE /\ captured' = TRUE
         /\ UNCHANGED <<settled, terminationCode, timers, result, onError>>

\* "data" on stdout or stderr.  Output that comes after the end is ignored.
Data ==
    /\ child \in {"running", "exited"}
    /\ EventLoopIsFree /\ ~settled /\ terminationCode = "none"
    /\ \/ Chunk(stdoutBytes) /\ UNCHANGED stderrBytes /\ Keep(stdoutBytes')
       \/ Chunk(stderrBytes) /\ UNCHANGED stdoutBytes /\ Keep(stderrBytes')
    /\ UNCHANGED <<Unused, aborted>>

\* The child ends by itself or of the first signal.
Exit ==
    /\ child = "running" /\ child' = "exited"
    /\ exit' \in {"zero", "nonzero", "signal"}
    /\ UNCHANGED <<aborted, pc, output, settled, terminationCode, timers, result, held,
                   delivered, onError, uncaught, answer>>

\* Mutant of Closed: the way the child exited comes first.
ClosedByExit ==
    IF exit = "signal" THEN Settle("PROCESS_FAILED") /\ UNCHANGED held
    ELSE IF terminationCode # "none" THEN Settle(terminationCode) /\ UNCHANGED held
    ELSE Settle("resolved") /\ held' = (stdoutBytes > 0 \/ stderrBytes > 0)

\* Mutant of Closed: a process that exits is believed, whatever came before.
ClosedTrusting ==
    IF exit = "signal" THEN Settle("PROCESS_FAILED") /\ UNCHANGED held
    ELSE Settle("resolved") /\ held' = (stdoutBytes > 0 \/ stderrBytes > 0)

\* What the listener of "close" makes of a call that is not settled.
Closed ==
    IF terminationCode # "none" THEN Settle(terminationCode) /\ UNCHANGED held
    ELSE IF exit = "signal" THEN Settle("PROCESS_FAILED") /\ UNCHANGED held
    ELSE Settle("resolved") /\ held' = (stdoutBytes > 0 \/ stderrBytes > 0)

\* "close": the child has exited and its output has ended.
Close ==
    /\ child = "exited" /\ EventLoopIsFree
    /\ child' = "closed"
    /\ IF settled THEN UNCHANGED <<settled, captured, timers, result, held>> ELSE Closed
    /\ UNCHANGED <<aborted, pc, exit, stdoutBytes, stderrBytes, terminationCode,
                   delivered, onError, uncaught, answer>>

\* The second signal.  It ends a child that still runs, unless it cannot be sent
\* either: kill emits "error", which may find no listener.
ForceKill ==
    /\ forceKillTimer /\ EventLoopIsFree
    /\ \/ /\ IF child = "running" THEN child' = "exited" /\ exit' = "signal"
             ELSE UNCHANGED process
          /\ IF settled THEN forceKillTimer' = FALSE /\ UNCHANGED <<settled, result, captured, timeout, listening>>
             ELSE Settle(terminationCode)
          /\ UNCHANGED <<onError, uncaught>>
       \/ /\ child = "running" /\ onError
          /\ Settle("PROCESS_FAILED") /\ onError' = FALSE
          /\ UNCHANGED <<process, uncaught>>
       \/ /\ child = "running" /\ ~onError
          /\ uncaught' = TRUE /\ forceKillTimer' = FALSE
          /\ UNCHANGED <<process, settled, result, captured, timeout, listening, onError>>
    /\ UNCHANGED <<aborted, pc, stdoutBytes, stderrBytes, terminationCode, held,
                   delivered, answer>>

----
Finished ==
    /\ pc = "done" \/ uncaught
    /\ UNCHANGED vars

Next ==
    \/ /\ ~uncaught
       /\ \/ Refuse \/ Spawn \/ RunFinished \/ Consumed
          \/ Abort \/ Timeout \/ Data \/ Exit \/ Close \/ ForceKill
    \/ Finished

Spec == Init /\ [][Next]_vars

\* Timers fire, awaits resume and the callback returns.  Nothing is assumed of the
\* child: it may run on, ignore the first signal and never close its output.
FairSpec ==
    /\ Spec
    /\ WF_vars(~uncaught /\ Timeout) /\ WF_vars(~uncaught /\ ForceKill)
    /\ WF_vars(~uncaught /\ RunFinished) /\ WF_vars(~uncaught /\ Consumed)

----
(* Properties *)

\* The callback only ever gets what a process printed that exited with 0 by itself,
\* was silent on stderr, kept to the limit and was not being terminated for a timeout
\* or too much output.
OnlyCleanReadsAreDelivered ==
    delivered =>
        /\ exit = "zero" /\ terminationCode = "none"
        /\ stdoutBytes \in 1 .. MaxOutputBytes /\ stderrBytes = 0

\* The first reason to end the process is the one that is reported, however the
\* process ends of it and whatever happens meanwhile, unless a signal failed.
TerminationIsReported ==
    terminationCode # "none" /\ onError /\ answer # "none" =>
        answer = MapProcessFailure(terminationCode)

\* No output outlives its use: nothing is captured once the process is being
\* terminated or the call is settled, and the buffers of the result are cleared
\* whatever became of the callback.
NoOutputIsKept ==
    /\ settled \/ terminationCode # "none" => ~captured
    /\ pc = "done" => ~held

\* A settled call leaves no timer and no listener, except the second timer of a child
\* that could not be signalled.
TimersAreReleased ==
    settled => ~timeout /\ ~listening /\ (forceKillTimer => ~onError)

\* When a read is over no process is left, unless it could not be signalled.
NoProcessIsLeft == settled => child # "running" \/ ~onError

Contract == INSTANCE CredentialRead

\* The backend keeps the contract of CredentialRead, however the events of its process
\* fall: the password is handed over at most once and never after a cancellation, only
\* a cancelled read says so, and every read is answered, whatever the child does.
KeepsContract == Contract!FairSpec
====
