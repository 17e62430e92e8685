---- MODULE OnePasswordProcessProofs ----
(***************************************************************************)
(* Proofs about OnePasswordProcess, for any output limit and any failures  *)
(* of the callback.  One inductive invariant carries all of its safety     *)
(* properties: they are conjuncts of it or follow from it, and the other   *)
(* conjuncts say what a call that was not started, is settled or was       *)
(* answered looks like.                                                    *)
(***************************************************************************)
EXTENDS OnePasswordProcess, TLAPS

\* ProcessTypeOK in three parts.
FlagsTyped ==
    /\ aborted \in BOOLEAN
    /\ captured \in BOOLEAN /\ settled \in BOOLEAN
    /\ timeout \in BOOLEAN /\ forceKillTimer \in BOOLEAN /\ listening \in BOOLEAN
    /\ held \in BOOLEAN /\ delivered \in BOOLEAN
    /\ onError \in BOOLEAN /\ uncaught \in BOOLEAN

BytesTyped ==
    /\ stdoutBytes \in 0 .. MaxOutputBytes + 1
    /\ stderrBytes \in 0 .. MaxOutputBytes + 1

CodesTyped ==
    /\ pc \in {"idle", "running", "consuming", "done"}
    /\ child \in {"none", "running", "exited", "closed"}
    /\ exit \in {"none", "zero", "nonzero", "signal"}
    /\ terminationCode \in OnePasswordProcessFailureCode \cup {"none"}
    /\ result \in OnePasswordProcessFailureCode \cup {"none", "resolved"}
    /\ answer \in CredentialBackendFailureCode \cup {"none", "completed"}

\* A call that has not begun, and one that never starts a process.
NotBegun ==
    /\ pc = "idle" => child = "none" /\ ~settled /\ answer = "none"
    /\ child = "none" => /\ ~timeout /\ ~listening /\ ~forceKillTimer /\ ~onError
                         /\ terminationCode = "none" /\ ~captured

\* Only a call that waits for its process has one that is not settled.
WaitsForProcess ==
    /\ pc # "running" => settled \/ child = "none"
    /\ answer # "none" => pc = "done"

\* Why the process is being ended.
EndedForReason ==
    /\ forceKillTimer => terminationCode # "none"
    /\ stdoutBytes > MaxOutputBytes \/ stderrBytes > MaxOutputBytes
         => terminationCode # "none"
    /\ terminationCode # "none" /\ onError /\ settled => result = terminationCode

\* How a process ended, what was resolved and what was delivered.
ResolvedCleanly ==
    /\ child \in {"exited", "closed"} => exit # "none"
    /\ result = "resolved" =>
         /\ settled /\ terminationCode = "none"
         /\ child = "closed" /\ exit \in {"zero", "nonzero"}
    /\ delivered =>
         /\ result = "resolved" /\ exit = "zero"
         /\ stderrBytes = 0 /\ stdoutBytes > 0
    /\ pc = "consuming" => delivered

Inductive ==
    /\ FlagsTyped /\ BytesTyped /\ CodesTyped
    /\ NotBegun
    /\ WaitsForProcess
    /\ EndedForReason
    /\ ResolvedCleanly
    /\ TerminationIsReported
    /\ NoOutputIsKept
    /\ TimersAreReleased
    /\ NoProcessIsLeft

----
(***************************************************************************)
(* The invariant is inductive, whatever callback of the event loop runs    *)
(* next and whatever the child does.                                       *)
(***************************************************************************)
THEOREM InductiveHolds == Spec => []Inductive
<1>1. Init => Inductive
  <2>1. Init => FlagsTyped
    BY DEF Init, FlagsTyped
  <2>2. Init => BytesTyped
    BY MaxOutputBytesAssumption DEF Init, BytesTyped
  <2>3. Init => CodesTyped
    BY DEF Init, CodesTyped
  <2>4. Init => NotBegun
    BY DEF Init, NotBegun
  <2>5. Init => WaitsForProcess
    BY DEF Init, WaitsForProcess
  <2>6. Init => EndedForReason
    BY MaxOutputBytesAssumption DEF Init, EndedForReason
  <2>7. Init => ResolvedCleanly
    BY MaxOutputBytesAssumption DEF Init, ResolvedCleanly
  <2>8. Init => TerminationIsReported
    BY DEF Init, TerminationIsReported
  <2>9. Init => NoOutputIsKept
    BY DEF Init, NoOutputIsKept
  <2>10. Init => TimersAreReleased
    BY DEF Init, TimersAreReleased
  <2>11. Init => NoProcessIsLeft
    BY DEF Init, NoProcessIsLeft
  <2> QED
    BY <2>1, <2>2, <2>3, <2>4, <2>5, <2>6, <2>7, <2>8, <2>9, <2>10, <2>11 DEF Inductive
<1>2. Inductive /\ [Next]_vars => Inductive'
  <2> SUFFICES ASSUME Inductive, [Next]_vars PROVE Inductive'
    OBVIOUS
  <2> USE DEF Inductive
  <2>1. CASE Refuse
    <3> USE <2>1 DEF Refuse, Answer, Unprocessed, process, output, timers
    <3>1. FlagsTyped'
      BY DEF FlagsTyped
    <3>2. BytesTyped'
      BY DEF BytesTyped
    <3>3. CodesTyped'
      BY DEF CodesTyped, OnePasswordProcessFailureCode, CredentialBackendFailureCode
    <3>4. NotBegun'
      BY DEF NotBegun
    <3>5. WaitsForProcess'
      BY DEF WaitsForProcess
    <3>6. EndedForReason'
      BY DEF EndedForReason
    <3>7. ResolvedCleanly'
      BY DEF ResolvedCleanly
    <3>8. TerminationIsReported'
      BY DEF TerminationIsReported, NotBegun
    <3>9. NoOutputIsKept'
      BY DEF NoOutputIsKept
    <3>10. TimersAreReleased'
      BY DEF TimersAreReleased
    <3>11. NoProcessIsLeft'
      BY DEF NoProcessIsLeft
    <3> QED
      BY <3>1, <3>2, <3>3, <3>4, <3>5, <3>6, <3>7, <3>8, <3>9, <3>10, <3>11
  <2>2. CASE Spawn
    <3> USE <2>2 DEF Spawn, process, output, timers
    <3>1. FlagsTyped'
      BY DEF FlagsTyped
    <3>2. BytesTyped'
      BY DEF BytesTyped
    <3>3. CodesTyped'
      BY DEF CodesTyped, OnePasswordProcessFailureCode
    <3>4. NotBegun'
      BY DEF NotBegun
    <3>5. WaitsForProcess'
      BY DEF WaitsForProcess
    <3>6. EndedForReason'
      BY DEF EndedForReason, NotBegun
    <3>7. ResolvedCleanly'
      BY DEF ResolvedCleanly, NotBegun
    <3>8. TerminationIsReported'
      BY DEF TerminationIsReported, NotBegun
    <3>9. NoOutputIsKept'
      BY DEF NoOutputIsKept, NotBegun
    <3>10. TimersAreReleased'
      BY DEF TimersAreReleased, NotBegun
    <3>11. NoProcessIsLeft'
      BY DEF NoProcessIsLeft, NotBegun
    <3> QED
      BY <3>1, <3>2, <3>3, <3>4, <3>5, <3>6, <3>7, <3>8, <3>9, <3>10, <3>11
  <2>3. CASE RunFinished
    <3> USE <2>3 DEF RunFinished, Answer, Unprocessed, process, output, timers
    <3>1. FlagsTyped'
      BY DEF FlagsTyped
    <3>2. BytesTyped'
      BY DEF BytesTyped
    <3>3. CodesTyped'
      BY DEF CodesTyped, OnePasswordProcessFailureCode, CredentialBackendFailureCode,
         CliFailures, MapProcessFailure
    <3>4. NotBegun'
      BY DEF NotBegun
    <3>5. WaitsForProcess'
      BY DEF WaitsForProcess
    <3>6. EndedForReason'
      BY DEF EndedForReason
    <3>7. ResolvedCleanly'
      BY DEF ResolvedCleanly
    <3>8. TerminationIsReported'
      BY DEF TerminationIsReported, EndedForReason, CodesTyped,
         OnePasswordProcessFailureCode
    <3>9. NoOutputIsKept'
      BY DEF NoOutputIsKept
    <3>10. TimersAreReleased'
      BY DEF TimersAreReleased
    <3>11. NoProcessIsLeft'
      BY DEF NoProcessIsLeft
    <3> QED
      BY <3>1, <3>2, <3>3, <3>4, <3>5, <3>6, <3>7, <3>8, <3>9, <3>10, <3>11
  <2>4. CASE Consumed
    <3> USE <2>4 DEF Consumed, Answer, Unprocessed, process, output, timers
    <3>1. FlagsTyped'
      BY DEF FlagsTyped
    <3>2. BytesTyped'
      BY DEF BytesTyped
    <3>3. CodesTyped'
      BY ConsumerFailuresAssumption DEF CodesTyped, OnePasswordProcessFailureCode,
         CredentialBackendFailureCode
    <3>4. NotBegun'
      BY DEF NotBegun
    <3>5. WaitsForProcess'
      BY DEF WaitsForProcess
    <3>6. EndedForReason'
      BY DEF EndedForReason
    <3>7. ResolvedCleanly'
      BY DEF ResolvedCleanly
    <3>8. TerminationIsReported'
      BY DEF TerminationIsReported, ResolvedCleanly
    <3>9. NoOutputIsKept'
      BY DEF NoOutputIsKept
    <3>10. TimersAreReleased'
      BY DEF TimersAreReleased
    <3>11. NoProcessIsLeft'
      BY DEF NoProcessIsLeft
    <3> QED
      BY <3>1, <3>2, <3>3, <3>4, <3>5, <3>6, <3>7, <3>8, <3>9, <3>10, <3>11
  <2>5. CASE Abort
    <3> USE <2>5 DEF Abort, Terminate, Unused, process, output, timers
    <3>1. FlagsTyped'
      BY DEF FlagsTyped
    <3>2. BytesTyped'
      BY DEF BytesTyped
    <3>3. CodesTyped'
      BY DEF CodesTyped, OnePasswordProcessFailureCode
    <3>4. NotBegun'
      BY DEF NotBegun
    <3>5. WaitsForProcess'
      BY DEF WaitsForProcess
    <3>6. EndedForReason'
      BY DEF EndedForReason, TimersAreReleased
    <3>7. ResolvedCleanly'
      BY DEF ResolvedCleanly, TimersAreReleased
    <3>8. TerminationIsReported'
      BY DEF TerminationIsReported, WaitsForProcess, NotBegun, TimersAreReleased
    <3>9. NoOutputIsKept'
      BY DEF NoOutputIsKept
    <3>10. TimersAreReleased'
      BY DEF TimersAreReleased
    <3>11. NoProcessIsLeft'
      BY DEF NoProcessIsLeft
    <3> QED
      BY <3>1, <3>2, <3>3, <3>4, <3>5, <3>6, <3>7, <3>8, <3>9, <3>10, <3>11
  <2>6. CASE Timeout
    <3> USE <2>6 DEF Timeout, Terminate, Unused, process, output, timers,
       EventLoopIsFree
    <3>1. FlagsTyped'
      BY DEF FlagsTyped
    <3>2. BytesTyped'
      BY DEF BytesTyped
    <3>3. CodesTyped'
      BY DEF CodesTyped, OnePasswordProcessFailureCode
    <3>4. NotBegun'
      BY DEF NotBegun
    <3>5. WaitsForProcess'
      BY DEF WaitsForProcess
    <3>6. EndedForReason'
      BY DEF EndedForReason, TimersAreReleased
    <3>7. ResolvedCleanly'
      BY DEF ResolvedCleanly, TimersAreReleased
    <3>8. TerminationIsReported'
      BY DEF TerminationIsReported, WaitsForProcess, NotBegun, TimersAreReleased
    <3>9. NoOutputIsKept'
      BY DEF NoOutputIsKept
    <3>10. TimersAreReleased'
      BY DEF TimersAreReleased
    <3>11. NoProcessIsLeft'
      BY DEF NoProcessIsLeft
    <3> QED
      BY <3>1, <3>2, <3>3, <3>4, <3>5, <3>6, <3>7, <3>8, <3>9, <3>10, <3>11
  <2>7. CASE Data
    <3> USE <2>7 DEF Data, Chunk, Keep, Terminate, Unused, process, output, timers,
       EventLoopIsFree
    <3>1. FlagsTyped'
      BY DEF FlagsTyped
    <3>2. BytesTyped'
      BY MaxOutputBytesAssumption DEF BytesTyped
    <3>3. CodesTyped'
      BY DEF CodesTyped, OnePasswordProcessFailureCode
    <3>4. NotBegun'
      BY DEF NotBegun
    <3>5. WaitsForProcess'
      BY DEF WaitsForProcess
    <3>6. EndedForReason'
      BY MaxOutputBytesAssumption DEF EndedForReason
    <3>7. ResolvedCleanly'
      BY MaxOutputBytesAssumption DEF ResolvedCleanly
    <3>8. TerminationIsReported'
      BY DEF TerminationIsReported, WaitsForProcess
    <3>9. NoOutputIsKept'
      BY DEF NoOutputIsKept
    <3>10. TimersAreReleased'
      BY DEF TimersAreReleased
    <3>11. NoProcessIsLeft'
      BY DEF NoProcessIsLeft
    <3> QED
      BY <3>1, <3>2, <3>3, <3>4, <3>5, <3>6, <3>7, <3>8, <3>9, <3>10, <3>11
  <2>8. CASE Exit
    <3> USE <2>8 DEF Exit, process, output, timers
    <3>1. FlagsTyped'
      BY DEF FlagsTyped
    <3>2. BytesTyped'
      BY DEF BytesTyped
    <3>3. CodesTyped'
      BY DEF CodesTyped, OnePasswordProcessFailureCode
    <3>4. NotBegun'
      BY DEF NotBegun
    <3>5. WaitsForProcess'
      BY DEF WaitsForProcess
    <3>6. EndedForReason'
      BY DEF EndedForReason
    <3>7. ResolvedCleanly'
      BY DEF ResolvedCleanly
    <3>8. TerminationIsReported'
      BY DEF TerminationIsReported
    <3>9. NoOutputIsKept'
      BY DEF NoOutputIsKept
    <3>10. TimersAreReleased'
      BY DEF TimersAreReleased
    <3>11. NoProcessIsLeft'
      BY DEF NoProcessIsLeft
    <3> QED
      BY <3>1, <3>2, <3>3, <3>4, <3>5, <3>6, <3>7, <3>8, <3>9, <3>10, <3>11
  <2>9. CASE Close
    <3> USE <2>9 DEF Close, Closed, Settle, process, output, timers, EventLoopIsFree
    <3>1. FlagsTyped'
      BY DEF FlagsTyped
    <3>2. BytesTyped'
      BY DEF BytesTyped
    <3>3. CodesTyped'
      BY DEF CodesTyped, OnePasswordProcessFailureCode
    <3>4. NotBegun'
      BY DEF NotBegun
    <3>5. WaitsForProcess'
      BY DEF WaitsForProcess
    <3>6. EndedForReason'
      BY DEF EndedForReason
    <3>7. ResolvedCleanly'
      BY DEF ResolvedCleanly, CodesTyped, OnePasswordProcessFailureCode
    <3>8. TerminationIsReported'
      BY DEF TerminationIsReported
    <3>9. NoOutputIsKept'
      BY DEF NoOutputIsKept, WaitsForProcess
    <3>10. TimersAreReleased'
      BY DEF TimersAreReleased
    <3>11. NoProcessIsLeft'
      BY DEF NoProcessIsLeft
    <3> QED
      BY <3>1, <3>2, <3>3, <3>4, <3>5, <3>6, <3>7, <3>8, <3>9, <3>10, <3>11
  <2>10. CASE ForceKill
    <3> USE <2>10 DEF ForceKill, Settle, process, output, timers, EventLoopIsFree
    <3>1. FlagsTyped'
      BY DEF FlagsTyped
    <3>2. BytesTyped'
      BY DEF BytesTyped
    <3>3. CodesTyped'
      BY DEF CodesTyped, OnePasswordProcessFailureCode
    <3>4. NotBegun'
      BY DEF NotBegun
    <3>5. WaitsForProcess'
      BY DEF WaitsForProcess
    <3>6. EndedForReason'
      BY DEF EndedForReason
    <3>7. ResolvedCleanly'
      BY DEF ResolvedCleanly, CodesTyped, OnePasswordProcessFailureCode
    <3>8. TerminationIsReported'
      BY DEF TerminationIsReported
    <3>9. NoOutputIsKept'
      BY DEF NoOutputIsKept
    <3>10. TimersAreReleased'
      BY DEF TimersAreReleased
    <3>11. NoProcessIsLeft'
      BY DEF NoProcessIsLeft
    <3> QED
      BY <3>1, <3>2, <3>3, <3>4, <3>5, <3>6, <3>7, <3>8, <3>9, <3>10, <3>11
  <2>11. CASE UNCHANGED vars
    BY <2>11 DEF FlagsTyped, BytesTyped, CodesTyped, NotBegun, WaitsForProcess,
       EndedForReason, ResolvedCleanly, TerminationIsReported, NoOutputIsKept,
       TimersAreReleased, NoProcessIsLeft, vars, process, output, timers
  <2> QED
    BY <2>1, <2>2, <2>3, <2>4, <2>5, <2>6, <2>7, <2>8, <2>9, <2>10, <2>11 DEF Next,
       Finished
<1> QED
  BY <1>1, <1>2, PTL DEF Spec
----
(***************************************************************************)
(* Every variable of run and of usePassword keeps to its values; the       *)
(* counters of output stop one above the limit.                            *)
(***************************************************************************)
THEOREM TypeCorrect == Spec => []ProcessTypeOK
<1>1. Inductive => ProcessTypeOK
  BY DEF Inductive, FlagsTyped, BytesTyped, CodesTyped, ProcessTypeOK
<1> QED
  BY <1>1, InductiveHolds, PTL

(***************************************************************************)
(* What the callback gets was printed by a process that ended with 0 by    *)
(* itself, within the limits and before any reason to end it: a process is *)
(* only resolved when none was given, and output beyond the limit is one.  *)
(***************************************************************************)
THEOREM DeliveryIsClean == Spec => []OnlyCleanReadsAreDelivered
<1>1. Inductive => OnlyCleanReadsAreDelivered
  <2> SUFFICES ASSUME Inductive, delivered PROVE OnlyCleanReadsAreDelivered
    BY DEF OnlyCleanReadsAreDelivered
  <2>1. exit = "zero" /\ terminationCode = "none" /\ stderrBytes = 0 /\ stdoutBytes > 0
    BY DEF Inductive, ResolvedCleanly
  <2>2. ~(stdoutBytes > MaxOutputBytes)
    BY <2>1 DEF Inductive, EndedForReason
  <2> QED
    BY <2>1, <2>2, MaxOutputBytesAssumption
       DEF OnlyCleanReadsAreDelivered, Inductive, BytesTyped
<1> QED
  BY <1>1, InductiveHolds, PTL

(***************************************************************************)
(* The first call of terminate names the failure of the read, whichever    *)
(* of the timeout, the cancellation, the output and the end of the child   *)
(* comes after it.                                                         *)
(***************************************************************************)
THEOREM FirstReasonIsReported == Spec => []TerminationIsReported
<1>1. Inductive => TerminationIsReported
  BY DEF Inductive
<1> QED
  BY <1>1, InductiveHolds, PTL

(***************************************************************************)
(* clearCapturedOutput and the finally block of usePassword leave no       *)
(* output: none is captured for a process that is being ended, and the     *)
(* buffers of the result are cleared with the answer.                      *)
(***************************************************************************)
THEOREM OutputIsCleared == Spec => []NoOutputIsKept
<1>1. Inductive => NoOutputIsKept
  BY DEF Inductive
<1> QED
  BY <1>1, InductiveHolds, PTL

(***************************************************************************)
(* cleanup leaves no timer and no listener, up to the second timer of a    *)
(* child that cannot be signalled.                                         *)
(***************************************************************************)
THEOREM CleanupIsComplete == Spec => []TimersAreReleased
<1>1. Inductive => TimersAreReleased
  BY DEF Inductive
<1> QED
  BY <1>1, InductiveHolds, PTL

(***************************************************************************)
(* A read is not over before its process is, up to a child that cannot be  *)
(* signalled.                                                              *)
(***************************************************************************)
THEOREM ProcessIsOver == Spec => []NoProcessIsLeft
<1>1. Inductive => NoProcessIsLeft
  BY DEF Inductive
<1> QED
  BY <1>1, InductiveHolds, PTL

----
(***************************************************************************)
(* The backend implements the contract of CredentialRead                   *)
(***************************************************************************)

\* A process is ended as cancelled only for a cancellation, and a settled call has a
\* result.
CancelledForReason ==
    /\ terminationCode = "CANCELLED" => aborted
    /\ result = "CANCELLED" => aborted
    /\ settled => result # "none"

(***************************************************************************)
(* The first reason of terminate and the result of run say CANCELLED only  *)
(* when the abort listener was called, and the promise of run is settled   *)
(* with a result.                                                          *)
(***************************************************************************)
LEMMA CancellationHasReason == Spec => []CancelledForReason
<1>1. Init => CancelledForReason
  BY DEF Init, CancelledForReason
<1>2. Inductive /\ CancelledForReason /\ [Next]_vars => CancelledForReason'
  <2> SUFFICES ASSUME Inductive, CancelledForReason, [Next]_vars PROVE CancelledForReason'
    OBVIOUS
  <2> USE DEF CancelledForReason, process, output, timers
  <2>1. CASE Refuse \/ RunFinished \/ Consumed
    BY <2>1 DEF Refuse, RunFinished, Consumed, Answer, Unprocessed
  <2>2. CASE Spawn
    BY <2>2 DEF Spawn
  <2>3. CASE Abort
    BY <2>3 DEF Abort, Terminate
  <2>4. CASE Timeout
    BY <2>4 DEF Timeout, Terminate, Unused
  <2>5. CASE Data
    BY <2>5 DEF Data, Keep, Terminate, Unused
  <2>6. CASE Exit
    BY <2>6 DEF Exit
  <2>7. CASE Close
    BY <2>7 DEF Close, Closed, Settle
  <2>8. CASE ForceKill
    BY <2>8 DEF ForceKill, Settle, Inductive, EndedForReason
  <2>9. CASE UNCHANGED vars
    BY <2>9 DEF vars
  <2> QED
    BY <2>1, <2>2, <2>3, <2>4, <2>5, <2>6, <2>7, <2>8, <2>9 DEF Next, Finished
<1> QED
  BY <1>1, <1>2, InductiveHolds, PTL DEF Spec

(***************************************************************************)
(* The codes with which a read ends before it has a password are those of  *)
(* the contract, and CANCELLED is among them only after a cancellation.    *)
(***************************************************************************)
LEMMA ReadFailuresOfContract ==
    ASSUME Inductive, CancelledForReason, RunFinished, pc' = "done"
    PROVE  Contract!Fail
<1>1. PICK a : Answer(a)
        /\ \/ result # "resolved" /\ a = MapProcessFailure(result)
           \/ aborted /\ a = "CANCELLED"
           \/ a \in CliFailures \cup {"PROCESS_FAILED", "MALFORMED_OUTPUT"}
  BY DEF RunFinished, Answer
<1>2. pc = "running" /\ settled /\ aborted' = aborted
  BY DEF RunFinished, Unprocessed
<1>3. result # "none"
  BY <1>2 DEF CancelledForReason
<1>4. a \in Contract!ReadFailures
  BY <1>1, <1>3 DEF Contract!ReadFailures,
     Contract!CredentialBackendFailureCode, MapProcessFailure, CliFailures, Inductive,
     CodesTyped, OnePasswordProcessFailureCode, CredentialBackendFailureCode
<1>5. a = "CANCELLED" => aborted
  BY <1>1 DEF CancelledForReason, MapProcessFailure, CliFailures
<1> QED
  BY <1>1, <1>2, <1>4, <1>5 DEF Contract!Fail, Contract!Answer, Answer

(***************************************************************************)
(* Every behaviour of the backend is one of the contract, up to liveness:  *)
(* the password is handed over at most once, never after a cancellation,   *)
(* and a read is answered as cancelled only if it was.  The events of the  *)
(* process do not show.                                                    *)
(***************************************************************************)
THEOREM ContractIsKept == Spec => Contract!Spec
<1>1. Init => Contract!Init
  BY DEF Init, Contract!Init
<1>2. Inductive /\ CancelledForReason /\ [Next]_vars => [Contract!Next]_(Contract!vars)
  <2> SUFFICES ASSUME Inductive, CancelledForReason, [Next]_vars
               PROVE  Contract!Next \/ UNCHANGED <<aborted, pc, answer>>
    BY DEF Contract!vars
  <2>1. CASE Refuse
    BY <2>1 DEF Refuse, Answer, Unprocessed, Contract!Next, Contract!Refuse, Contract!Answer
  <2>2. CASE Spawn
    BY <2>2 DEF Spawn, Contract!Next, Contract!Start
  <2>3. CASE RunFinished
    <3>1. CASE pc' = "done"
      BY <2>3, <3>1, ReadFailuresOfContract DEF Contract!Next
    <3>2. CASE pc' # "done"
      BY <2>3, <3>2 DEF RunFinished, Answer, Unprocessed, Contract!Next, Contract!Deliver
    <3> QED
      BY <3>1, <3>2
  <2>4. CASE Consumed
    BY <2>4 DEF Consumed, Answer, Unprocessed, Contract!Next, Contract!Return, Contract!Answer
  <2>5. CASE Abort
    BY <2>5 DEF Abort, Unused, Contract!Next, Contract!Abort
  <2>6. CASE Timeout \/ Data \/ Exit \/ Close \/ ForceKill
    BY <2>6 DEF Timeout, Data, Exit, Close, ForceKill, Unused
  <2>7. CASE UNCHANGED vars
    BY <2>7 DEF vars
  <2> QED
    BY <2>1, <2>2, <2>3, <2>4, <2>5, <2>6, <2>7 DEF Next, Finished
<1> QED
  BY <1>1, <1>2, InductiveHolds, CancellationHasReason, PTL DEF Spec, Contract!Spec
====
