---- MODULE StoredSession ----
(***************************************************************************)
(* What the session vault promises of the stored session of one account:   *)
(* a register that calls of load, save and requireReauthentication read    *)
(* and write, each write in one step between the call and its answer.      *)
(* SessionVault implements it with files, keys and flushes.                *)
(*                                                                         *)
(* A process may crash at any time and its calls are never answered.  A    *)
(* loss of power may take back writes: those that were acknowledged only   *)
(* on a medium that does not flush them, or that is not rooted yet and so  *)
(* may lose everything.                                                    *)
(***************************************************************************)
CONSTANTS
    Calls,
    Logins  \* the logins whose state may be stored; a save stores that of its call

VARIABLES
    stored,      \* the stored session
    revertible,  \* what a loss of power may leave in its place
    flushes,     \* whether an acknowledged write is there to stay
    rooted,      \* whether a loss of power leaves anything at all
    op,          \* what a call is for
    status,      \* where a call is
    saw,         \* the session that a call has read
    answer

medium == <<flushes, rooted>>
vars == <<stored, revertible, medium, op, status, saw, answer>>

Missing == [kind |-> "missing"]
Corrupt == [kind |-> "garbage"]
Session(login, marked) == [kind |-> "session", login |-> login, marked |-> marked]

Values == {Missing, Corrupt} \cup
    [kind : {"session"}, login : Logins, marked : BOOLEAN]

Unseen == [kind |-> "unseen"]

Operations == {"load", "save", "requireReauthentication"}

StoredTypeOK ==
    /\ stored \in Values /\ revertible \subseteq Values
    /\ flushes \in BOOLEAN /\ rooted \in BOOLEAN
    /\ op \in [Calls -> Operations \cup {"none"}]
    /\ status \in [Calls -> {"idle", "open", "written", "done", "crashed"}]
    /\ saw \in [Calls -> Values \cup {Unseen}]
    /\ answer \in [Calls -> STRING]

Init ==
    /\ stored \in Values /\ revertible = {stored}
    /\ flushes \in BOOLEAN /\ rooted \in BOOLEAN
    /\ op = [k \in Calls |-> "none"]
    /\ status = [k \in Calls |-> "idle"]
    /\ saw = [k \in Calls |-> Unseen]
    /\ answer = [k \in Calls |-> "none"]

----
\* A refused call does nothing; otherwise it is open from here on.
Call(k) ==
    /\ status[k] = "idle"
    /\ \E o \in Operations : op' = [op EXCEPT ![k] = o]
    /\ \/ status' = [status EXCEPT ![k] = "open"] /\ UNCHANGED answer
       \/ /\ status' = [status EXCEPT ![k] = "done"]
          /\ \E a \in {"INVALID_REFERENCE", "SESSION_WRITE_FAILED"} :
                /\ a = "SESSION_WRITE_FAILED" => op'[k] = "save"
                /\ answer' = [answer EXCEPT ![k] = a]
    /\ UNCHANGED <<stored, revertible, saw>>

\* Every call reads, once.
Read(k) ==
    /\ status[k] = "open" /\ saw[k] = Unseen
    /\ saw' = [saw EXCEPT ![k] = stored]
    /\ UNCHANGED <<stored, revertible, op, status, answer>>

\* What a call that has read puts in the place of a session or of nothing.  A mark
\* is put on the session that was read, which may not be the stored one any more.
NewValue(k) ==
    IF op[k] = "save" THEN Session(k, FALSE) ELSE Session(saw[k].login, TRUE)

Write(k) ==
    /\ status[k] = "open" /\ stored # Corrupt
    /\ \/ op[k] = "save" /\ saw[k] \notin {Unseen, Corrupt}
       \/ op[k] = "requireReauthentication" /\ saw[k].kind = "session"
    /\ stored' = NewValue(k)
    /\ revertible' = revertible \cup {stored'}
    /\ status' = [status EXCEPT ![k] = "written"]
    /\ UNCHANGED <<op, saw, answer>>

Answer(k, a) ==
    /\ status' = [status EXCEPT ![k] = "done"]
    /\ answer' = [answer EXCEPT ![k] = a]
    /\ saw' = [saw EXCEPT ![k] = Unseen]
    /\ UNCHANGED <<stored, op>>

\* The write is answered for: on a medium that flushes, what is stored is there to stay.
Acknowledge(k) ==
    /\ status[k] = "written"
    /\ Answer(k, IF op[k] = "save" THEN "saved" ELSE "reauthentication_required")
    /\ revertible' = IF flushes THEN {stored} ELSE revertible

\* The session that an answer is about: the one read, or the one read just now.
View(k) == IF saw[k] = Unseen THEN stored ELSE saw[k]

\* The answers of a call that has written nothing.
Report(k, a) ==
    \/ a = "missing" /\ op[k] # "save" /\ View(k) = Missing
    \/ a \in {"valid", "expired"} /\ op[k] = "load"
          /\ \E login \in Logins : View(k) = Session(login, FALSE)
    \/ a = "reauthentication_required" /\ op[k] = "load"
          /\ \E login \in Logins : View(k) = Session(login, TRUE)
    \/ a = "SESSION_CORRUPT" /\ View(k) # Missing
    \/ a \in {"SESSION_READ_FAILED", "KEY_UNAVAILABLE"}
    \/ a = "SESSION_WRITE_FAILED" /\ op[k] # "load"

Reply(k) ==
    /\ status[k] = "open"
    /\ \E a \in {"missing", "valid", "expired", "reauthentication_required",
                 "SESSION_CORRUPT", "SESSION_READ_FAILED", "KEY_UNAVAILABLE",
                 "SESSION_WRITE_FAILED"} : Report(k, a) /\ Answer(k, a)
    /\ UNCHANGED revertible

\* A call that has written may still fail, but then it says so.
FailAfterWrite(k) ==
    /\ status[k] = "written"
    /\ Answer(k, "SESSION_WRITE_FAILED")
    /\ UNCHANGED revertible

Crash(calls) ==
    /\ status' = [k \in Calls |->
          IF k \in calls /\ status[k] \in {"open", "written"} THEN "crashed" ELSE status[k]]
    /\ saw' = [k \in Calls |-> IF k \in calls THEN Unseen ELSE saw[k]]
    /\ UNCHANGED <<op, answer>>

ProcessCrash == \E calls \in SUBSET Calls : Crash(calls) /\ UNCHANGED <<stored, revertible>>

\* What is found after a loss of power is there to stay.
PowerLoss ==
    /\ Crash(Calls)
    /\ \/ stored' \in revertible /\ rooted'
       \/ ~rooted /\ ~rooted' /\ stored' = Missing
    /\ revertible' = {stored'} /\ UNCHANGED flushes

Step(k) ==
    \/ Call(k) \/ Read(k) \/ Write(k) \/ Acknowledge(k) \/ Reply(k) \/ FailAfterWrite(k)

Next ==
    \/ (\E k \in Calls : Step(k)) /\ UNCHANGED medium
    \/ ProcessCrash /\ UNCHANGED medium
    \/ PowerLoss

Spec == Init /\ [][Next]_vars
====
