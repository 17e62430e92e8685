---- MODULE SubscriptionHistory ----
(***************************************************************************)
(* Calls on repositories of the subscription history                       *)
(* (subscription-history.ts).  A call runs its SQL in one turn; it is then *)
(* suspended while restrictDatabaseFiles looks at each database file and   *)
(* sets its mode, and other calls run in between, the closing of a         *)
(* repository among them.  Repositories may live in different processes:   *)
(* each has its own connection to the one database.                        *)
(***************************************************************************)
EXTENDS HistoryTables, Sequences

CONSTANTS
    Repositories,
    Calls,        \* the calls made, each on some repository
    FilesMayFail  \* whether lstat and chmod may fail for reasons of their own

ASSUME FilesMayFailAssumption == FilesMayFail \in BOOLEAN

VARIABLES
    closed,    \* #closed of a repository
    connected, \* #database.open: the connection of a repository
    sidecars,  \* whether the -wal and -shm files exist
    pc,        \* where a call is suspended
    repo,      \* the repository of a call
    suffix,    \* the index of the file that restrictDatabaseFiles has come to
    method,    \* what a call does: "read", "write", "prune" or "close"
    effect,    \* ghost: the check a call has committed, or the cutoff it pruned by
    faults,    \* ghost: the calls a file or the checkpoint after a prune has failed
    answer

connections == <<closed, connected, sidecars>>
calls == <<pc, repo, suffix, method, effect, faults, answer>>
allvars == <<tables, connections, calls>>

sidecarSuffixes == <<"", "-wal", "-shm", "-journal">>

Methods == {"read", "write", "prune", "close"}

\* The code of a call that fails
FailureCode == [m \in Methods |->
    IF m = "read" THEN "DATABASE_READ_FAILED"
    ELSE IF m = "prune" THEN "DATABASE_PRUNE_FAILED" ELSE "DATABASE_WRITE_FAILED"]

FailureCodes == {FailureCode[m] : m \in Methods}

HistoryTypeOK ==
    /\ TypeOK
    /\ closed \in [Repositories -> BOOLEAN]
    /\ connected \in [Repositories -> BOOLEAN]
    /\ sidecars \in BOOLEAN
    /\ pc \in [Calls -> {"idle", "lstat", "chmod", "done"}]
    /\ repo \in [Calls -> Repositories \cup {"none"}]
    /\ suffix \in [Calls -> 1 .. Len(sidecarSuffixes)]
    /\ method \in [Calls -> Methods \cup {"none"}]
    /\ effect \in [Calls -> recorded \cup {NoRow} \cup [before : Int]]
    /\ faults \subseteq Calls
    /\ answer \in [Calls -> FailureCodes \cup
                     {"none", "ok", "INVALID_INPUT", "DATABASE_CLOSED"}]

HistoryInit ==
    /\ Init
    /\ closed = [r \in Repositories |-> FALSE]
    /\ connected = [r \in Repositories |-> TRUE]
    /\ sidecars = TRUE
    /\ pc = [k \in Calls |-> "idle"]
    /\ repo = [k \in Calls |-> "none"]
    /\ suffix = [k \in Calls |-> 1]
    /\ method = [k \in Calls |-> "none"]
    /\ effect = [k \in Calls |-> NoRow]
    /\ faults = {}
    /\ answer = [k \in Calls |-> "none"]

----
(* Steps of a call *)

\* The file at the index restrictDatabaseFiles has come to.  No journal exists in
\* WAL mode.
FileExists(n) ==
    \/ sidecarSuffixes[n] = ""
    \/ sidecarSuffixes[n] \in {"-wal", "-shm"} /\ sidecars

Answer(k, a) ==
    /\ pc' = [pc EXCEPT ![k] = "done"]
    /\ answer' = [answer EXCEPT ![k] = a]

\* Call k of method m begins on repository r.
Begin(k, r, m) ==
    /\ pc[k] = "idle"
    /\ repo' = [repo EXCEPT ![k] = r]
    /\ method' = [method EXCEPT ![k] = m]

\* The SQL is done: restrictDatabaseFiles follows.
StartRestricting(k) ==
    /\ pc' = [pc EXCEPT ![k] = "lstat"]
    /\ UNCHANGED <<suffix, answer>>

\* The schema refuses the input before the database is looked at.
RefuseInput(k, r) ==
    /\ \E m \in {"read", "write", "prune"} : Begin(k, r, m)
    /\ Answer(k, "INVALID_INPUT")
    /\ UNCHANGED <<tables, connections, suffix, effect, faults>>

\* #ensureOpen does not throw.
Usable(r) == ~closed[r] /\ connected[r]

\* Mutant of RefuseClosed: a closed database is passed over in silence, as close()
\* does.
PassOverClosed(k, r) ==
    /\ ~Usable(r)
    /\ \E m \in {"read", "write", "prune"} : Begin(k, r, m)
    /\ Answer(k, "ok")
    /\ UNCHANGED <<tables, connections, suffix, effect, faults>>

RefuseClosed(k, r) ==
    /\ ~Usable(r)
    /\ \E m \in {"read", "write", "prune"} : Begin(k, r, m)
    /\ Answer(k, "DATABASE_CLOSED")
    /\ UNCHANGED <<tables, connections, suffix, effect, faults>>

\* The SQL throws and is rolled back: the database was busy, or could not be read
\* or written.
OperationFails(k, r) ==
    /\ Usable(r)
    /\ \E m \in {"read", "write", "prune"} : Begin(k, r, m) /\ Answer(k, FailureCode[m])
    /\ UNCHANGED <<tables, connections, suffix, effect, faults>>

Read(k, r) ==
    /\ Usable(r)
    /\ Begin(k, r, "read")
    /\ StartRestricting(k)
    /\ UNCHANGED <<tables, connections, effect, faults>>

Write(k, r) ==
    /\ Usable(r)
    /\ Begin(k, r, "write")
    /\ \E a \in Accounts, t \in Times :
        \/ \E plan \in Plans : RecordSuccessfulCheck(a, t, plan)
        \/ \E outcome \in Outcomes \ {"success"} : RecordFailedCheck(a, t, outcome)
    /\ \E check \in recorded' \ recorded : effect' = [effect EXCEPT ![k] = check]
    /\ StartRestricting(k)
    /\ UNCHANGED <<connections, faults>>

\* The checkpoint after the prune may throw: the rows are gone by then.
Prune(k, r) ==
    /\ Usable(r)
    /\ Begin(k, r, "prune")
    /\ \E t \in Times \cup {u + 1 : u \in Times} :
        /\ PruneCheckHistory(t)
        /\ effect' = [effect EXCEPT ![k] = [before |-> t]]
    /\ \/ StartRestricting(k) /\ UNCHANGED faults
       \/ /\ Answer(k, "DATABASE_PRUNE_FAILED")
          /\ faults' = faults \cup {k}
          /\ UNCHANGED suffix
    /\ UNCHANGED connections

\* close(): checkpoint, close the connection, restrict the files.  The last
\* connection takes the WAL files with it.  Should the checkpoint throw, the
\* repository counts as closed and its connection stays.
Close(k, r) ==
    /\ Begin(k, r, "close")
    /\ \/ /\ closed[r]
          /\ Answer(k, "ok")
          /\ UNCHANGED <<connections, suffix>>
       \/ /\ ~closed[r]
          /\ closed' = [closed EXCEPT ![r] = TRUE]
          /\ \/ /\ connected' = [connected EXCEPT ![r] = FALSE]
                /\ sidecars' = \E s \in Repositories \ {r} : connected[s]
                /\ StartRestricting(k)
             \/ /\ Answer(k, "DATABASE_WRITE_FAILED")
                /\ UNCHANGED <<connected, sidecars, suffix>>
    /\ UNCHANGED <<tables, effect, faults>>

\* Mutant of NextFile: files that do not exist are waited for.
NextFileIfPresent(k) ==
    IF suffix[k] = Len(sidecarSuffixes) THEN Answer(k, "ok") /\ UNCHANGED suffix
    ELSE /\ FileExists(suffix[k] + 1)
         /\ suffix' = [suffix EXCEPT ![k] = @ + 1]
         /\ pc' = [pc EXCEPT ![k] = "lstat"]
         /\ UNCHANGED answer

\* The loop of restrictDatabaseFiles goes on, or is through and the call answers.
NextFile(k) ==
    IF suffix[k] = Len(sidecarSuffixes) THEN Answer(k, "ok") /\ UNCHANGED suffix
    ELSE /\ suffix' = [suffix EXCEPT ![k] = @ + 1]
         /\ pc' = [pc EXCEPT ![k] = "lstat"]
         /\ UNCHANGED answer

\* Mutant of LookAtFile: a file that does not exist is a failure.
LookAtExistingFile(k) ==
    /\ pc[k] = "lstat"
    /\ \/ /\ FileExists(suffix[k])
          /\ pc' = [pc EXCEPT ![k] = "chmod"]
          /\ UNCHANGED <<suffix, answer>>
       \/ ~FileExists(suffix[k]) /\ Answer(k, FailureCode[method[k]]) /\ UNCHANGED suffix
    /\ UNCHANGED <<tables, connections, repo, method, effect, faults>>

\* assertSafePath(path, "file")
LookAtFile(k) ==
    /\ pc[k] = "lstat"
    /\ \/ /\ FileExists(suffix[k])
          /\ pc' = [pc EXCEPT ![k] = "chmod"]
          /\ UNCHANGED <<suffix, answer>>
       \/ ~FileExists(suffix[k]) /\ NextFile(k)
    /\ UNCHANGED <<tables, connections, repo, method, effect, faults>>

\* secureFile(path): it throws if the file went away since lstat.
RestrictFile(k) ==
    /\ pc[k] = "chmod"
    /\ \/ FileExists(suffix[k]) /\ NextFile(k)
       \/ ~FileExists(suffix[k]) /\ Answer(k, FailureCode[method[k]]) /\ UNCHANGED suffix
    /\ UNCHANGED <<tables, connections, repo, method, effect, faults>>

\* A file is a link or of another kind, or cannot be looked at or changed.
FileFails(k) ==
    /\ FilesMayFail /\ pc[k] \in {"lstat", "chmod"}
    /\ Answer(k, FailureCode[method[k]])
    /\ faults' = faults \cup {k}
    /\ UNCHANGED <<tables, connections, repo, suffix, method, effect>>

Operate(k, r) ==
    \/ RefuseInput(k, r) \/ RefuseClosed(k, r) \/ OperationFails(k, r)
    \/ Read(k, r) \/ Write(k, r) \/ Prune(k, r) \/ Close(k, r)

HistoryNext ==
    \/ \E k \in Calls, r \in Repositories : Operate(k, r)
    \/ \E k \in Calls : LookAtFile(k) \/ RestrictFile(k) \/ FileFails(k)
    \/ (\A k \in Calls : pc[k] = "done") /\ UNCHANGED allvars

HistorySpec == HistoryInit /\ [][HistoryNext]_allvars

\* File operations settle.  Nothing obliges a caller to call, or a file to fail.
FairHistorySpec ==
    HistorySpec /\ \A k \in Calls : WF_allvars(LookAtFile(k) \/ RestrictFile(k))

----
(* Properties *)

\* What an answer says of the effect, however many other calls ran before it was
\* given.  "ok" from a write: the check was committed and the view of outcomes is not
\* older than it.  "ok" from a prune: the rows are gone.  Refusals, reads and closings
\* have changed nothing, and a closing that was answered, even by a failure, has closed
\* its repository.
AnswerTellsEffect ==
    \A k \in Calls :
        /\ answer[k] = "ok" /\ method[k] = "write" =>
             /\ effect[k] # NoRow
             /\ accounts[effect[k].account].at >= effect[k].at
        /\ answer[k] = "ok" /\ method[k] = "prune" => effect[k] # NoRow
        /\ answer[k] \in {"INVALID_INPUT", "DATABASE_CLOSED"} => effect[k] = NoRow
        /\ method[k] \in {"read", "close"} => effect[k] = NoRow
        /\ answer[k] # "none" /\ method[k] = "close" => closed[repo[k]]

\* A call that has committed and is answered by a failure all the same owes it to a
\* checkpoint or a file that failed by itself, or to the closing of the last
\* connection, which takes the files restrictDatabaseFiles is looking at.  As long as
\* a connection is open no closing of another one turns a committed write or prune
\* into a failure.
CommittedCallFailsForReason ==
    \A k \in Calls :
        answer[k] \in FailureCodes /\ effect[k] # NoRow =>
            k \in faults \/ \A r \in Repositories : ~connected[r]

\* Every call that was begun is answered, whatever is closed meanwhile.
EveryCallAnswers ==
    \A k \in Calls : pc[k] \in {"lstat", "chmod"} ~> pc[k] = "done"
====
