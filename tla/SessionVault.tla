---- MODULE SessionVault ----
(***************************************************************************)
(* The session vault (session-vault.ts) with its key provider              *)
(* (session-key-provider.ts): calls of load, save and                      *)
(* requireReauthentication for one account, from several processes, with   *)
(* the operating system's key store, failing file operations, processes    *)
(* that crash and machines that lose power.                                *)
(*                                                                         *)
(* The content of a file is abstracted to the key it was encrypted under,  *)
(* the login whose state it has, its reauthentication mark, whether it was *)
(* flushed to disk, and (ghost) the place of its write among all writes.   *)
(***************************************************************************)
EXTENDS Integers, FiniteSets

CONSTANTS
    Calls,
    Processes,
    Assignments, \* the ways in which the calls may be spread over the processes
    MaxCrashes   \* bound: crashes of processes and losses of power

ASSUME AssignmentsAssumption == Assignments \subseteq [Calls -> Processes]
ASSUME MaxCrashesAssumption == MaxCrashes \in Nat
ASSUME CallsAssumption == IsFiniteSet(Calls)

VARIABLES
    file,        \* session.v1.enc as the processes see it
    durable,     \* the file as the last flush of its directory left it
    unflushed,   \* what was renamed to it since then
    platform,    \* what the code runs on, and whether it flushes directories there
    directory,   \* the directory of the session with those above it
    keyring,     \* the vault key in the key store
    pendingKeys, \* per process, the call whose key request is under way
    request,     \* per call, where the key request it started is
    waitsFor,    \* the call whose key request a call waits for
    processOf,   \* the process that makes a call
    pc, op,
    content,     \* what readFile returned to a call
    key,         \* what the key provider returned to a call
    tmp,         \* the temporary file of a call
    answer,
    crashes,
    place,       \* ghost: the place of a call's write among all writes
    acked,       \* ghost: the place of the last write that a loss of power should spare
    leftover     \* ghost: the calls that failed to remove their temporary file

storage == <<file, durable, unflushed, platform>>
keys == <<keyring, pendingKeys, request, waitsFor, key>>
call == <<processOf, op>>
ghosts == <<place, acked, leftover>>
vars == <<storage, directory, keys, pc, call, content, tmp, answer, crashes, ghosts>>

None == "none"

Missing == [kind |-> "missing"]
Garbage == [kind |-> "garbage"]

\* A login is named after the call that saves it, a vault key after the call whose
\* request generated it.  Earlier ones were there before.
Earlier == "earlier"
ASSUME NamesAssumption == Calls \cap {None, Earlier, "unavailable"} = {}
Logins == Calls \cup {Earlier}
Keys == Calls \cup {Earlier}

Contents == {Missing, Garbage} \cup
    [kind : {"session"}, key : Keys, login : Logins, marked : BOOLEAN,
     synced : BOOLEAN, place : 0 .. Cardinality(Calls)]

EarlierSession ==
    [kind |-> "session", key |-> Earlier, login |-> Earlier, marked |-> FALSE,
     synced |-> TRUE, place |-> 0]

Answers ==
    {"missing", "valid", "expired", "reauthentication_required", "saved",
     "INVALID_REFERENCE", "KEY_UNAVAILABLE", "SESSION_CORRUPT",
     "SESSION_READ_FAILED", "SESSION_WRITE_FAILED"}

Platforms == {"posix", "win32"}

\* A directory is new until the one above it was flushed, which the code never does.
Directories == {"absent", "new", "durable"}

Steps == {"idle", "prepare", "look", "read", "key", "create", "sync", "rename",
          "flush", "remove", "done", "crashed"}

VaultTypeOK ==
    /\ file \in Contents /\ durable \in Contents /\ unflushed \subseteq Contents
    /\ platform \in Platforms /\ directory \in Directories
    /\ keyring \in Keys \cup {None}
    /\ pendingKeys \in [Processes -> Calls \cup {None}]
    /\ request \in [Calls -> {None, "get", "set", "verify"}]
    /\ waitsFor \in [Calls -> Calls \cup {None}]
    /\ processOf \in Assignments
    /\ pc \in [Calls -> Steps]
    /\ op \in [Calls -> {None, "load", "save", "requireReauthentication"}]
    /\ content \in [Calls -> Contents]
    /\ key \in [Calls -> Keys \cup {None, "unavailable"}]
    /\ tmp \in [Calls -> Contents]
    /\ answer \in [Calls -> Answers \cup {None}]
    /\ crashes \in 0 .. MaxCrashes
    /\ place \in [Calls -> 0 .. Cardinality(Calls)]
    /\ acked \in 0 .. Cardinality(Calls)
    /\ leftover \subseteq Calls

\* There is no session yet, a file that is none, or the session of an earlier login.
Init ==
    /\ file \in {Missing, Garbage, EarlierSession}
    /\ durable = file /\ unflushed = {}
    /\ platform \in Platforms
    /\ directory \in IF file = Missing THEN {"absent", "durable"} ELSE {"durable"}
    /\ keyring = IF file = EarlierSession THEN Earlier ELSE None
    /\ pendingKeys = [p \in Processes |-> None]
    /\ request = [k \in Calls |-> None]
    /\ waitsFor = [k \in Calls |-> None]
    /\ pc = [k \in Calls |-> "idle"]
    /\ processOf \in Assignments
    /\ op = [k \in Calls |-> None]
    /\ content = [k \in Calls |-> Missing]
    /\ key = [k \in Calls |-> None]
    /\ tmp = [k \in Calls |-> Missing]
    /\ answer = [k \in Calls |-> None]
    /\ crashes = 0
    /\ place = [k \in Calls |-> 0] /\ acked = 0 /\ leftover = {}

----
(* Calls *)

Goto(k, step) == pc' = [pc EXCEPT ![k] = step] /\ UNCHANGED answer

Answer(k, a) ==
    /\ pc' = [pc EXCEPT ![k] = "done"]
    /\ answer' = [answer EXCEPT ![k] = a]

\* Mutant of AskForKey: requests are not shared within a process.
AskForKeyAlone(k) ==
    /\ key' = [key EXCEPT ![k] = None]
    /\ waitsFor' = [waitsFor EXCEPT ![k] = k]
    /\ request' = [request EXCEPT ![k] = "get"]
    /\ UNCHANGED <<keyring, pendingKeys>>

\* getKey: the call joins the request of its process, or starts one.
AskForKey(k) ==
    LET p == processOf[k] IN
    /\ key' = [key EXCEPT ![k] = None]
    /\ UNCHANGED keyring
    /\ \/ /\ pendingKeys[p] # None
          /\ waitsFor' = [waitsFor EXCEPT ![k] = pendingKeys[p]]
          /\ UNCHANGED <<request, pendingKeys>>
       \/ /\ pendingKeys[p] = None
          /\ waitsFor' = [waitsFor EXCEPT ![k] = k]
          /\ request' = [request EXCEPT ![k] = "get"]
          /\ pendingKeys' = [pendingKeys EXCEPT ![p] = k]

\* The call begins.  validateReference, and save its input, may refuse it.
Begin(k) ==
    /\ pc[k] = "idle"
    /\ \E o \in {"load", "save", "requireReauthentication"} :
        /\ op' = [op EXCEPT ![k] = o]
        /\ \/ Answer(k, "INVALID_REFERENCE")
           \/ o = "save" /\ Answer(k, "SESSION_WRITE_FAILED")
           \/ Goto(k, IF o = "save" THEN "prepare" ELSE "look")
    /\ UNCHANGED <<storage, directory, keys, processOf, content, tmp, crashes, ghosts>>

\* secureDirectory, for each directory from the data directory to the session's
MakeDirectories == directory' = IF directory = "absent" THEN "new" ELSE directory

\* #prepareSessionDirectory: save does it first, requireReauthentication once it
\* has read the session.  A failure may come before or after the last mkdir.
Prepare(k) ==
    /\ pc[k] = "prepare"
    /\ \/ op[k] = "save" /\ Goto(k, "look") /\ MakeDirectories /\ UNCHANGED keys
       \/ op[k] # "save" /\ Goto(k, "key") /\ MakeDirectories /\ AskForKey(k)
       \/ /\ Answer(k, "SESSION_WRITE_FAILED") /\ UNCHANGED keys
          /\ MakeDirectories \/ UNCHANGED directory
    /\ UNCHANGED <<storage, call, content, tmp, crashes, ghosts>>

\* #readPayload found no file.
FoundNothing(k) ==
    \/ op[k] = "save" /\ Goto(k, "key") /\ AskForKey(k)
    \/ op[k] # "save" /\ Answer(k, "missing") /\ UNCHANGED keys

\* #readPayload up to stat: the file is there or not, is no session by its size or
\* kind, or cannot be looked at.
Look(k) ==
    /\ pc[k] = "look"
    /\ \/ file = Missing /\ FoundNothing(k)
       \/ file # Missing /\ Goto(k, "read") /\ AskForKey(k)
       \/ file = Garbage /\ Answer(k, "SESSION_CORRUPT") /\ UNCHANGED keys
       \/ Answer(k, "SESSION_READ_FAILED") /\ UNCHANGED keys
    /\ content' = [content EXCEPT ![k] = Missing]
    /\ UNCHANGED <<storage, directory, call, tmp, crashes, ghosts>>

\* readFile, while the key is being asked for.  Nothing ever removes the file.
ReadFile(k) ==
    /\ pc[k] = "read" /\ content[k] = Missing
    /\ \/ /\ content' = [content EXCEPT ![k] = file]
          /\ UNCHANGED <<pc, answer>>
       \/ Answer(k, "SESSION_READ_FAILED") /\ UNCHANGED content
    /\ UNCHANGED <<storage, directory, keys, call, tmp, crashes, ghosts>>

\* #readPayload has a payload for its caller.
Found(k) ==
    \/ /\ op[k] = "load"
       /\ IF content[k].marked THEN Answer(k, "reauthentication_required")
          ELSE \E a \in {"valid", "expired"} : Answer(k, a)
       /\ UNCHANGED keys
    \/ op[k] = "save" /\ Goto(k, "key") /\ AskForKey(k)
    \/ op[k] = "requireReauthentication" /\ Goto(k, "prepare") /\ UNCHANGED keys

Decryptable(k) == content[k].kind = "session" /\ content[k].key = key[k]

\* Mutant of Decrypt: what cannot be decrypted counts as missing.
DecryptOrForget(k) ==
    /\ pc[k] = "read"
    /\ \/ key[k] = "unavailable" /\ Answer(k, "KEY_UNAVAILABLE") /\ UNCHANGED keys
       \/ /\ key[k] \in Keys /\ content[k] # Missing
          /\ IF Decryptable(k) THEN Found(k) ELSE FoundNothing(k)
    /\ UNCHANGED <<storage, directory, call, content, tmp, crashes, ghosts>>

\* Both are there, or there is no key, which is enough to fail.
Decrypt(k) ==
    /\ pc[k] = "read"
    /\ \/ key[k] = "unavailable" /\ Answer(k, "KEY_UNAVAILABLE") /\ UNCHANGED keys
       \/ /\ key[k] \in Keys /\ content[k] # Missing
          /\ IF Decryptable(k) THEN Found(k)
             ELSE Answer(k, "SESSION_CORRUPT") /\ UNCHANGED keys
    /\ UNCHANGED <<storage, directory, call, content, tmp, crashes, ghosts>>

\* The key that the new content is to be encrypted with has come.
UseKey(k) ==
    /\ pc[k] = "key" /\ key[k] # None
    /\ IF key[k] = "unavailable" THEN Answer(k, "KEY_UNAVAILABLE") ELSE Goto(k, "create")
    /\ UNCHANGED <<storage, directory, keys, call, content, tmp, crashes, ghosts>>

----
(* atomicWrite *)

\* Whose state is written: save's input, or what requireReauthentication has read.
LoginOf(k) == IF op[k] = "save" THEN k ELSE content[k].login

\* open and writeFile.  The file may not be created, or not be written.
Create(k) ==
    /\ pc[k] = "create"
    /\ \/ /\ tmp' = [tmp EXCEPT ![k] =
                [kind |-> "session", key |-> key[k], login |-> LoginOf(k),
                 marked |-> op[k] # "save", synced |-> FALSE, place |-> 0]]
          /\ Goto(k, "sync")
       \/ tmp' = [tmp EXCEPT ![k] = Garbage] /\ Goto(k, "remove")
       \/ Answer(k, "SESSION_WRITE_FAILED") /\ UNCHANGED tmp
    /\ UNCHANGED <<storage, directory, keys, call, content, crashes, ghosts>>

\* handle.sync and handle.close
Sync(k) ==
    /\ pc[k] = "sync"
    /\ \/ tmp' = [tmp EXCEPT ![k].synced = TRUE] /\ Goto(k, "rename")
       \/ Goto(k, "remove") /\ UNCHANGED tmp
    /\ UNCHANGED <<storage, directory, keys, call, content, crashes, ghosts>>

\* Ghost: the place of the next write.
NextPlace == Cardinality({k \in Calls : place[k] > 0}) + 1

\* The rename succeeds.
MoveIntoPlace(k) ==
    /\ file' = [tmp[k] EXCEPT !.place = NextPlace]
    /\ unflushed' = unflushed \cup {file'}
    /\ place' = [place EXCEPT ![k] = NextPlace]
    /\ tmp' = [tmp EXCEPT ![k] = Missing]
    /\ Goto(k, "flush")

\* Mutant of Rename: temporaryCreated is reset before the rename.
RenameOrGiveUp(k) ==
    /\ pc[k] = "rename"
    /\ \/ MoveIntoPlace(k)
       \/ Answer(k, "SESSION_WRITE_FAILED") /\ UNCHANGED <<file, unflushed, place, tmp>>
    /\ UNCHANGED <<durable, platform, directory, keys, call, content, crashes, acked, leftover>>

\* secureFile(temporaryPath) and rename
Rename(k) ==
    /\ pc[k] = "rename"
    /\ \/ MoveIntoPlace(k)
       \/ Goto(k, "remove") /\ UNCHANGED <<file, unflushed, place, tmp>>
    /\ UNCHANGED <<durable, platform, directory, keys, call, content, crashes, acked, leftover>>

Acknowledge(k) ==
    /\ Answer(k, IF op[k] = "save" THEN "saved" ELSE "reauthentication_required")
    /\ acked' = IF place[k] > acked THEN place[k] ELSE acked

\* Mutant of Flush: the directory is not flushed.
SkipFlush(k) ==
    /\ pc[k] = "flush" /\ Acknowledge(k)
    /\ UNCHANGED <<storage, directory, keys, call, content, tmp, crashes, place, leftover>>

\* secureFile(path) and, except on win32, the flush of the directory.  The new file is
\* in place even if they fail.
Flush(k) ==
    /\ pc[k] = "flush"
    /\ \/ platform # "win32" /\ Acknowledge(k) /\ durable' = file /\ unflushed' = {}
       \/ platform = "win32" /\ Acknowledge(k) /\ UNCHANGED <<durable, unflushed>>
       \/ Answer(k, "SESSION_WRITE_FAILED") /\ UNCHANGED <<durable, unflushed, acked>>
    /\ UNCHANGED <<file, platform, directory, keys, call, content, tmp, crashes, place, leftover>>

\* rm, whose failure is ignored
Remove(k) ==
    /\ pc[k] = "remove"
    /\ Answer(k, "SESSION_WRITE_FAILED")
    /\ \/ tmp' = [tmp EXCEPT ![k] = Missing] /\ UNCHANGED leftover
       \/ leftover' = leftover \cup {k} /\ UNCHANGED tmp
    /\ UNCHANGED <<storage, directory, keys, call, content, crashes, place, acked>>

----
(* readOrCreateKey, in the request that call k started *)

\* Mutant of Settle: only the call that started the request hears of its result.
SettleForOne(k, result) ==
    /\ request' = [request EXCEPT ![k] = None]
    /\ pendingKeys' = [pendingKeys EXCEPT ![processOf[k]] = None]
    /\ key' = [key EXCEPT ![k] = IF waitsFor[k] = k THEN result ELSE @]
    /\ waitsFor' = [waitsFor EXCEPT ![k] = None]

\* The promise settles for every call that waits for it and is forgotten.
Settle(k, result) ==
    /\ request' = [request EXCEPT ![k] = None]
    /\ pendingKeys' = [pendingKeys EXCEPT ![processOf[k]] = None]
    /\ key' = [j \in Calls |-> IF waitsFor[j] = k THEN result ELSE key[j]]
    /\ waitsFor' = [j \in Calls |-> IF waitsFor[j] = k THEN None ELSE waitsFor[j]]

Request(k, step) == request' = [request EXCEPT ![k] = step] /\ UNCHANGED <<pendingKeys, key, waitsFor>>

\* The first getSecret
GetSecret(k) ==
    /\ request[k] = "get"
    /\ \/ keyring # None /\ Settle(k, keyring)
       \/ keyring = None /\ Request(k, "set")
       \/ Settle(k, "unavailable")
    /\ UNCHANGED keyring

\* setSecret.  An error does not tell whether the key was stored.
SetSecret(k) ==
    /\ request[k] = "set"
    /\ \/ keyring' = k /\ Request(k, "verify")
       \/ keyring' \in {k, keyring} /\ Settle(k, "unavailable")

\* The getSecret that reads the new key back
VerifySecret(k) ==
    /\ request[k] = "verify"
    /\ Settle(k, keyring) \/ Settle(k, "unavailable")
    /\ UNCHANGED keyring

KeyStep(k) ==
    /\ GetSecret(k) \/ SetSecret(k) \/ VerifySecret(k)
    /\ UNCHANGED <<storage, directory, pc, call, content, tmp, answer, crashes, ghosts>>

----
(* Crashes *)

InFlight(k) == pc[k] \notin {"idle", "done", "crashed"}

Stop(stopped) ==
    /\ crashes < MaxCrashes
    /\ crashes' = crashes + 1
    /\ pc' = [k \in Calls |->
                IF processOf[k] \in stopped /\ InFlight(k) THEN "crashed" ELSE pc[k]]
    /\ request' = [k \in Calls |-> IF processOf[k] \in stopped THEN None ELSE request[k]]
    /\ waitsFor' = [k \in Calls |-> IF processOf[k] \in stopped THEN None ELSE waitsFor[k]]
    /\ pendingKeys' = [p \in Processes |-> IF p \in stopped THEN None ELSE pendingKeys[p]]
    /\ UNCHANGED <<platform, keyring, key, call, content, tmp, answer, place, leftover>>

\* A process ends; calls that are still to come are made by its successor.
ProcessCrash(p) == Stop({p}) /\ UNCHANGED <<storage, directory, acked>>

\* A directory that was not flushed to the one above is gone, with all that is in it.
DirectoryIsLost ==
    /\ directory # "durable" /\ directory' = "absent"
    /\ file' = Missing

\* Otherwise it has what was flushed, or something that was renamed later; the file has
\* its content only if that was flushed.
DirectoryIsKept ==
    /\ directory # "absent" /\ directory' = "durable"
    /\ \E entry \in {durable} \cup unflushed :
        file' \in IF entry.kind = "session" /\ ~entry.synced THEN {entry, Garbage}
                  ELSE {entry}

\* Where the code takes no care that a loss of power spares an acknowledged write
Exposed == platform = "win32" \/ directory # "durable"

\* There the writes that were acknowledged before count no more (acked).
PowerLoss ==
    /\ Stop(Processes)
    /\ DirectoryIsLost \/ DirectoryIsKept
    /\ durable' = file' /\ unflushed' = {}
    /\ acked' = IF Exposed THEN 0 ELSE acked

----
Step(k) ==
    \/ Prepare(k) \/ Look(k) \/ ReadFile(k) \/ Decrypt(k) \/ UseKey(k)
    \/ Create(k) \/ Sync(k) \/ Rename(k) \/ Flush(k) \/ Remove(k)

Finished ==
    /\ \A k \in Calls : ~InFlight(k) /\ pc[k] # "idle" /\ request[k] = None
    /\ UNCHANGED vars

Next ==
    \/ \E k \in Calls : Begin(k) \/ Step(k) \/ KeyStep(k)
    \/ \E p \in Processes : ProcessCrash(p)
    \/ PowerLoss
    \/ Finished

Spec == Init /\ [][Next]_vars

\* File operations and the key store settle.
FairSpec ==
    Spec /\ \A k \in Calls : WF_vars(Step(k)) /\ WF_vars(KeyStep(k))

----
(* Properties *)

\* Once save or requireReauthentication has answered, neither a failed or concurrent
\* call nor a crash, of any process, brings an earlier session back; nor does a loss of
\* power where the directory is flushed and was not made just before (atomicWrite).
\* Elsewhere (Exposed) it may, and the promise is only that of the writes that follow.
AcknowledgedWriteSurvives ==
    acked > 0 => file.kind = "session" /\ file.place >= acked

\* A call that answers leaves no temporary file behind unless rm itself failed.
TemporariesAreRemoved ==
    \A k \in Calls : pc[k] = "done" /\ k \notin leftover => tmp[k] = Missing

\* A stored session can be decrypted with the key in the key store: a data
\* directory has one key (readOrCreateKey).
StoredUnderVaultKey == file.kind = "session" => file.key = keyring

\* Calls of one process share the promise of a key, so that they never come by two,
\* although key requests fail and the process crashes and is started again.
ProcessHasOneKey ==
    (\A k, l \in Calls : processOf[k] = processOf[l]) => StoredUnderVaultKey

\* The refinement mapping to the register of StoredSession: a call has written once
\* its rename is done, and it has read when it knows what the file has.
ValueOf(f) ==
    IF f.kind = "session" THEN [kind |-> "session", login |-> f.login, marked |-> f.marked]
    ELSE f

HasRead(k) ==
    \/ pc[k] \in {"key", "create", "sync", "rename", "flush", "remove"}
    \/ pc[k] = "prepare" /\ op[k] # "save"
    \/ pc[k] = "read" /\ content[k] # Missing

Register == INSTANCE StoredSession WITH
    stored <- ValueOf(file),
    revertible <- {ValueOf(f) : f \in {durable} \cup unflushed},
    flushes <- platform # "win32",
    rooted <- directory = "durable",
    status <- [k \in Calls |->
        IF pc[k] = "flush" THEN "written" ELSE IF InFlight(k) THEN "open" ELSE pc[k]],
    saw <- [k \in Calls |->
        IF HasRead(k) THEN ValueOf(content[k]) ELSE [kind |-> "unseen"]]

\* The vault is the register that StoredSession describes, whatever its overlapping
\* calls, failing steps, crashes and losses of power do: a write takes effect once and
\* whole, only an answer of SESSION_WRITE_FAILED leaves it open whether it did, a file
\* that is no session is never replaced, and a session that was saved is lost only to
\* another save or to a requireReauthentication that had read the file before, unless
\* the power is lost where nothing was flushed.
ImplementsRegister == Register!Spec

\* Every call answers, unless its process crashes.
EveryVaultCallAnswers ==
    \A k \in Calls : InFlight(k) ~> ~InFlight(k)
====
