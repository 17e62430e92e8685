---- MODULE SessionVaultProofs ----
(***************************************************************************)
(* Proofs about SessionVault and the login of InteractiveAuthentication,   *)
(* for any calls, any processes they are made by and any number of crashes *)
(* and losses of power.                                                    *)
(***************************************************************************)
EXTENDS InteractiveAuthentication, FiniteSetTheorems, TLAPS

\* VaultTypeOK in four parts.
StorageTyped ==
    /\ file \in Contents /\ durable \in Contents /\ unflushed \subseteq Contents
    /\ platform \in Platforms /\ directory \in Directories

KeysTyped ==
    /\ keyring \in Keys \cup {None}
    /\ pendingKeys \in [Processes -> Calls \cup {None}]
    /\ request \in [Calls -> {None, "get", "set", "verify"}]
    /\ waitsFor \in [Calls -> Calls \cup {None}]
    /\ key \in [Calls -> Keys \cup {None, "unavailable"}]

CallsTyped ==
    /\ processOf \in Assignments
    /\ pc \in [Calls -> Steps]
    /\ op \in [Calls -> {None, "load", "save", "requireReauthentication"}]
    /\ content \in [Calls -> Contents]
    /\ tmp \in [Calls -> Contents]
    /\ answer \in [Calls -> Answers \cup {None}]

CountsTyped ==
    /\ crashes \in 0 .. MaxCrashes
    /\ place \in [Calls -> 0 .. Cardinality(Calls)]
    /\ acked \in 0 .. Cardinality(Calls)
    /\ leftover \subseteq Calls

Typed == StorageTyped /\ KeysTyped /\ CallsTyped /\ CountsTyped

----
(* What is on the disk *)

OnDisk == {file, durable} \cup unflushed

\* A login's session was written by its call, or was there before.
Written(user) == user = Earlier \/ place[user] > 0

\* What was renamed into place was flushed first, and is no unmarked copy of the
\* session that was there before the writes.
DiskInv ==
    \A f \in OnDisk : f.kind = "session" =>
        /\ f.synced
        /\ Written(f.login)
        /\ f.place > 0 => f.login # Earlier \/ f.marked

\* No later write is older than an acknowledged one, and where the directory is flushed
\* nothing older is left that a loss of power could bring back.
AckInv ==
    acked > 0 =>
        /\ file.kind = "session" /\ file.place >= acked
        /\ platform # "win32" => \A f \in OnDisk : f.kind = "session" /\ f.place >= acked

----
(* What holds of one call *)

\* A call that is past readPayload.
Past(k) ==
    \/ pc[k] \in {"key", "create", "sync", "rename", "flush", "remove"}
    \/ pc[k] = "prepare" /\ op[k] # "save"

\* What a call that goes on has read, and that no file it may replace is garbage.
ReadInv(k) ==
    /\ pc[k] \in {"prepare"} \/ Past(k) => op[k] \in {"save", "requireReauthentication"}
    /\ Past(k) => /\ content[k] # Garbage
                  /\ op[k] # "save" => content[k].kind = "session"
    /\ HasRead(k) /\ content[k] # Garbage => file # Garbage
    /\ content[k].kind = "session" => Written(content[k].login)

\* The temporary file of a call: what will be renamed, or what is left to remove.
TmpInv(k) ==
    /\ tmp[k] = Missing \/ k \in leftover \/ pc[k] \in {"sync", "rename", "remove", "crashed"}
    /\ pc[k] \in {"sync", "rename"} =>
         /\ tmp[k].kind = "session"
         /\ tmp[k].login = LoginOf(k)
         /\ tmp[k].marked = (op[k] # "save")
    /\ pc[k] = "rename" => tmp[k].synced

Placed == {k \in Calls : place[k] > 0}

\* The place of a call's write, and what its answer says of it.
PlaceInv(k) ==
    /\ place[k] <= Cardinality(Placed)
    /\ place[k] > 0 =>
         /\ pc[k] \in {"flush", "done", "crashed"}
         /\ pc[k] = "done" =>
              \/ answer[k] \in {"saved", "SESSION_WRITE_FAILED"}
              \/ answer[k] = "reauthentication_required" /\ op[k] # "save"
    /\ pc[k] = "flush" => place[k] > 0 /\ file.kind = "session" /\ file.place >= place[k]
    /\ answer[k] # None => pc[k] = "done"
    /\ answer[k] = "saved" => place[k] > 0

----
(* Keys *)

\* A process has one request for a key at a time, and who waits has no key yet.
KeyInv(k) ==
    /\ waitsFor[k] # None => key[k] = None
    /\ pc[k] = "create" => key[k] \in Keys
    /\ request[k] # None => pendingKeys[processOf[k]] = k

OneProcess == \A k, l \in Calls : processOf[k] = processOf[l]

\* As long as one process makes all calls, a key is only generated when nothing was
\* ever encrypted.
OneKey ==
    /\ \A k \in Calls : request[k] = "set" => keyring = None
    /\ \A k \in Calls : key[k] \in Keys => key[k] = keyring
    /\ \A f \in OnDisk : f.kind = "session" => f.key = keyring
    /\ \A k \in Calls : tmp[k].kind = "session" => tmp[k].key = keyring

KeysInv == KeysTyped /\ (\A k \in Calls : KeyInv(k)) /\ (OneProcess => OneKey)

VaultInv ==
    /\ Typed
    /\ DiskInv
    /\ AckInv
    /\ acked <= Cardinality(Placed)
    /\ \A k \in Calls : ReadInv(k) /\ TmpInv(k) /\ PlaceInv(k)
    /\ KeysInv

----
(* Lemmas about names, contents and places *)

\* The three parts of a content's kind, and what a session is.
LEMMA ContentKinds ==
    ASSUME NEW f \in Contents
    PROVE  /\ f = Missing \/ f = Garbage \/ f.kind = "session"
           /\ f.kind = "session" => f # Missing /\ f # Garbage
           /\ f.kind = "session" =>
                f \in [kind : {"session"}, key : Keys, login : Logins, marked : BOOLEAN,
                       synced : BOOLEAN, place : 0 .. Cardinality(Calls)]
  BY DEF Contents, Missing, Garbage

\* No call is named like the absence of one.
LEMMA CallNames ==
    /\ \A k \in Calls : k # None /\ k # Earlier /\ k # "unavailable"
    /\ None \notin Keys /\ "unavailable" \notin Keys /\ None # "unavailable"
  BY NamesAssumption DEF None, Earlier, Keys

\* The number of calls is a number.
LEMMA CallsCounted == Cardinality(Calls) \in Nat
  BY CallsAssumption, FS_CardinalityType

\* Every call is made by a process.
LEMMA CallHasProcess ==
    ASSUME CallsTyped, NEW k \in Calls
    PROVE  processOf[k] \in Processes
  BY AssignmentsAssumption DEF CallsTyped

\* A call makes the directory or leaves it as it is.
LEMMA DirectoryStays ==
    ASSUME VaultInv, directory' = directory \/ MakeDirectories
    PROVE  directory' \in Directories
  BY DEF VaultInv, Typed, StorageTyped, MakeDirectories, Directories

\* The typed parts make up VaultTypeOK.
LEMMA TypedInParts == Typed <=> VaultTypeOK
  BY DEF Typed, StorageTyped, KeysTyped, CallsTyped, CountsTyped, VaultTypeOK

----
(* The keys in a step of a call *)

\* A step that asks for no key keeps the keys in order if a new content is encrypted
\* with the key that its call has got.
LEMMA KeysKept ==
    ASSUME Typed, KeysInv, NEW k \in Calls, UNCHANGED keys, UNCHANGED storage,
           processOf' = processOf,
           \A j \in Calls \ {k} : pc'[j] = pc[j] /\ tmp'[j] = tmp[j],
           pc'[k] = "create" => key[k] \in Keys,
           tmp'[k].kind = "session" =>
              \/ tmp[k].kind = "session" /\ tmp'[k].key = tmp[k].key
              \/ key[k] \in Keys /\ tmp'[k].key = key[k]
    PROVE  KeysInv'
  <1>1. keyring' = keyring /\ pendingKeys' = pendingKeys /\ request' = request
        /\ waitsFor' = waitsFor /\ key' = key
    BY DEF keys
  <1>2. file' = file /\ durable' = durable /\ unflushed' = unflushed
    BY DEF storage
  <1>3. KeysTyped'
    BY <1>1 DEF KeysInv, KeysTyped
  <1>4. \A j \in Calls : KeyInv(j)'
    BY <1>1 DEF KeysInv, KeyInv
  <1>5. OneProcess' => OneKey'
    BY <1>1, <1>2 DEF KeysInv, OneProcess, OneKey, OnDisk
  <1> QED BY <1>3, <1>4, <1>5 DEF KeysInv

\* A call that asks for a key joins the request of its process or is the only one to
\* start one.
LEMMA KeyAsked ==
    ASSUME Typed, KeysInv, NEW k \in Calls, AskForKey(k), UNCHANGED storage,
           processOf' = processOf, tmp' = tmp,
           \A j \in Calls \ {k} : pc'[j] = pc[j],
           pc'[k] # "create"
    PROVE  KeysInv'
  <1> DEFINE p == processOf[k]
  <1>0. p \in Processes /\ KeysTyped /\ k # None
    BY CallHasProcess, CallNames DEF Typed, KeysInv
  <1>1. keyring' = keyring /\ key' = [key EXCEPT ![k] = None]
    BY DEF AskForKey
  <1>2. file' = file /\ durable' = durable /\ unflushed' = unflushed
    BY DEF storage
  <1>3. /\ key' \in [Calls -> Keys \cup {None, "unavailable"}] /\ key'[k] = None
        /\ \A j \in Calls \ {k} : key'[j] = key[j]
    BY <1>0, <1>1 DEF KeysTyped
  <1>4. CASE pendingKeys[p] # None /\ waitsFor' = [waitsFor EXCEPT ![k] = pendingKeys[p]]
             /\ UNCHANGED <<request, pendingKeys>>
    <2>1. /\ waitsFor' \in [Calls -> Calls \cup {None}]
          /\ \A j \in Calls \ {k} : waitsFor'[j] = waitsFor[j]
      BY <1>0, <1>4 DEF KeysTyped
    <2>2. KeysTyped'
      BY <1>0, <1>1, <1>3, <1>4, <2>1 DEF KeysTyped
    <2>3. \A j \in Calls : KeyInv(j)'
      BY <1>3, <1>4, <2>1 DEF KeysInv, KeyInv
    <2>4. OneProcess' => OneKey'
      BY <1>1, <1>2, <1>3, <1>4, CallNames DEF KeysInv, OneProcess, OneKey, OnDisk
    <2> QED BY <2>2, <2>3, <2>4 DEF KeysInv
  <1>5. CASE /\ pendingKeys[p] = None
             /\ waitsFor' = [waitsFor EXCEPT ![k] = k]
             /\ request' = [request EXCEPT ![k] = "get"]
             /\ pendingKeys' = [pendingKeys EXCEPT ![p] = k]
    <2>1. /\ waitsFor' \in [Calls -> Calls \cup {None}]
          /\ \A j \in Calls \ {k} : waitsFor'[j] = waitsFor[j]
      BY <1>0, <1>5 DEF KeysTyped
    <2>2. /\ request' \in [Calls -> {None, "get", "set", "verify"}] /\ request'[k] = "get"
          /\ \A j \in Calls \ {k} : request'[j] = request[j]
      BY <1>0, <1>5 DEF KeysTyped
    <2>3. /\ pendingKeys' \in [Processes -> Calls \cup {None}] /\ pendingKeys'[p] = k
          /\ \A q \in Processes \ {p} : pendingKeys'[q] = pendingKeys[q]
      BY <1>0, <1>5 DEF KeysTyped
    <2>4. KeysTyped'
      BY <1>0, <1>1, <1>3, <2>1, <2>2, <2>3 DEF KeysTyped
    <2>5. \A j \in Calls : KeyInv(j)'
      <3> SUFFICES ASSUME NEW j \in Calls PROVE KeyInv(j)'
        OBVIOUS
      <3>1. KeyInv(j) /\ processOf[j] \in Processes /\ j # None
        BY CallHasProcess, CallNames DEF KeysInv, Typed
      <3>2. CASE j = k
        BY <1>3, <2>2, <2>3, <3>2 DEF KeyInv
      <3>3. CASE j # k
        BY <1>3, <1>5, <2>1, <2>2, <2>3, <3>1, <3>3 DEF KeyInv
      <3> QED BY <3>2, <3>3
    <2>6. OneProcess' => OneKey'
      BY <1>1, <1>2, <1>3, <2>2, CallNames DEF KeysInv, OneProcess, OneKey, OnDisk
    <2> QED BY <2>4, <2>5, <2>6 DEF KeysInv
  <1> QED BY <1>4, <1>5 DEF AskForKey

----
(* The steps of a call that leave the stored session alone *)

\* What goes on and what answers.
LEMMA GotoTypes ==
    ASSUME CallsTyped, NEW k \in Calls, NEW step \in Steps, Goto(k, step)
    PROVE  /\ pc' \in [Calls -> Steps] /\ pc'[k] = step /\ answer' = answer
           /\ \A j \in Calls \ {k} : pc'[j] = pc[j]
  BY DEF CallsTyped, Goto

\* A call that answers is done.
LEMMA AnswerTypes ==
    ASSUME CallsTyped, NEW k \in Calls, NEW a \in Answers, Answer(k, a)
    PROVE  /\ pc' \in [Calls -> Steps] /\ pc'[k] = "done"
           /\ answer' \in [Calls -> Answers \cup {None}] /\ answer'[k] = a
           /\ \A j \in Calls \ {k} : pc'[j] = pc[j] /\ answer'[j] = answer[j]
  BY DEF CallsTyped, Answer, Steps

\* Call k alone takes a step, and writes nothing.
Local(k) ==
    /\ UNCHANGED storage /\ directory' \in Directories
    /\ processOf' = processOf /\ crashes' = crashes
    /\ place' = place /\ acked' = acked /\ leftover \subseteq leftover'
    /\ \A j \in Calls \ {k} :
         /\ pc'[j] = pc[j] /\ op'[j] = op[j] /\ content'[j] = content[j]
         /\ tmp'[j] = tmp[j] /\ answer'[j] = answer[j]

\* Such a step keeps the invariant if it keeps what it says of the call itself, and
\* of the keys.
LEMMA LocalStep ==
    ASSUME VaultInv, NEW k \in Calls, Local(k), CallsTyped', leftover' \subseteq Calls,
           ReadInv(k)', TmpInv(k)', PlaceInv(k)', KeysInv'
    PROVE  VaultInv'
  <1>1. /\ file' = file /\ durable' = durable /\ unflushed' = unflushed
        /\ platform' = platform /\ directory' \in Directories
        /\ place' = place /\ acked' = acked /\ crashes' = crashes
    BY DEF Local, storage
  <1>2. Typed'
    BY <1>1 DEF VaultInv, Typed, StorageTyped, CountsTyped, KeysInv
  <1>3. OnDisk' = OnDisk /\ Placed' = Placed
    BY <1>1 DEF OnDisk, Placed
  <1>4. DiskInv' /\ AckInv'
    BY <1>1, <1>3 DEF VaultInv, DiskInv, AckInv, Written
  <1>5. acked' <= Cardinality(Placed')
    BY <1>1, <1>3 DEF VaultInv
  <1>6. ASSUME NEW j \in Calls, j # k
        PROVE  ReadInv(j)' /\ TmpInv(j)' /\ PlaceInv(j)'
    <2>1. /\ pc'[j] = pc[j] /\ op'[j] = op[j] /\ content'[j] = content[j]
          /\ tmp'[j] = tmp[j] /\ answer'[j] = answer[j] /\ leftover \subseteq leftover'
      BY <1>6 DEF Local
    <2>2. ReadInv(j) /\ TmpInv(j) /\ PlaceInv(j)
      BY DEF VaultInv
    <2>3. ReadInv(j)'
      BY <1>1, <2>1, <2>2 DEF ReadInv, Past, HasRead, Written
    <2>4. TmpInv(j)'
      BY <2>1, <2>2 DEF TmpInv, LoginOf
    <2>5. PlaceInv(j)'
      BY <1>1, <1>3, <2>1, <2>2 DEF PlaceInv
    <2> QED BY <2>3, <2>4, <2>5
  <1> QED BY <1>2, <1>4, <1>5, <1>6 DEF VaultInv

\* The claims about a call that is done hold if it has left no temporary file, or none
\* that it could remove, and did not hide a write behind its answer.
LEMMA DoneHolds ==
    ASSUME VaultInv, NEW k \in Calls, Local(k), pc'[k] = "done", content'[k] \in {content[k], Missing},
           tmp'[k] = Missing \/ k \in leftover',
           place[k] = 0, answer'[k] # "saved"
    PROVE  ReadInv(k)' /\ TmpInv(k)' /\ PlaceInv(k)'
  <1>1. ReadInv(k) /\ PlaceInv(k) /\ place' = place /\ file' = file
    BY DEF VaultInv, Local, storage
  <1>2. ReadInv(k)'
    BY <1>1 DEF ReadInv, Past, HasRead, Written, Missing
  <1>3. TmpInv(k)'
    BY DEF TmpInv
  <1>4. Placed' = Placed
    BY <1>1 DEF Placed
  <1>5. PlaceInv(k)'
    BY <1>1, <1>4 DEF PlaceInv
  <1> QED BY <1>2, <1>3, <1>5

\* The call goes on without having written anything yet.
LEMMA GoesOn ==
    ASSUME VaultInv, NEW k \in Calls, Local(k), place[k] = 0, answer'[k] = answer[k],
           pc[k] # "done", pc'[k] \notin {"flush", "done"}
    PROVE  PlaceInv(k)'
  <1>1. PlaceInv(k) /\ place' = place /\ Placed' = Placed
    BY DEF VaultInv, Local, Placed
  <1>2. answer'[k] = None
    BY <1>1 DEF PlaceInv
  <1>3. place'[k] <= Cardinality(Placed') /\ ~(place'[k] > 0)
    BY <1>1 DEF PlaceInv
  <1>4. None # "saved"
    BY DEF None
  <1> QED BY <1>2, <1>3, <1>4 DEF PlaceInv

\* Before its rename a call has written nothing, and has no temporary file before it
\* creates one.
LEMMA NothingYet ==
    ASSUME VaultInv, NEW k \in Calls, pc[k] \notin {"flush", "done", "crashed"}
    PROVE  /\ place[k] = 0
           /\ pc[k] \notin {"sync", "rename", "remove"} => tmp[k] = Missing \/ k \in leftover
  <1>1. PlaceInv(k) /\ TmpInv(k) /\ place[k] \in Nat
    BY CallsCounted DEF VaultInv, Typed, CountsTyped
  <1> QED BY <1>1 DEF PlaceInv, TmpInv

\* A call that begins.
LEMMA BeginHolds ==
    ASSUME VaultInv, NEW k \in Calls, Begin(k)
    PROVE  VaultInv'
  <1>0. CallsTyped /\ Typed /\ KeysInv
    BY DEF VaultInv, Typed
  <1>1. /\ UNCHANGED keys /\ UNCHANGED storage /\ processOf' = processOf
        /\ directory' \in Directories
        /\ content' = content /\ tmp' = tmp /\ crashes' = crashes
        /\ place' = place /\ acked' = acked /\ leftover' = leftover
        /\ pc[k] = "idle"
    BY DirectoryStays DEF Begin, ghosts
  <1>2. PICK o \in {"load", "save", "requireReauthentication"} :
          /\ op' = [op EXCEPT ![k] = o]
          /\ \/ Answer(k, "INVALID_REFERENCE")
             \/ o = "save" /\ Answer(k, "SESSION_WRITE_FAILED")
             \/ Goto(k, IF o = "save" THEN "prepare" ELSE "look")
    BY DEF Begin
  <1>3. /\ op' \in [Calls -> {None, "load", "save", "requireReauthentication"}]
        /\ op'[k] = o /\ \A j \in Calls \ {k} : op'[j] = op[j]
    BY <1>0, <1>2 DEF CallsTyped
  <1>4. place[k] = 0 /\ (tmp[k] = Missing \/ k \in leftover)
    BY <1>1, NothingYet
  <1>5. ASSUME NEW a \in {"INVALID_REFERENCE", "SESSION_WRITE_FAILED"}, Answer(k, a)
        PROVE  VaultInv'
    <2>1. /\ pc' \in [Calls -> Steps] /\ pc'[k] = "done"
          /\ answer' \in [Calls -> Answers \cup {None}] /\ answer'[k] = a
          /\ \A j \in Calls \ {k} : pc'[j] = pc[j] /\ answer'[j] = answer[j]
      BY <1>0, <1>5, AnswerTypes DEF Answers
    <2>2. Local(k)
      BY <1>1, <1>3, <2>1 DEF Local
    <2>3. CallsTyped'
      BY <1>0, <1>1, <1>3, <2>1 DEF CallsTyped
    <2>4. KeysInv'
      BY <1>0, <1>1, <2>1, KeysKept
    <2>5. ReadInv(k)' /\ TmpInv(k)' /\ PlaceInv(k)'
      BY <1>1, <1>4, <2>1, <2>2, DoneHolds
    <2>6. leftover' \subseteq Calls
      BY <1>0, <1>1 DEF Typed, CountsTyped
    <2> QED BY <2>2, <2>3, <2>4, <2>5, <2>6, LocalStep
  <1>6. CASE Goto(k, IF o = "save" THEN "prepare" ELSE "look")
    <2>1. /\ pc' \in [Calls -> Steps] /\ pc'[k] = IF o = "save" THEN "prepare" ELSE "look"
          /\ answer' = answer /\ \A j \in Calls \ {k} : pc'[j] = pc[j]
      BY <1>0, <1>6, GotoTypes DEF Steps
    <2>2. Local(k)
      BY <1>1, <1>3, <2>1 DEF Local
    <2>3. CallsTyped'
      BY <1>0, <1>1, <1>3, <2>1 DEF CallsTyped
    <2>4. KeysInv'
      BY <1>0, <1>1, <2>1, KeysKept
    <2>5. ReadInv(k)'
      BY <1>1, <1>3, <2>1 DEF VaultInv, ReadInv, Past, HasRead, Written
    <2>6. TmpInv(k)'
      BY <1>1, <1>4, <2>1 DEF TmpInv
    <2>7. PlaceInv(k)'
      BY <1>1, <1>4, <2>1, <2>2, GoesOn
    <2>8. leftover' \subseteq Calls
      BY <1>0, <1>1 DEF Typed, CountsTyped
    <2> QED BY <2>2, <2>3, <2>4, <2>5, <2>6, <2>7, <2>8, LocalStep
  <1> QED BY <1>2, <1>5, <1>6

\* What a step of call k leaves alone if it writes nothing and removes nothing.
Quiet(k) ==
    /\ UNCHANGED storage /\ directory' \in Directories
    /\ UNCHANGED call /\ crashes' = crashes /\ UNCHANGED ghosts
    /\ \A j \in Calls \ {k} : content'[j] = content[j] /\ tmp'[j] = tmp[j]
    /\ content' \in [Calls -> Contents] /\ tmp' \in [Calls -> Contents]

\* A call that has created no file answers with an error, or with what it has read.
LEMMA GivesUp ==
    ASSUME VaultInv, NEW k \in Calls, NEW a \in Answers, a # "saved", Answer(k, a), Quiet(k),
           UNCHANGED keys, tmp' = tmp, content'[k] \in {content[k], Missing},
           pc[k] \notin {"flush", "done", "crashed", "sync", "rename", "remove"}
    PROVE  VaultInv'
  <1>0. CallsTyped /\ Typed /\ KeysInv
    BY DEF VaultInv, Typed
  <1>1. /\ UNCHANGED storage /\ processOf' = processOf /\ op' = op /\ crashes' = crashes
        /\ place' = place /\ acked' = acked /\ leftover' = leftover
    BY DEF Quiet, call, ghosts
  <1>2. /\ pc' \in [Calls -> Steps] /\ pc'[k] = "done"
        /\ answer' \in [Calls -> Answers \cup {None}] /\ answer'[k] = a
        /\ \A j \in Calls \ {k} : pc'[j] = pc[j] /\ answer'[j] = answer[j]
    BY <1>0, AnswerTypes
  <1>3. Local(k)
    BY <1>1, <1>2 DEF Local, Quiet
  <1>4. CallsTyped'
    BY <1>0, <1>1, <1>2 DEF CallsTyped, Quiet
  <1>5. KeysInv'
    BY <1>0, <1>1, <1>2, KeysKept
  <1>6. place[k] = 0 /\ (tmp[k] = Missing \/ k \in leftover)
    BY NothingYet
  <1>7. ReadInv(k)' /\ TmpInv(k)' /\ PlaceInv(k)'
    BY <1>1, <1>2, <1>3, <1>6, DoneHolds
  <1>8. leftover' \subseteq Calls
    BY <1>0, <1>1 DEF Typed, CountsTyped
  <1> QED BY <1>3, <1>4, <1>5, <1>7, <1>8, LocalStep

\* A call takes a step without an answer.
LEMMA Continues ==
    ASSUME VaultInv, NEW k \in Calls, NEW step \in Steps \ {"flush", "done"}, Goto(k, step),
           Quiet(k), KeysInv', ReadInv(k)', TmpInv(k)',
           pc[k] \notin {"flush", "done", "crashed"}
    PROVE  VaultInv'
  <1>0. CallsTyped /\ Typed
    BY DEF VaultInv, Typed
  <1>1. /\ UNCHANGED storage /\ processOf' = processOf /\ op' = op /\ crashes' = crashes
        /\ place' = place /\ acked' = acked /\ leftover' = leftover
    BY DEF Quiet, call, ghosts
  <1>2. /\ pc' \in [Calls -> Steps] /\ pc'[k] = step /\ answer' = answer
        /\ \A j \in Calls \ {k} : pc'[j] = pc[j]
    BY <1>0, GotoTypes
  <1>3. Local(k)
    BY <1>1, <1>2 DEF Local, Quiet
  <1>4. CallsTyped'
    BY <1>0, <1>1, <1>2 DEF CallsTyped, Quiet
  <1>5. place[k] = 0
    BY NothingYet
  <1>6. PlaceInv(k)'
    BY <1>2, <1>3, <1>5, GoesOn
  <1>7. leftover' \subseteq Calls
    BY <1>0, <1>1 DEF Typed, CountsTyped
  <1> QED BY <1>3, <1>4, <1>6, <1>7, LocalStep

\* A call goes on to wait for a key.
LEMMA AsksOn ==
    ASSUME VaultInv, NEW k \in Calls, NEW step \in {"key", "read"}, Goto(k, step), AskForKey(k),
           Quiet(k), tmp' = tmp, ReadInv(k)', pc[k] \in {"prepare", "look", "read"}
    PROVE  VaultInv'
  <1>0. CallsTyped /\ Typed /\ KeysInv
    BY DEF VaultInv, Typed
  <1>1. UNCHANGED storage /\ processOf' = processOf /\ leftover' = leftover
    BY DEF Quiet, call, ghosts
  <1>2. step \in Steps \ {"flush", "done"}
    BY DEF Steps
  <1>3. pc'[k] = step /\ \A j \in Calls \ {k} : pc'[j] = pc[j]
    BY <1>0, <1>2, GotoTypes
  <1>4. KeysInv'
    BY <1>0, <1>1, <1>3, KeyAsked
  <1>5. tmp[k] = Missing \/ k \in leftover
    BY NothingYet
  <1>6. TmpInv(k)'
    BY <1>1, <1>3, <1>5 DEF TmpInv
  <1> QED BY <1>2, <1>4, <1>6, Continues

\* A call goes on with the keys as they were.
LEMMA StepsOn ==
    ASSUME VaultInv, NEW k \in Calls, NEW step \in Steps \ {"flush", "done"}, Goto(k, step),
           Quiet(k), UNCHANGED keys, tmp' = tmp, ReadInv(k)',
           step = "create" => key[k] \in Keys,
           step \notin {"sync", "rename"},
           step # "remove" => pc[k] \notin {"sync", "rename", "remove"},
           pc[k] \notin {"flush", "done", "crashed"}
    PROVE  VaultInv'
  <1>0. CallsTyped /\ Typed /\ KeysInv
    BY DEF VaultInv, Typed
  <1>1. UNCHANGED storage /\ processOf' = processOf /\ leftover' = leftover
    BY DEF Quiet, call, ghosts
  <1>3. pc'[k] = step /\ \A j \in Calls \ {k} : pc'[j] = pc[j]
    BY <1>0, GotoTypes
  <1>4. KeysInv'
    BY <1>0, <1>1, <1>3, KeysKept
  <1>5. step # "remove" => tmp[k] = Missing \/ k \in leftover
    BY NothingYet
  <1>6. TmpInv(k)'
    BY <1>1, <1>3, <1>5 DEF TmpInv
  <1> QED BY <1>4, <1>6, Continues

\* Nothing but the steps of the call is touched.
LEMMA QuietStep ==
    ASSUME VaultInv, NEW k \in Calls,
           UNCHANGED <<storage, call, content, tmp, crashes, ghosts>>,
           directory' = directory \/ MakeDirectories
    PROVE  Quiet(k) /\ tmp' = tmp /\ content' = content /\ op' = op /\ file' = file /\ place' = place
  BY DirectoryStays DEF VaultInv, Typed, CallsTyped, Quiet, storage, call, ghosts

\* #prepareSessionDirectory
LEMMA PrepareHolds ==
    ASSUME VaultInv, NEW k \in Calls, Prepare(k)
    PROVE  VaultInv'
  <1>1. /\ Quiet(k) /\ tmp' = tmp /\ content' = content /\ op' = op /\ file' = file
        /\ place' = place /\ pc[k] = "prepare"
    BY QuietStep DEF Prepare
  <1>2. CallsTyped /\ ReadInv(k)
    BY DEF VaultInv, Typed
  <1>3. CASE op[k] = "save" /\ Goto(k, "look") /\ UNCHANGED keys
    <2>1. pc'[k] = "look"
      BY <1>2, <1>3, GotoTypes DEF Steps
    <2>2. ReadInv(k)'
      BY <1>1, <1>2, <2>1 DEF ReadInv, Past, HasRead, Written
    <2> QED BY <1>1, <1>3, <2>2, StepsOn DEF Steps
  <1>4. CASE op[k] # "save" /\ Goto(k, "key") /\ AskForKey(k)
    <2>1. pc'[k] = "key"
      BY <1>2, <1>4, GotoTypes DEF Steps
    <2>2. ReadInv(k)'
      BY <1>1, <1>2, <1>4, <2>1 DEF ReadInv, Past, HasRead, Written
    <2> QED BY <1>1, <1>4, <2>2, AsksOn
  <1>5. CASE Answer(k, "SESSION_WRITE_FAILED") /\ UNCHANGED keys
    BY <1>1, <1>5, GivesUp DEF Answers
  <1> QED BY <1>3, <1>4, <1>5 DEF Prepare

\* #readPayload up to stat
LEMMA LookHolds ==
    ASSUME VaultInv, NEW k \in Calls, Look(k)
    PROVE  VaultInv'
  <1>0. CallsTyped /\ ReadInv(k) /\ pc[k] = "look"
    BY DEF VaultInv, Typed, Look
  <1>1. /\ op' = op /\ file' = file /\ place' = place /\ tmp' = tmp
        /\ content' = [content EXCEPT ![k] = Missing]
    BY DEF Look, storage, call, ghosts
  <1>2. /\ content' \in [Calls -> Contents] /\ content'[k] = Missing
        /\ \A j \in Calls \ {k} : content'[j] = content[j]
    BY <1>0, <1>1 DEF CallsTyped, Contents
  <1>3. Quiet(k)
    BY <1>0, <1>1, <1>2, DirectoryStays DEF Look, Quiet, CallsTyped
  <1>4. Missing # Garbage /\ Missing.kind # "session"
    BY DEF Missing, Garbage
  <1>5. ASSUME NEW a \in {"missing", "SESSION_CORRUPT", "SESSION_READ_FAILED"},
               Answer(k, a), UNCHANGED keys
        PROVE  VaultInv'
    BY <1>0, <1>1, <1>2, <1>3, <1>5, GivesUp DEF Answers
  <1>6. CASE file = Missing /\ op[k] = "save" /\ Goto(k, "key") /\ AskForKey(k)
    <2>1. pc'[k] = "key"
      BY <1>0, <1>6, GotoTypes DEF Steps
    <2>2. ReadInv(k)'
      BY <1>1, <1>2, <1>4, <1>6, <2>1 DEF ReadInv, Past, HasRead, Written
    <2> QED BY <1>0, <1>1, <1>3, <1>6, <2>2, AsksOn
  <1>7. CASE Goto(k, "read") /\ AskForKey(k)
    <2>1. pc'[k] = "read"
      BY <1>0, <1>7, GotoTypes DEF Steps
    <2>2. ReadInv(k)'
      BY <1>1, <1>2, <1>4, <2>1 DEF ReadInv, Past, HasRead, Written
    <2> QED BY <1>0, <1>1, <1>3, <1>7, <2>2, AsksOn
  <1> QED BY <1>5, <1>6, <1>7 DEF Look, FoundNothing

\* readFile
LEMMA ReadFileHolds ==
    ASSUME VaultInv, NEW k \in Calls, ReadFile(k)
    PROVE  VaultInv'
  <1>0. CallsTyped /\ ReadInv(k) /\ pc[k] = "read" /\ file \in Contents /\ DiskInv
    BY DEF VaultInv, Typed, ReadFile, StorageTyped
  <1>1. op' = op /\ file' = file /\ place' = place /\ tmp' = tmp /\ UNCHANGED keys
    BY DEF ReadFile, storage, call, ghosts
  <1>2. CASE content' = [content EXCEPT ![k] = file] /\ UNCHANGED <<pc, answer>>
    <2>1. /\ content' \in [Calls -> Contents] /\ content'[k] = file
          /\ \A j \in Calls \ {k} : content'[j] = content[j]
      BY <1>0, <1>2 DEF CallsTyped
    <2>2. Quiet(k)
      BY <1>0, <1>1, <2>1, DirectoryStays DEF ReadFile, Quiet, CallsTyped
    <2>3. Goto(k, "read") /\ pc'[k] = "read"
      BY <1>0, <1>2 DEF Goto, CallsTyped
    <2>4. file.kind = "session" => Written(file.login)
      BY <1>0 DEF DiskInv, OnDisk
    <2>5. ReadInv(k)'
      BY <1>0, <1>1, <2>1, <2>3, <2>4 DEF ReadInv, Past, Written
    <2> QED BY <1>0, <1>1, <2>2, <2>3, <2>5, StepsOn DEF Steps
  <1>3. CASE Answer(k, "SESSION_READ_FAILED") /\ UNCHANGED content
    <2>1. Quiet(k)
      BY <1>0, <1>1, <1>3, DirectoryStays DEF ReadFile, Quiet, CallsTyped
    <2> QED BY <1>0, <1>1, <1>3, <2>1, GivesUp DEF Answers
  <1> QED BY <1>2, <1>3 DEF ReadFile

\* #decryptEnvelope and what the caller does with the payload
LEMMA DecryptHolds ==
    ASSUME VaultInv, NEW k \in Calls, Decrypt(k)
    PROVE  VaultInv'
  <1>1. /\ Quiet(k) /\ tmp' = tmp /\ content' = content /\ op' = op /\ file' = file
        /\ place' = place /\ pc[k] = "read"
    BY QuietStep DEF Decrypt
  <1>2. CallsTyped /\ ReadInv(k)
    BY DEF VaultInv, Typed
  <1>3. ASSUME NEW a \in {"KEY_UNAVAILABLE", "SESSION_CORRUPT", "reauthentication_required",
                          "valid", "expired"},
               Answer(k, a), UNCHANGED keys
        PROVE  VaultInv'
    BY <1>1, <1>3, GivesUp DEF Answers
  <1>4. CASE content[k] # Missing /\ Decryptable(k) /\ op[k] = "save" /\ Goto(k, "key") /\ AskForKey(k)
    <2>1. pc'[k] = "key"
      BY <1>2, <1>4, GotoTypes DEF Steps
    <2>2. content[k] # Garbage
      BY <1>4 DEF Decryptable, Garbage
    <2>3. ReadInv(k)'
      BY <1>1, <1>2, <1>4, <2>1, <2>2 DEF ReadInv, Past, HasRead, Written
    <2> QED BY <1>1, <1>4, <2>3, AsksOn
  <1>5. CASE /\ content[k] # Missing /\ Decryptable(k) /\ op[k] = "requireReauthentication"
             /\ Goto(k, "prepare") /\ UNCHANGED keys
    <2>1. pc'[k] = "prepare"
      BY <1>2, <1>5, GotoTypes DEF Steps
    <2>2. content[k] # Garbage /\ content[k].kind = "session"
      BY <1>5 DEF Decryptable, Garbage
    <2>3. ReadInv(k)'
      BY <1>1, <1>2, <1>5, <2>1, <2>2 DEF ReadInv, Past, HasRead, Written
    <2> QED BY <1>1, <1>5, <2>3, StepsOn DEF Steps
  <1> QED BY <1>3, <1>4, <1>5 DEF Decrypt, Found

\* The key has come.
LEMMA UseKeyHolds ==
    ASSUME VaultInv, NEW k \in Calls, UseKey(k)
    PROVE  VaultInv'
  <1>1. /\ Quiet(k) /\ tmp' = tmp /\ content' = content /\ op' = op /\ file' = file
        /\ place' = place /\ pc[k] = "key" /\ UNCHANGED keys
    BY QuietStep DEF UseKey
  <1>2. CallsTyped /\ ReadInv(k) /\ KeysTyped
    BY DEF VaultInv, Typed
  <1>3. CASE Answer(k, "KEY_UNAVAILABLE")
    BY <1>1, <1>3, GivesUp DEF Answers
  <1>4. CASE key[k] # "unavailable" /\ Goto(k, "create")
    <2>1. pc'[k] = "create"
      BY <1>2, <1>4, GotoTypes DEF Steps
    <2>2. key[k] \in Keys
      BY <1>2, <1>4 DEF UseKey, KeysTyped
    <2>3. ReadInv(k)'
      BY <1>1, <1>2, <2>1 DEF ReadInv, Past, HasRead, Written
    <2> QED BY <1>1, <1>4, <2>2, <2>3, StepsOn DEF Steps
  <1> QED BY <1>3, <1>4 DEF UseKey

----
(* atomicWrite *)

\* A step of a call that writes its temporary file and goes on.
LEMMA WritesOn ==
    ASSUME VaultInv, NEW k \in Calls, NEW step \in {"sync", "rename", "remove"}, Goto(k, step),
           pc[k] \in {"create", "sync"}, UNCHANGED keys,
           UNCHANGED <<storage, directory, call, content, crashes, ghosts>>,
           NEW f \in Contents, tmp' = [tmp EXCEPT ![k] = f],
           f.kind = "session" =>
              \/ tmp[k].kind = "session" /\ f.key = tmp[k].key
              \/ key[k] \in Keys /\ f.key = key[k],
           step \in {"sync", "rename"} =>
              f.kind = "session" /\ f.login = LoginOf(k) /\ f.marked = (op[k] # "save"),
           step = "rename" => f.synced
    PROVE  VaultInv'
  <1>0. CallsTyped /\ Typed /\ KeysInv /\ ReadInv(k)
    BY DEF VaultInv, Typed
  <1>1. /\ UNCHANGED storage /\ processOf' = processOf /\ op' = op /\ leftover' = leftover
        /\ content' = content /\ file' = file /\ place' = place
    BY DEF storage, call, ghosts
  <1>2. step \in Steps \ {"flush", "done"}
    BY DEF Steps
  <1>3. pc'[k] = step /\ \A j \in Calls \ {k} : pc'[j] = pc[j]
    BY <1>0, <1>2, GotoTypes
  <1>4. /\ tmp' \in [Calls -> Contents] /\ tmp'[k] = f
        /\ \A j \in Calls \ {k} : tmp'[j] = tmp[j]
    BY <1>0 DEF CallsTyped
  <1>5. Quiet(k)
    BY <1>0, <1>1, <1>4, DirectoryStays DEF Quiet, CallsTyped
  <1>6. KeysInv'
    BY <1>0, <1>1, <1>3, <1>4, KeysKept
  <1>7. ReadInv(k)'
    BY <1>0, <1>1, <1>3 DEF ReadInv, Past, HasRead, Written
  <1>8. TmpInv(k)'
    BY <1>1, <1>3, <1>4 DEF TmpInv, LoginOf
  <1> QED BY <1>2, <1>5, <1>6, <1>7, <1>8, Continues

\* open and writeFile
LEMMA CreateHolds ==
    ASSUME VaultInv, NEW k \in Calls, Create(k)
    PROVE  VaultInv'
  <1>0. CallsTyped /\ ReadInv(k) /\ KeysInv /\ KeyInv(k) /\ pc[k] = "create" /\ UNCHANGED keys
    BY DEF VaultInv, Typed, Create, KeysInv
  <1>1. UNCHANGED <<storage, directory, call, content, crashes, ghosts>>
    BY DEF Create
  <1>2. key[k] \in Keys
    BY <1>0 DEF KeyInv
  <1>3. op[k] \in {"save", "requireReauthentication"} /\ LoginOf(k) \in Logins
    <2>1. Past(k)
      BY <1>0 DEF Past
    <2>2. op[k] \in {"save", "requireReauthentication"} /\ (op[k] # "save" => content[k].kind = "session")
      BY <1>0, <2>1 DEF ReadInv
    <2>3. content[k].kind = "session" => content[k].login \in Logins
      BY <1>0, ContentKinds DEF CallsTyped
    <2> QED BY <2>2, <2>3 DEF LoginOf, Logins
  <1> DEFINE f == [kind |-> "session", key |-> key[k], login |-> LoginOf(k),
                   marked |-> op[k] # "save", synced |-> FALSE, place |-> 0]
  <1>4. f \in Contents
    BY <1>2, <1>3, CallsCounted DEF Contents
  <1>5. CASE tmp' = [tmp EXCEPT ![k] = f] /\ Goto(k, "sync")
    <2>1. f.kind = "session" /\ f.key = key[k] /\ f.login = LoginOf(k) /\ f.marked = (op[k] # "save")
      OBVIOUS
    <2> HIDE DEF f
    <2> QED BY <1>0, <1>1, <1>2, <1>4, <1>5, <2>1, WritesOn
  <1>6. CASE tmp' = [tmp EXCEPT ![k] = Garbage] /\ Goto(k, "remove")
    <2>1. Garbage \in Contents /\ Garbage.kind # "session"
      BY DEF Contents, Garbage
    <2> QED BY <1>0, <1>1, <1>6, <2>1, WritesOn
  <1>7. CASE Answer(k, "SESSION_WRITE_FAILED") /\ UNCHANGED tmp
    <2>1. Quiet(k) /\ content' = content /\ tmp' = tmp
      BY <1>1, <1>7, QuietStep
    <2> QED BY <1>0, <1>7, <2>1, GivesUp DEF Answers
  <1> QED BY <1>5, <1>6, <1>7 DEF Create

\* handle.sync and handle.close
LEMMA SyncHolds ==
    ASSUME VaultInv, NEW k \in Calls, Sync(k)
    PROVE  VaultInv'
  <1>0. CallsTyped /\ ReadInv(k) /\ TmpInv(k) /\ pc[k] = "sync" /\ UNCHANGED keys
    BY DEF VaultInv, Typed, Sync
  <1>1. UNCHANGED <<storage, directory, call, content, crashes, ghosts>>
    BY DEF Sync
  <1>2. /\ tmp[k].kind = "session" /\ tmp[k].login = LoginOf(k) /\ tmp[k].marked = (op[k] # "save")
        /\ tmp[k] \in [kind : {"session"}, key : Keys, login : Logins, marked : BOOLEAN,
                       synced : BOOLEAN, place : 0 .. Cardinality(Calls)]
    BY <1>0, ContentKinds DEF TmpInv, CallsTyped
  <1>3. CASE tmp' = [tmp EXCEPT ![k].synced = TRUE] /\ Goto(k, "rename")
    <2> DEFINE f == [tmp[k] EXCEPT !.synced = TRUE]
    <2>1. /\ f \in Contents /\ f.kind = "session" /\ f.key = tmp[k].key /\ f.login = LoginOf(k)
          /\ f.marked = (op[k] # "save") /\ f.synced
      BY <1>2 DEF Contents
    <2>3. tmp[k].kind = "session"
      BY <1>2
    <2>2. tmp' = [tmp EXCEPT ![k] = f]
      BY <1>3
    <2> HIDE DEF f
    <2> QED BY <1>0, <1>1, <1>3, <2>1, <2>2, <2>3, WritesOn
  <1>4. CASE Goto(k, "remove") /\ UNCHANGED tmp
    <2>1. tmp' = [tmp EXCEPT ![k] = tmp[k]] /\ tmp[k] \in Contents
      BY <1>0, <1>4 DEF CallsTyped
    <2> QED BY <1>0, <1>1, <1>2, <1>4, <2>1, WritesOn
  <1> QED BY <1>3, <1>4 DEF Sync

\* rm, whose failure is ignored
LEMMA RemoveHolds ==
    ASSUME VaultInv, NEW k \in Calls, Remove(k)
    PROVE  VaultInv'
  <1>0. CallsTyped /\ Typed /\ KeysInv /\ pc[k] = "remove" /\ Answer(k, "SESSION_WRITE_FAILED")
    BY DEF VaultInv, Typed, Remove
  <1>1. /\ UNCHANGED keys /\ UNCHANGED storage /\ processOf' = processOf /\ op' = op
        /\ directory' \in Directories
        /\ content' = content /\ crashes' = crashes /\ place' = place /\ acked' = acked
    BY DirectoryStays DEF Remove, call
  <1>2. /\ pc' \in [Calls -> Steps] /\ pc'[k] = "done"
        /\ answer' \in [Calls -> Answers \cup {None}] /\ answer'[k] = "SESSION_WRITE_FAILED"
        /\ \A j \in Calls \ {k} : pc'[j] = pc[j] /\ answer'[j] = answer[j]
    BY <1>0, AnswerTypes DEF Answers
  <1>3. \/ tmp' = [tmp EXCEPT ![k] = Missing] /\ leftover' = leftover
        \/ tmp' = tmp /\ leftover' = leftover \cup {k}
    BY DEF Remove
  <1>4. /\ tmp' \in [Calls -> Contents] /\ \A j \in Calls \ {k} : tmp'[j] = tmp[j]
        /\ tmp'[k] = Missing \/ k \in leftover'
        /\ tmp'[k] = Missing \/ tmp'[k] = tmp[k]
    BY <1>0, <1>3 DEF CallsTyped, Contents
  <1>5. leftover \subseteq leftover' /\ leftover' \subseteq Calls
    BY <1>0, <1>3 DEF Typed, CountsTyped
  <1>6. Local(k)
    BY <1>1, <1>2, <1>4, <1>5 DEF Local
  <1>7. CallsTyped'
    BY <1>0, <1>1, <1>2, <1>4 DEF CallsTyped
  <1>8. KeysInv'
    <2>1. Missing.kind # "session"
      BY DEF Missing
    <2> QED BY <1>0, <1>1, <1>2, <1>4, <2>1, KeysKept
  <1>9. place[k] = 0
    BY <1>0, NothingYet
  <1>10. ReadInv(k)' /\ TmpInv(k)' /\ PlaceInv(k)'
    BY <1>1, <1>2, <1>4, <1>6, <1>9, DoneHolds
  <1> QED BY <1>5, <1>6, <1>7, <1>8, <1>10, LocalStep

\* The rename makes one more write, whose place is the next.
LEMMA NextPlaced ==
    ASSUME Typed, NEW k \in Calls, place[k] = 0, place' = [place EXCEPT ![k] = NextPlace]
    PROVE  /\ NextPlace = Cardinality(Placed) + 1 /\ Cardinality(Placed) \in Nat
           /\ NextPlace \in 1 .. Cardinality(Calls)
           /\ Placed' = Placed \cup {k}
           /\ Cardinality(Placed') = NextPlace
           /\ place' \in [Calls -> 0 .. Cardinality(Calls)]
           /\ place'[k] = NextPlace
           /\ \A j \in Calls \ {k} : place'[j] = place[j]
  <1>1. place \in [Calls -> 0 .. Cardinality(Calls)] /\ Cardinality(Calls) \in Nat
    BY CallsCounted DEF Typed, CountsTyped
  <1>2. NextPlace = Cardinality(Placed) + 1
    BY DEF NextPlace, Placed
  <1>3. Placed \subseteq Calls /\ k \notin Placed
    BY DEF Placed
  <1>4. IsFiniteSet(Placed) /\ Cardinality(Placed) \in Nat
    BY <1>3, CallsAssumption, FS_Subset, FS_CardinalityType
  <1>5. Cardinality(Placed \cup {k}) = Cardinality(Placed) + 1
    BY <1>3, <1>4, FS_AddElement
  <1>6. Placed \cup {k} \subseteq Calls
    BY <1>3
  <1>7. Cardinality(Placed \cup {k}) <= Cardinality(Calls)
    BY <1>6, CallsAssumption, FS_Subset
  <1>8. NextPlace \in 1 .. Cardinality(Calls)
    BY <1>1, <1>2, <1>4, <1>5, <1>7
  <1>9. /\ place' \in [Calls -> 0 .. Cardinality(Calls)] /\ place'[k] = NextPlace
        /\ \A j \in Calls \ {k} : place'[j] = place[j]
    BY <1>1, <1>8
  <1>10. Placed' = Placed \cup {k}
    BY <1>1, <1>8, <1>9 DEF Placed
  <1> QED BY <1>2, <1>4, <1>5, <1>8, <1>9, <1>10

\* What the rename puts in place: flushed, of the call's login, marked as the call wants.
LEMMA Renamed ==
    ASSUME VaultInv, NEW k \in Calls, pc[k] = "rename", MoveIntoPlace(k)
    PROVE  /\ file' \in Contents /\ file'.kind = "session" /\ file'.synced
           /\ file'.place = NextPlace /\ file'.key = tmp[k].key
           /\ file'.login = LoginOf(k) /\ (file'.marked <=> op[k] # "save")
           /\ tmp[k].kind = "session" /\ place[k] = 0
  <1>0. place[k] = 0 /\ TmpInv(k) /\ tmp[k] \in Contents /\ Typed
    BY NothingYet DEF VaultInv, Typed, CallsTyped
  <1>1. place' = [place EXCEPT ![k] = NextPlace]
    BY DEF MoveIntoPlace
  <1>2. NextPlace \in 1 .. Cardinality(Calls)
    BY <1>0, <1>1, NextPlaced
  <1>3. /\ tmp[k].kind = "session" /\ tmp[k].login = LoginOf(k)
        /\ tmp[k].marked = (op[k] # "save") /\ tmp[k].synced
    BY <1>0 DEF TmpInv
  <1>4. tmp[k] \in [kind : {"session"}, key : Keys, login : Logins, marked : BOOLEAN,
                    synced : BOOLEAN, place : 0 .. Cardinality(Calls)]
    BY <1>0, <1>3, ContentKinds
  <1>5. file' = [tmp[k] EXCEPT !.place = NextPlace]
    BY DEF MoveIntoPlace
  <1>6. file' \in [kind : {"session"}, key : Keys, login : Logins, marked : BOOLEAN,
                   synced : BOOLEAN, place : 0 .. Cardinality(Calls)]
    BY <1>2, <1>4, <1>5, CallsCounted
  <1>7. file' \in Contents
    BY <1>6 DEF Contents
  <1> QED BY <1>0, <1>3, <1>4, <1>5, <1>6, <1>7

\* secureFile(temporaryPath) and rename
LEMMA RenameHolds ==
    ASSUME VaultInv, NEW k \in Calls, Rename(k)
    PROVE  VaultInv'
  <1>0. CallsTyped /\ Typed /\ KeysInv /\ DiskInv /\ AckInv /\ ReadInv(k) /\ pc[k] = "rename"
    BY DEF VaultInv, Typed, Rename
  <1>1. /\ durable' = durable /\ UNCHANGED keys /\ processOf' = processOf /\ op' = op
        /\ platform' = platform /\ directory' = directory /\ content' = content /\ crashes' = crashes /\ acked' = acked /\ leftover' = leftover
    BY DEF Rename, call
  <1>2. CASE Goto(k, "remove") /\ UNCHANGED <<file, unflushed, place, tmp>>
    <2>1. Quiet(k) /\ content' = content /\ tmp' = tmp /\ file' = file /\ place' = place
      BY <1>1, <1>2, QuietStep DEF storage, call, ghosts
    <2>2. pc'[k] = "remove"
      BY <1>0, <1>2, GotoTypes DEF Steps
    <2>3. ReadInv(k)'
      BY <1>0, <1>1, <2>1, <2>2 DEF ReadInv, Past, HasRead, Written
    <2> QED BY <1>0, <1>1, <1>2, <2>1, <2>3, StepsOn DEF Steps
  <1>3. CASE MoveIntoPlace(k)
    <2>1. /\ file' \in Contents /\ file'.kind = "session" /\ file'.synced
          /\ file'.place = NextPlace /\ file'.key = tmp[k].key
          /\ file'.login = LoginOf(k) /\ (file'.marked <=> op[k] # "save")
          /\ tmp[k].kind = "session" /\ place[k] = 0
      BY <1>0, <1>3, Renamed
    <2>2. /\ unflushed' = unflushed \cup {file'} /\ tmp' = [tmp EXCEPT ![k] = Missing]
          /\ place' = [place EXCEPT ![k] = NextPlace] /\ Goto(k, "flush")
      BY <1>3 DEF MoveIntoPlace
    <2>3. /\ NextPlace = Cardinality(Placed) + 1 /\ Cardinality(Placed) \in Nat
          /\ NextPlace \in 1 .. Cardinality(Calls)
          /\ Placed' = Placed \cup {k}
          /\ Cardinality(Placed') = NextPlace
          /\ place' \in [Calls -> 0 .. Cardinality(Calls)]
          /\ place'[k] = NextPlace
          /\ \A j \in Calls \ {k} : place'[j] = place[j]
      BY <1>0, <2>1, <2>2, NextPlaced
    <2>4. /\ pc' \in [Calls -> Steps] /\ pc'[k] = "flush" /\ answer' = answer
          /\ \A j \in Calls \ {k} : pc'[j] = pc[j]
      BY <1>0, <2>2, GotoTypes DEF Steps
    <2>5. /\ tmp' \in [Calls -> Contents] /\ tmp'[k] = Missing
          /\ \A j \in Calls \ {k} : tmp'[j] = tmp[j]
      BY <1>0, <2>2 DEF CallsTyped, Contents
    <2>6. acked \in Nat /\ place \in [Calls -> Nat] /\ Cardinality(Placed) \in Nat
          /\ acked <= Cardinality(Placed)
      BY <1>0, <2>3, CallsCounted DEF VaultInv, Typed, CountsTyped
    <2>7. \A user : Written(user) => Written(user)'
      <3> SUFFICES ASSUME NEW user, Written(user) PROVE Written(user)'
        OBVIOUS
      <3>1. CASE user = k
        BY <2>3, <3>1 DEF Written
      <3>2. CASE user = Earlier
        BY <3>2 DEF Written
      <3>3. CASE user # k /\ user # Earlier
        <4>1. CASE user \in Calls
          BY <2>3, <3>3, <4>1 DEF Written
        <4>2. CASE user \notin Calls
          <5>1. place'[user] = place[user]
            BY <2>2, <3>3
          <5> QED BY <3>3, <5>1 DEF Written
        <4> QED BY <4>1, <4>2
      <3> QED BY <3>1, <3>2, <3>3
    <2>8. KeysInv'
      <3>1. keyring' = keyring /\ pendingKeys' = pendingKeys /\ request' = request
            /\ waitsFor' = waitsFor /\ key' = key
        BY <1>1 DEF keys
      <3>2. KeysTyped'
        BY <1>0, <3>1 DEF KeysInv, KeysTyped
      <3>3. \A j \in Calls : KeyInv(j)'
        BY <1>0, <1>1, <3>1, <2>4 DEF KeysInv, KeyInv
      <3>4. Missing.kind # "session"
        BY DEF Missing
      <3>5. OneProcess' => OneKey'
        BY <1>0, <1>1, <2>1, <2>2, <2>5, <3>1, <3>4 DEF KeysInv, OneProcess, OneKey, OnDisk
      <3> QED BY <3>2, <3>3, <3>5 DEF KeysInv
    <2>9. Typed'
      <3>1. StorageTyped'
        BY <1>0, <1>1, <2>1, <2>2 DEF Typed, StorageTyped
      <3>2. CallsTyped'
        BY <1>0, <1>1, <2>4, <2>5 DEF CallsTyped
      <3>3. CountsTyped'
        BY <1>0, <1>1, <2>3 DEF Typed, CountsTyped
      <3> QED BY <2>8, <3>1, <3>2, <3>3 DEF Typed, KeysInv
    <2>10. OnDisk' \subseteq OnDisk \cup {file'}
      BY <1>1, <2>2 DEF OnDisk
    <2>11. /\ file'.login = Earlier \/ place'[file'.login] > 0
           /\ file'.login # Earlier \/ file'.marked
      <3>1. CASE op[k] = "save"
        <4>1. file'.login = k /\ place'[k] > 0
          BY <2>1, <2>3, <3>1, CallsCounted DEF LoginOf
        <4> QED BY <4>1, CallNames
      <3>2. CASE op[k] # "save"
        <4>1. file'.login = content[k].login /\ file'.marked
          BY <2>1, <3>2 DEF LoginOf
        <4>2. Written(content[k].login)
          BY <1>0, <3>2 DEF ReadInv, Past
        <4>3. place'[content[k].login] > 0 \/ content[k].login = Earlier
          BY <2>7, <4>2 DEF Written
        <4> QED BY <4>1, <4>3
      <3> QED BY <3>1, <3>2
    <2>12. DiskInv'
      <3> SUFFICES ASSUME NEW f \in OnDisk', f.kind = "session"
                   PROVE  /\ f.synced
                          /\ f.login = Earlier \/ place'[f.login] > 0
                          /\ f.place > 0 => f.login # Earlier \/ f.marked
        BY DEF DiskInv, Written
      <3>1. CASE f = file'
        BY <2>1, <2>11, <3>1
      <3>2. CASE f \in OnDisk
        <4>1. f.synced /\ Written(f.login) /\ (f.place > 0 => f.login # Earlier \/ f.marked)
          BY <1>0, <3>2 DEF DiskInv
        <4>2. f.login = Earlier \/ place'[f.login] > 0
          BY <2>7, <4>1 DEF Written
        <4> QED BY <4>1, <4>2
      <3> QED BY <2>10, <3>1, <3>2
    <2>13. AckInv'
      BY <1>0, <1>1, <2>1, <2>3, <2>6, <2>10 DEF AckInv
    <2>14. acked' <= Cardinality(Placed')
      BY <1>1, <2>3, <2>6
    <2>15. ASSUME NEW j \in Calls
           PROVE  ReadInv(j)' /\ TmpInv(j)' /\ PlaceInv(j)'
      <3>1. ReadInv(j) /\ TmpInv(j) /\ PlaceInv(j)
        BY DEF VaultInv
      <3>2. file' # Garbage
        BY <2>1, ContentKinds
      <3>3. content[j].kind = "session" =>
              content[j].login = Earlier \/ place'[content[j].login] > 0
        BY <2>7, <3>1 DEF ReadInv, Written
      <3>4. ReadInv(j)'
        BY <1>0, <1>1, <2>4, <3>1, <3>2, <3>3 DEF ReadInv, Past, Written
      <3>5. TmpInv(j)'
        BY <1>1, <2>4, <2>5, <3>1 DEF TmpInv, LoginOf
      <3>6. CASE j = k
        <4>1. answer[k] = None
          BY <1>0, <3>1, <3>6 DEF PlaceInv
        <4>2. None # "saved"
          BY DEF None
        <4>3. PlaceInv(j)'
          BY <2>1, <2>3, <2>4, <3>6, <4>1, <4>2 DEF PlaceInv
        <4> QED BY <3>4, <3>5, <4>3
      <3>7. CASE j # k
        <4>1. PlaceInv(j)'
          BY <1>1, <2>1, <2>3, <2>4, <2>6, <3>1, <3>7 DEF PlaceInv
        <4> QED BY <3>4, <3>5, <4>1
      <3> QED BY <3>6, <3>7
    <2> QED BY <2>8, <2>9, <2>12, <2>13, <2>14, <2>15 DEF VaultInv
  <1> QED BY <1>2, <1>3 DEF Rename

\* secureFile(path) and the flush of the directory
LEMMA FlushHolds ==
    ASSUME VaultInv, NEW k \in Calls, Flush(k)
    PROVE  VaultInv'
  <1>0. /\ CallsTyped /\ Typed /\ KeysInv /\ DiskInv /\ AckInv /\ ReadInv(k) /\ PlaceInv(k)
        /\ TmpInv(k) /\ pc[k] = "flush" /\ acked <= Cardinality(Placed)
    BY DEF VaultInv, Typed, Flush
  <1>1. /\ file' = file /\ UNCHANGED keys /\ processOf' = processOf /\ op' = op
        /\ platform' = platform /\ directory' = directory
        /\ content' = content /\ tmp' = tmp /\ crashes' = crashes /\ place' = place
        /\ leftover' = leftover
    BY DEF Flush, call
  <1>2. place[k] > 0 /\ file.kind = "session" /\ file.place >= place[k]
    BY <1>0 DEF PlaceInv
  <1>3. PICK a \in Answers :
          /\ Answer(k, a)
          /\ \/ a \in {"saved", "SESSION_WRITE_FAILED"}
             \/ a = "reauthentication_required" /\ op[k] # "save"
          /\ \/ a # "saved" /\ durable' = durable /\ unflushed' = unflushed /\ acked' = acked
             \/ /\ acked' = IF place[k] > acked THEN place[k] ELSE acked
                /\ \/ durable' = file /\ unflushed' = {}
                   \/ platform = "win32" /\ durable' = durable /\ unflushed' = unflushed
    BY DEF Flush, Acknowledge, Answers
  <1>4. /\ pc' \in [Calls -> Steps] /\ pc'[k] = "done"
        /\ answer' \in [Calls -> Answers \cup {None}] /\ answer'[k] = a
        /\ \A j \in Calls \ {k} : pc'[j] = pc[j] /\ answer'[j] = answer[j]
    BY <1>0, <1>3, AnswerTypes
  <1>5. /\ acked \in 0 .. Cardinality(Calls) /\ place \in [Calls -> 0 .. Cardinality(Calls)]
        /\ Cardinality(Calls) \in Nat
    BY <1>0, CallsCounted DEF Typed, CountsTyped
  <1>6. /\ acked' \in 0 .. Cardinality(Calls) /\ acked <= acked' /\ Placed' = Placed
        /\ acked' <= Cardinality(Placed)
    <2>1. place[k] <= Cardinality(Placed) /\ Placed' = Placed
      BY <1>0, <1>1 DEF PlaceInv, Placed
    <2> QED BY <1>0, <1>2, <1>3, <1>5, <2>1
  <1>7. OnDisk' \subseteq OnDisk /\ file \in OnDisk
    BY <1>1, <1>3 DEF OnDisk
  <1>8. KeysInv'
    <2>1. keyring' = keyring /\ pendingKeys' = pendingKeys /\ request' = request
          /\ waitsFor' = waitsFor /\ key' = key
      BY <1>1 DEF keys
    <2>2. KeysTyped'
      BY <1>0, <2>1 DEF KeysInv, KeysTyped
    <2>3. \A j \in Calls : KeyInv(j)'
      BY <1>0, <1>1, <1>4, <2>1 DEF KeysInv, KeyInv
    <2>4. OneProcess' => OneKey'
      BY <1>0, <1>1, <1>7, <2>1 DEF KeysInv, OneProcess, OneKey
    <2> QED BY <2>2, <2>3, <2>4 DEF KeysInv
  <1>9. Typed'
    <2>1. StorageTyped'
      BY <1>0, <1>1, <1>3 DEF Typed, StorageTyped
    <2>2. CallsTyped'
      BY <1>0, <1>1, <1>4 DEF CallsTyped
    <2>3. CountsTyped'
      BY <1>0, <1>1, <1>6 DEF Typed, CountsTyped
    <2> QED BY <1>8, <2>1, <2>2, <2>3 DEF Typed, KeysInv
  <1>10. DiskInv'
    BY <1>0, <1>1, <1>7 DEF DiskInv, Written
  <1>11. AckInv'
    <2>1. CASE durable' = durable /\ unflushed' = unflushed /\ acked' = acked
      BY <1>0, <1>1, <2>1 DEF AckInv, OnDisk
    <2>2. CASE /\ acked' = IF place[k] > acked THEN place[k] ELSE acked
               /\ (durable' = file /\ unflushed' = {}) \/ platform = "win32"
      <3>1. platform # "win32" => OnDisk' = {file}
        BY <1>1, <2>2 DEF OnDisk
      <3>2. file.place >= acked'
        BY <1>0, <1>2, <1>5, <2>2 DEF AckInv
      <3> QED BY <1>1, <1>2, <3>1, <3>2 DEF AckInv
    <2> QED BY <1>3, <2>1, <2>2
  <1>12. ASSUME NEW j \in Calls
         PROVE  ReadInv(j)' /\ TmpInv(j)' /\ PlaceInv(j)'
    <2>1. ReadInv(j) /\ TmpInv(j) /\ PlaceInv(j)
      BY DEF VaultInv
    <2>2. ReadInv(j)'
      BY <1>1, <1>4, <2>1 DEF ReadInv, Past, HasRead, Written
    <2>3. TmpInv(j)'
      BY <1>0, <1>1, <1>4, <2>1 DEF TmpInv, LoginOf
    <2>4. CASE j = k
      <3>1. PlaceInv(j)'
        BY <1>0, <1>1, <1>2, <1>3, <1>4, <1>6, <2>4 DEF PlaceInv
      <3> QED BY <2>2, <2>3, <3>1
    <2>5. CASE j # k
      <3>1. PlaceInv(j)'
        BY <1>1, <1>4, <1>5, <1>6, <2>1, <2>5 DEF PlaceInv
      <3> QED BY <2>2, <2>3, <3>1
    <2> QED BY <2>4, <2>5
  <1> QED BY <1>6, <1>8, <1>9, <1>10, <1>11, <1>12 DEF VaultInv

----
(* The key requests *)

\* A request settles: only the calls that waited for it get a key, and no second
\* request of the process is under way.
LEMMA SettleHolds ==
    ASSUME Typed, KeysInv, NEW k \in Calls, request[k] # None,
           NEW r \in Keys \cup {None, "unavailable"}, Settle(k, r),
           r \in Keys => r = keyring', keyring' \in {k, keyring},
           keyring' # keyring => request[k] = "set",
           UNCHANGED storage, processOf' = processOf, pc' = pc, tmp' = tmp
    PROVE  KeysInv'
  <1>0. KeysTyped /\ k # None /\ KeyInv(k) /\ processOf[k] \in Processes
    BY CallHasProcess, CallNames DEF Typed, KeysInv
  <1>1. file' = file /\ durable' = durable /\ unflushed' = unflushed
    BY DEF storage
  <1>2. /\ request' \in [Calls -> {None, "get", "set", "verify"}] /\ request'[k] = None
        /\ \A j \in Calls \ {k} : request'[j] = request[j]
    BY <1>0 DEF Settle, KeysTyped
  <1>3. /\ pendingKeys' \in [Processes -> Calls \cup {None}]
        /\ \A q \in Processes \ {processOf[k]} : pendingKeys'[q] = pendingKeys[q]
    BY <1>0 DEF Settle, KeysTyped
  <1>4. /\ key' \in [Calls -> Keys \cup {None, "unavailable"}]
        /\ \A j \in Calls : key'[j] = IF waitsFor[j] = k THEN r ELSE key[j]
    BY <1>0 DEF Settle, KeysTyped
  <1>5. /\ waitsFor' \in [Calls -> Calls \cup {None}]
        /\ \A j \in Calls : waitsFor'[j] = IF waitsFor[j] = k THEN None ELSE waitsFor[j]
    BY <1>0 DEF Settle, KeysTyped
  <1>6. keyring' \in Keys \cup {None}
    BY <1>0 DEF KeysTyped, Keys
  <1>7. KeysTyped'
    BY <1>2, <1>3, <1>4, <1>5, <1>6 DEF KeysTyped
  <1>8. ASSUME NEW j \in Calls
        PROVE  KeyInv(j)'
    <2>0. KeyInv(j) /\ processOf[j] \in Processes
      BY CallHasProcess DEF KeysInv, Typed
    <2>1. waitsFor'[j] # None => key'[j] = None
      BY <1>4, <1>5, <2>0 DEF KeyInv
    <2>2. pc'[j] = "create" => key'[j] \in Keys
      BY <1>0, <1>4, <2>0, CallNames DEF KeyInv
    <2>3. request'[j] # None => pendingKeys'[processOf'[j]] = j
      <3>1. CASE j = k
        BY <1>2, <3>1
      <3>2. CASE j # k
        BY <1>0, <1>2, <1>3, <2>0, <3>2 DEF KeyInv
      <3> QED BY <3>1, <3>2
    <2> QED BY <2>1, <2>2, <2>3 DEF KeyInv
  <1>9. ASSUME OneProcess
        PROVE  OneKey'
    <2>0. OneKey
      BY <1>9 DEF KeysInv
    <2>1. \A j \in Calls : request'[j] # "set"
      <3> SUFFICES ASSUME NEW j \in Calls PROVE request'[j] # "set"
        OBVIOUS
      <3>1. CASE j = k
        BY <1>2, <3>1 DEF None
      <3>2. CASE j # k
        <4>1. request[j] = "set" => pendingKeys[processOf[j]] = j
          BY DEF KeysInv, KeyInv, None
        <4>2. pendingKeys[processOf[k]] = k /\ processOf[j] = processOf[k]
          BY <1>0, <1>9 DEF KeyInv, OneProcess
        <4> QED BY <1>2, <3>2, <4>1, <4>2
      <3> QED BY <3>1, <3>2
    <2>2. keyring' = keyring \/ keyring = None
      BY <2>0 DEF OneKey
    <2>3. \A j \in Calls : key'[j] \in Keys => key'[j] = keyring'
      BY <1>4, <2>0, <2>2, CallNames DEF OneKey
    <2>4. \A f \in Contents : f.kind = "session" => f.key \in Keys
      BY ContentKinds
    <2>5. \A f \in OnDisk : f.kind = "session" => f.key = keyring'
      <3>1. OnDisk \subseteq Contents
        BY DEF Typed, StorageTyped, OnDisk
      <3> QED BY <2>0, <2>2, <2>4, <3>1, CallNames DEF OneKey
    <2>6. \A j \in Calls : tmp[j].kind = "session" => tmp[j].key = keyring'
      <3>1. \A j \in Calls : tmp[j] \in Contents
        BY DEF Typed, CallsTyped
      <3> QED BY <2>0, <2>2, <2>4, <3>1, CallNames DEF OneKey
    <2>7. OnDisk' = OnDisk
      BY <1>1 DEF OnDisk
    <2> QED BY <2>1, <2>3, <2>5, <2>6, <2>7 DEF OneKey
  <1> QED BY <1>7, <1>8, <1>9 DEF KeysInv, OneProcess

\* A request goes on.
LEMMA RequestHolds ==
    ASSUME Typed, KeysInv, NEW k \in Calls, request[k] # None,
           NEW step \in {"set", "verify"}, Request(k, step),
           step = "set" => keyring = None /\ keyring' = keyring,
           step = "verify" => keyring' = k /\ request[k] = "set",
           UNCHANGED storage, processOf' = processOf, pc' = pc, tmp' = tmp
    PROVE  KeysInv'
  <1>0. KeysTyped /\ k # None /\ KeyInv(k) /\ processOf[k] \in Processes
    BY CallHasProcess, CallNames DEF Typed, KeysInv
  <1>1. file' = file /\ durable' = durable /\ unflushed' = unflushed
    BY DEF storage
  <1>2. /\ request' \in [Calls -> {None, "get", "set", "verify"}] /\ request'[k] = step
        /\ \A j \in Calls \ {k} : request'[j] = request[j]
    BY <1>0 DEF Request, KeysTyped
  <1>3. pendingKeys' = pendingKeys /\ key' = key /\ waitsFor' = waitsFor
    BY DEF Request
  <1>4. keyring' \in Keys \cup {None}
    BY <1>0 DEF KeysTyped, Keys
  <1>5. KeysTyped'
    BY <1>0, <1>2, <1>3, <1>4 DEF KeysTyped
  <1>6. \A j \in Calls : KeyInv(j)'
    BY <1>0, <1>2, <1>3 DEF KeysInv, KeyInv
  <1>7. ASSUME OneProcess
        PROVE  OneKey'
    <2>0. OneKey
      BY <1>7 DEF KeysInv
    <2>1. step = "verify" => \A j \in Calls : request'[j] # "set"
      <3> SUFFICES ASSUME step = "verify", NEW j \in Calls PROVE request'[j] # "set"
        OBVIOUS
      <3>1. CASE j = k
        BY <1>2, <3>1
      <3>2. CASE j # k
        <4>1. request[j] = "set" => pendingKeys[processOf[j]] = j
          BY DEF KeysInv, KeyInv, None
        <4>2. pendingKeys[processOf[k]] = k /\ processOf[j] = processOf[k]
          BY <1>0, <1>7 DEF KeyInv, OneProcess
        <4> QED BY <1>2, <3>2, <4>1, <4>2
      <3> QED BY <3>1, <3>2
    <2>2. keyring = None
      BY <2>0 DEF OneKey
    <2>3. \A j \in Calls : key[j] \notin Keys
      BY <2>0, <2>2, CallNames DEF OneKey
    <2>4. \A f \in Contents : f.kind = "session" => f.key \in Keys
      BY ContentKinds
    <2>5. \A f \in OnDisk : f.kind # "session"
      <3>1. OnDisk \subseteq Contents
        BY DEF Typed, StorageTyped, OnDisk
      <3> QED BY <2>0, <2>2, <2>4, <3>1, CallNames DEF OneKey
    <2>6. \A j \in Calls : tmp[j].kind # "session"
      <3>1. \A j \in Calls : tmp[j] \in Contents
        BY DEF Typed, CallsTyped
      <3> QED BY <2>0, <2>2, <2>4, <3>1, CallNames DEF OneKey
    <2>7. OnDisk' = OnDisk
      BY <1>1 DEF OnDisk
    <2> QED BY <1>3, <2>1, <2>2, <2>3, <2>5, <2>6, <2>7 DEF OneKey
  <1> QED BY <1>5, <1>6, <1>7 DEF KeysInv, OneProcess

\* readOrCreateKey
LEMMA KeyStepHolds ==
    ASSUME VaultInv, NEW k \in Calls, KeyStep(k)
    PROVE  VaultInv'
  <1>0. Typed /\ KeysInv /\ KeysTyped
    BY DEF VaultInv, Typed
  <1>1. /\ UNCHANGED storage /\ file' = file /\ durable' = durable /\ unflushed' = unflushed
        /\ platform' = platform /\ directory' = directory
        /\ pc' = pc /\ processOf' = processOf /\ op' = op /\ content' = content
        /\ tmp' = tmp /\ answer' = answer /\ crashes' = crashes /\ place' = place
        /\ acked' = acked /\ leftover' = leftover
    BY DEF KeyStep, storage, call, ghosts
  <1>2. None # "get" /\ None # "set" /\ None # "verify"
    BY DEF None
  <1>3. KeysInv'
    <2>1. CASE GetSecret(k)
      <3>1. request[k] # None /\ keyring' = keyring
        BY <1>2, <2>1 DEF GetSecret
      <3>2. CASE keyring # None /\ Settle(k, keyring)
        BY <1>0, <1>1, <3>1, <3>2, SettleHolds DEF KeysTyped
      <3>3. CASE keyring = None /\ Request(k, "set")
        BY <1>0, <1>1, <3>1, <3>3, RequestHolds
      <3>4. CASE Settle(k, "unavailable")
        BY <1>0, <1>1, <3>1, <3>4, SettleHolds, CallNames
      <3> QED BY <2>1, <3>2, <3>3, <3>4 DEF GetSecret
    <2>2. CASE SetSecret(k)
      <3>1. request[k] # None /\ request[k] = "set"
        BY <1>2, <2>2 DEF SetSecret
      <3>2. CASE keyring' = k /\ Request(k, "verify")
        BY <1>0, <1>1, <3>1, <3>2, RequestHolds
      <3>3. CASE keyring' \in {k, keyring} /\ Settle(k, "unavailable")
        BY <1>0, <1>1, <3>1, <3>3, SettleHolds, CallNames
      <3> QED BY <2>2, <3>2, <3>3 DEF SetSecret
    <2>3. CASE VerifySecret(k)
      <3>1. request[k] # None /\ keyring' = keyring
        BY <1>2, <2>3 DEF VerifySecret
      <3>2. CASE Settle(k, keyring)
        BY <1>0, <1>1, <3>1, <3>2, SettleHolds DEF KeysTyped
      <3>3. CASE Settle(k, "unavailable")
        BY <1>0, <1>1, <3>1, <3>3, SettleHolds, CallNames
      <3> QED BY <2>3, <3>2, <3>3 DEF VerifySecret
    <2> QED BY <2>1, <2>2, <2>3 DEF KeyStep
  <1>4. Typed'
    BY <1>1, <1>3 DEF VaultInv, Typed, KeysInv, StorageTyped, CallsTyped, CountsTyped
  <1>5. OnDisk' = OnDisk /\ Placed' = Placed
    BY <1>1 DEF OnDisk, Placed
  <1>6. DiskInv' /\ AckInv' /\ acked' <= Cardinality(Placed')
    BY <1>1, <1>5 DEF VaultInv, DiskInv, AckInv, Written
  <1>7. ASSUME NEW j \in Calls
        PROVE  ReadInv(j)' /\ TmpInv(j)' /\ PlaceInv(j)'
    <2>1. ReadInv(j) /\ TmpInv(j) /\ PlaceInv(j)
      BY DEF VaultInv
    <2>2. ReadInv(j)'
      BY <1>1, <2>1 DEF ReadInv, Past, HasRead, Written
    <2>3. TmpInv(j)'
      BY <1>1, <2>1 DEF TmpInv, LoginOf
    <2>4. PlaceInv(j)'
      BY <1>1, <1>5, <2>1 DEF PlaceInv
    <2> QED BY <2>2, <2>3, <2>4
  <1> QED BY <1>3, <1>4, <1>6, <1>7 DEF VaultInv

----
(* Crashes *)

\* Processes stop.  If the file changes with them, no process is left that has read it;
\* then the writes acknowledged before it may count no more.
LEMMA StopHolds ==
    ASSUME VaultInv, NEW S \in SUBSET Processes, Stop(S), StorageTyped',
           \A f \in OnDisk' : f.kind = "session" => f \in OnDisk,
           file' = file \/ S = Processes,
           acked' \in {0, acked}, AckInv'
    PROVE  VaultInv'
  <1>0. Typed /\ KeysInv /\ KeysTyped /\ CallsTyped /\ DiskInv /\ AckInv
    BY DEF VaultInv, Typed
  <1>1. /\ keyring' = keyring /\ key' = key /\ processOf' = processOf /\ op' = op
        /\ content' = content /\ tmp' = tmp /\ answer' = answer /\ place' = place
        /\ leftover' = leftover
    BY DEF Stop, call
  <1>2. \A j \in Calls :
          /\ pc'[j] = IF processOf[j] \in S /\ InFlight(j) THEN "crashed" ELSE pc[j]
          /\ request'[j] = IF processOf[j] \in S THEN None ELSE request[j]
          /\ waitsFor'[j] = IF processOf[j] \in S THEN None ELSE waitsFor[j]
    BY DEF Stop
  <1>3. \A p \in Processes : pendingKeys'[p] = IF p \in S THEN None ELSE pendingKeys[p]
    BY DEF Stop
  <1>4. KeysTyped'
    <2>1. request' \in [Calls -> {None, "get", "set", "verify"}]
      BY <1>0 DEF Stop, KeysTyped
    <2>2. waitsFor' \in [Calls -> Calls \cup {None}]
      BY <1>0 DEF Stop, KeysTyped
    <2>3. pendingKeys' \in [Processes -> Calls \cup {None}]
      BY <1>0 DEF Stop, KeysTyped
    <2> QED BY <1>0, <1>1, <2>1, <2>2, <2>3 DEF KeysTyped
  <1>5. CallsTyped'
    <2>1. pc' \in [Calls -> Steps]
      BY <1>0 DEF Stop, CallsTyped, Steps
    <2> QED BY <1>0, <1>1, <2>1 DEF CallsTyped
  <1>6. CountsTyped'
    <2>1. crashes' \in 0 .. MaxCrashes
      BY <1>0, MaxCrashesAssumption DEF Stop, Typed, CountsTyped
    <2> QED BY <1>0, <1>1, <2>1, CallsCounted DEF Typed, CountsTyped
  <1>7. KeysInv'
    <2>1. ASSUME NEW j \in Calls
          PROVE  KeyInv(j)'
      <3>1. KeyInv(j) /\ processOf[j] \in Processes
        BY <1>0, CallHasProcess DEF KeysInv
      <3> QED BY <1>1, <1>2, <1>3, <3>1 DEF KeyInv
    <2>2. OneProcess' => OneKey'
      <3>1. None # "set"
        BY DEF None
      <3> QED BY <1>0, <1>1, <1>2, <3>1 DEF KeysInv, OneProcess, OneKey
    <2> QED BY <1>4, <2>1, <2>2 DEF KeysInv
  <1>8. DiskInv'
    BY <1>0, <1>1 DEF DiskInv, Written
  <1>9. Placed' = Placed /\ acked' <= Cardinality(Placed')
    <2>1. Placed' = Placed /\ Placed \subseteq Calls
      BY <1>1 DEF Placed
    <2>2. Cardinality(Placed) \in Nat /\ acked <= Cardinality(Placed)
      BY <2>1, CallsAssumption, FS_Subset, FS_CardinalityType DEF VaultInv
    <2> QED BY <2>1, <2>2
  <1>10. ASSUME NEW j \in Calls
         PROVE  ReadInv(j)' /\ TmpInv(j)' /\ PlaceInv(j)'
    <2>0. ReadInv(j) /\ TmpInv(j) /\ PlaceInv(j) /\ processOf[j] \in Processes
      BY <1>0, CallHasProcess DEF VaultInv
    <2>1. pc'[j] = "crashed" \/ pc'[j] = pc[j]
      BY <1>2
    <2>2. file' = file \/ pc'[j] \in {"idle", "done", "crashed"}
      BY <1>2, <2>0 DEF InFlight
    <2>3. pc[j] = "done" => pc'[j] = "done"
      BY <1>2 DEF InFlight
    <2>4. ReadInv(j)'
      BY <1>1, <2>0, <2>1, <2>2 DEF ReadInv, Past, HasRead, Written
    <2>5. TmpInv(j)'
      BY <1>1, <2>0, <2>1 DEF TmpInv, LoginOf
    <2>6. PlaceInv(j)'
      BY <1>1, <1>9, <2>0, <2>1, <2>2, <2>3 DEF PlaceInv
    <2> QED BY <2>4, <2>5, <2>6
  <1>11. Typed'
    BY <1>4, <1>5, <1>6 DEF Typed
  <1> QED BY <1>7, <1>8, <1>9, <1>10, <1>11 DEF VaultInv

\* After a loss of power nothing is left in a directory that was not durable, or it has
\* one of the files that could be there, whole, because each was flushed before its rename.
LEMMA PowerLossFile ==
    ASSUME VaultInv, PowerLoss
    PROVE  /\ \/ directory # "durable" /\ directory' = "absent" /\ file' = Missing
              \/ directory' = "durable" /\ file' \in {durable} \cup unflushed
           /\ durable' = file' /\ unflushed' = {} /\ platform' = platform
  <1>1. durable' = file' /\ unflushed' = {} /\ platform' = platform
    BY DEF PowerLoss, Stop
  <1>2. CASE DirectoryIsLost
    BY <1>1, <1>2 DEF DirectoryIsLost
  <1>3. CASE DirectoryIsKept
    <2>1. PICK entry \in {durable} \cup unflushed :
            file' \in IF entry.kind = "session" /\ ~entry.synced THEN {entry, Garbage}
                      ELSE {entry}
      BY <1>3 DEF DirectoryIsKept
    <2>2. entry.kind = "session" => entry.synced
      BY DEF VaultInv, DiskInv, OnDisk
    <2>3. file' = entry
      BY <2>1, <2>2
    <2> QED BY <1>1, <1>3, <2>1, <2>3 DEF DirectoryIsKept
  <1> QED BY <1>2, <1>3 DEF PowerLoss

\* The machine loses its power.
LEMMA PowerLossHolds ==
    ASSUME VaultInv, PowerLoss
    PROVE  VaultInv'
  <1>1. /\ \/ directory # "durable" /\ directory' = "absent" /\ file' = Missing
           \/ directory' = "durable" /\ file' \in {durable} \cup unflushed
        /\ durable' = file' /\ unflushed' = {} /\ platform' = platform
    BY PowerLossFile
  <1>2. Stop(Processes) /\ Processes \in SUBSET Processes
    BY DEF PowerLoss
  <1>3. /\ Typed /\ StorageTyped /\ AckInv /\ acked \in Nat
        /\ Missing \in Contents /\ Missing.kind # "session"
    BY CallsCounted DEF VaultInv, Typed, CountsTyped, Missing, Contents
  <1>4. OnDisk' = {file'} /\ (file'.kind = "session" => file' \in OnDisk)
    BY <1>1, <1>3 DEF OnDisk
  <1>5. StorageTyped'
    BY <1>1, <1>3 DEF StorageTyped, Directories
  <1>6. acked' = IF Exposed THEN 0 ELSE acked
    BY DEF PowerLoss
  <1>7. AckInv'
    <2>1. CASE Exposed
      BY <1>6, <2>1 DEF AckInv
    <2>2. CASE ~Exposed
      <3>1. platform # "win32" /\ file' \in OnDisk /\ acked' = acked
        BY <1>1, <1>6, <2>2 DEF Exposed, OnDisk
      <3> QED BY <1>3, <1>4, <3>1 DEF AckInv
    <2> QED BY <2>1, <2>2
  <1> QED BY <1>2, <1>3, <1>4, <1>5, <1>6, <1>7, StopHolds

\* A process crashes.
LEMMA ProcessCrashHolds ==
    ASSUME VaultInv, NEW p \in Processes, ProcessCrash(p)
    PROVE  VaultInv'
  <1>1. Stop({p}) /\ {p} \in SUBSET Processes
    BY DEF ProcessCrash
  <1>2. /\ file' = file /\ durable' = durable /\ unflushed' = unflushed
        /\ platform' = platform /\ directory' = directory /\ acked' = acked
    BY DEF ProcessCrash, storage
  <1>3. OnDisk' = OnDisk
    BY <1>2 DEF OnDisk
  <1>4. StorageTyped' /\ AckInv'
    BY <1>2, <1>3 DEF VaultInv, Typed, StorageTyped, AckInv
  <1> QED BY <1>1, <1>2, <1>3, <1>4, StopHolds

----
(* The invariant *)

\* It holds in the beginning.
LEMMA VaultInit == Init => VaultInv
  <1> SUFFICES ASSUME Init PROVE VaultInv
    OBVIOUS
  <1>0. Cardinality(Calls) \in Nat
    BY CallsCounted
  <1>1. EarlierSession \in Contents /\ Missing \in Contents /\ Garbage \in Contents
    BY <1>0 DEF EarlierSession, Contents, Logins, Keys
  <1>2. /\ Missing.kind # "session" /\ Garbage.kind # "session" /\ Missing # Garbage
        /\ EarlierSession.synced /\ EarlierSession.login = Earlier /\ EarlierSession.place = 0
        /\ EarlierSession.key = Earlier
    BY DEF Missing, Garbage, EarlierSession
  <1>3. StorageTyped
    BY <1>1 DEF Init, StorageTyped, Directories
  <1>4. KeysTyped
    BY DEF Init, KeysTyped, Keys
  <1>5. CallsTyped
    BY <1>1 DEF Init, CallsTyped, Steps
  <1>6. CountsTyped
    BY <1>0, MaxCrashesAssumption DEF Init, CountsTyped
  <1>7. OnDisk = {file} /\ file \in {Missing, Garbage, EarlierSession}
    BY DEF Init, OnDisk
  <1>8. DiskInv
    BY <1>2, <1>7 DEF DiskInv, Written
  <1>9. AckInv
    BY DEF Init, AckInv
  <1>10. Placed = {} /\ Cardinality(Placed) = 0
    <2>1. Placed = {}
      BY DEF Init, Placed
    <2> QED BY <2>1, FS_EmptySet
  <1>11. acked <= Cardinality(Placed)
    BY <1>10 DEF Init
  <1>12. None # "saved" /\ None # "set" /\ None \notin Keys
    BY CallNames DEF None
  <1>13. ASSUME NEW k \in Calls
         PROVE  ReadInv(k) /\ TmpInv(k) /\ PlaceInv(k) /\ KeyInv(k)
    <2>1. pc[k] = "idle" /\ content[k] = Missing /\ tmp[k] = Missing /\ place[k] = 0
          /\ answer[k] = None /\ waitsFor[k] = None /\ request[k] = None
      BY DEF Init
    <2>2. ReadInv(k)
      BY <1>2, <2>1 DEF ReadInv, Past, HasRead
    <2>3. TmpInv(k)
      BY <2>1 DEF TmpInv
    <2>4. PlaceInv(k)
      BY <1>10, <1>12, <2>1 DEF PlaceInv
    <2>5. KeyInv(k)
      BY <2>1 DEF KeyInv
    <2> QED BY <2>2, <2>3, <2>4, <2>5
  <1>14. OneKey
    <2>1. \A k \in Calls : request[k] = None /\ key[k] = None /\ tmp[k] = Missing
      BY DEF Init
    <2>2. file.kind = "session" => file.key = keyring
      BY <1>2, <1>7 DEF Init
    <2> QED BY <1>2, <1>7, <1>12, <2>1, <2>2 DEF OneKey
  <1>15. KeysInv
    BY <1>4, <1>13, <1>14 DEF KeysInv
  <1> QED BY <1>3, <1>4, <1>5, <1>6, <1>8, <1>9, <1>11, <1>13, <1>15 DEF VaultInv, Typed

\* Every step of a call keeps it.
LEMMA StepHolds ==
    ASSUME VaultInv, NEW k \in Calls, Step(k)
    PROVE  VaultInv'
  BY PrepareHolds, LookHolds, ReadFileHolds, DecryptHolds, UseKeyHolds, CreateHolds,
     SyncHolds, RenameHolds, FlushHolds, RemoveHolds DEF Step

\* A step in which the vault does nothing keeps it.
LEMMA StutterHolds ==
    ASSUME VaultInv, UNCHANGED vars
    PROVE  VaultInv'
  <1>1. /\ file' = file /\ durable' = durable /\ unflushed' = unflushed
        /\ platform' = platform /\ directory' = directory
        /\ keyring' = keyring /\ pendingKeys' = pendingKeys /\ request' = request
        /\ waitsFor' = waitsFor /\ key' = key
        /\ pc' = pc /\ processOf' = processOf /\ op' = op /\ content' = content
        /\ tmp' = tmp /\ answer' = answer /\ crashes' = crashes /\ place' = place
        /\ acked' = acked /\ leftover' = leftover
    BY DEF vars, storage, keys, call, ghosts
  <1>2. Typed'
    BY <1>1 DEF VaultInv, Typed, StorageTyped, KeysTyped, CallsTyped, CountsTyped
  <1>3. OnDisk' = OnDisk /\ Placed' = Placed
    BY <1>1 DEF OnDisk, Placed
  <1>4. DiskInv' /\ AckInv' /\ acked' <= Cardinality(Placed')
    BY <1>1, <1>3 DEF VaultInv, DiskInv, AckInv, Written
  <1>5. ASSUME NEW j \in Calls
        PROVE  ReadInv(j)' /\ TmpInv(j)' /\ PlaceInv(j)' /\ KeyInv(j)'
    <2>1. ReadInv(j) /\ TmpInv(j) /\ PlaceInv(j) /\ KeyInv(j)
      BY DEF VaultInv, KeysInv
    <2>2. ReadInv(j)'
      BY <1>1, <2>1 DEF ReadInv, Past, HasRead, Written
    <2>3. TmpInv(j)'
      BY <1>1, <2>1 DEF TmpInv, LoginOf
    <2>4. PlaceInv(j)'
      BY <1>1, <1>3, <2>1 DEF PlaceInv
    <2>5. KeyInv(j)'
      BY <1>1, <2>1 DEF KeyInv
    <2> QED BY <2>2, <2>3, <2>4, <2>5
  <1>6. OneProcess' => OneKey'
    BY <1>1, <1>3 DEF VaultInv, KeysInv, OneProcess, OneKey
  <1>7. KeysInv'
    BY <1>2, <1>5, <1>6 DEF Typed, KeysInv
  <1> QED BY <1>2, <1>4, <1>5, <1>7 DEF VaultInv

\* Every step keeps it.
LEMMA VaultNext ==
    ASSUME VaultInv, [Next]_vars
    PROVE  VaultInv'
  <1>1. ASSUME NEW k \in Calls, Begin(k) \/ Step(k) \/ KeyStep(k)
        PROVE  VaultInv'
    BY <1>1, BeginHolds, StepHolds, KeyStepHolds
  <1>2. ASSUME NEW p \in Processes, ProcessCrash(p)
        PROVE  VaultInv'
    BY <1>2, ProcessCrashHolds
  <1>3. CASE PowerLoss
    BY <1>3, PowerLossHolds
  <1>4. CASE UNCHANGED vars
    BY <1>4, StutterHolds
  <1> QED BY <1>1, <1>2, <1>3, <1>4 DEF Next, Finished

\* The inductive invariant holds in every state of the vault.
THEOREM VaultInvariant == Spec => []VaultInv
  <1>1. VaultInv /\ [Next]_vars => VaultInv'
    BY VaultNext
  <1> QED BY <1>1, VaultInit, PTL DEF Spec

\* The vault's state has the types it should have.
THEOREM VaultTypeCorrect == Spec => []VaultTypeOK
  <1>1. VaultInv => VaultTypeOK
    BY TypedInParts DEF VaultInv
  <1> QED BY <1>1, VaultInvariant, PTL

\* What the invariant says of the stored session and the temporary files.
LEMMA VaultInvGives == VaultInv => AcknowledgedWriteSurvives /\ TemporariesAreRemoved /\ ProcessHasOneKey
  <1> SUFFICES ASSUME VaultInv
               PROVE  AcknowledgedWriteSurvives /\ TemporariesAreRemoved /\ ProcessHasOneKey
    OBVIOUS
  <1>1. AcknowledgedWriteSurvives
    BY DEF VaultInv, AckInv, AcknowledgedWriteSurvives
  <1>2. TemporariesAreRemoved
    BY DEF VaultInv, TmpInv, TemporariesAreRemoved
  <1>3. ProcessHasOneKey
    BY DEF VaultInv, KeysInv, OneProcess, OneKey, OnDisk, ProcessHasOneKey, StoredUnderVaultKey
  <1> QED BY <1>1, <1>2, <1>3

\* Once a write was acknowledged, no earlier session comes back, whatever crashes,
\* failures and overlapping calls follow, nor after a loss of power where the directory is
\* flushed and was not made just before (atomicWrite).
THEOREM AcknowledgedSurvive == Spec => []AcknowledgedWriteSurvives
  BY VaultInvariant, VaultInvGives, PTL

\* A call that answers has removed its temporary file, unless rm failed.
THEOREM TemporariesRemoved == Spec => []TemporariesAreRemoved
  BY VaultInvariant, VaultInvGives, PTL

\* If one process makes all calls, what is stored is encrypted with the key in the
\* key store (getKey shares the request of a process).
THEOREM OneKeyPerProcess == Spec => []ProcessHasOneKey
  BY VaultInvariant, VaultInvGives, PTL

----
(* The refinement: the vault implements the register of StoredSession *)

\* What the refinement mapping makes of a call.
Unseen == [kind |-> "unseen"]

Status ==
    [k \in Calls |->
        IF pc[k] = "flush" THEN "written" ELSE IF InFlight(k) THEN "open" ELSE pc[k]]

Saw == [k \in Calls |-> IF HasRead(k) THEN ValueOf(content[k]) ELSE Unseen]

Revertible == {ValueOf(f) : f \in {durable} \cup unflushed}

Rooted == directory = "durable"

\* A step of a call that leaves the medium alone is one of the register.
LEMMA StepIsNext ==
    ASSUME NEW k \in Calls, Register!Step(k), platform' = platform, Rooted' = Rooted
    PROVE  Register!Next
  BY DEF Register!Next, Register!medium, Rooted

\* A step of one call is one of its counterpart.
LEMMA OneCallMaps ==
    ASSUME NEW k \in Calls,
           \A j \in Calls \ {k} : pc'[j] = pc[j] /\ op'[j] = op[j] /\ content'[j] = content[j]
    PROVE  /\ Status' = [Status EXCEPT ![k] = Status'[k]]
           /\ Saw' = [Saw EXCEPT ![k] = Saw'[k]]
  BY DEF Status, Saw, InFlight, HasRead

\* The status of a call, by where it is.
LEMMA StatusIs ==
    ASSUME NEW k \in Calls
    PROVE  /\ pc[k] = "idle" => Status[k] = "idle" /\ Saw[k] = Unseen
           /\ pc[k] \in {"prepare", "look", "read", "key", "create", "sync", "rename", "remove"}
                => Status[k] = "open"
           /\ pc[k] = "flush" => Status[k] = "written"
           /\ pc[k] = "done" => Status[k] = "done" /\ Saw[k] = Unseen
           /\ pc[k] = "crashed" => Status[k] = "crashed" /\ Saw[k] = Unseen
           /\ HasRead(k) => Saw[k] = ValueOf(content[k])
           /\ ~HasRead(k) => Saw[k] = Unseen
  BY DEF Status, Saw, InFlight, HasRead

\* What is stored tells whether the file is missing, garbage or a session.
LEMMA ValuesTell ==
    ASSUME NEW f \in Contents
    PROVE  /\ ValueOf(f) = Missing <=> f = Missing
           /\ ValueOf(f) = Garbage <=> f = Garbage
           /\ ValueOf(f) # Unseen
           /\ ValueOf(f).kind = "session" <=> f.kind = "session"
           /\ f.kind = "session" =>
                /\ ValueOf(f) = [kind |-> "session", login |-> f.login, marked |-> f.marked]
                /\ f.login \in Logins /\ f.marked \in BOOLEAN
  <1>1. CASE f.kind = "session"
    <2>1. f.login \in Logins /\ f.marked \in BOOLEAN
      BY <1>1, ContentKinds
    <2>2. ValueOf(f) = [kind |-> "session", login |-> f.login, marked |-> f.marked]
      BY <1>1 DEF ValueOf
    <2>3. f # Missing /\ f # Garbage
      BY <1>1, ContentKinds
    <2> QED BY <1>1, <2>1, <2>2, <2>3 DEF Missing, Garbage, Unseen
  <1>2. CASE f = Missing
    BY <1>2 DEF ValueOf, Missing, Garbage, Unseen
  <1>3. CASE f = Garbage
    BY <1>3 DEF ValueOf, Missing, Garbage, Unseen
  <1> QED BY <1>1, <1>2, <1>3, ContentKinds

\* What is not touched by a step of a call that leaves the storage alone.
LEMMA StorageMaps ==
    ASSUME file' = file, durable' = durable, unflushed' = unflushed
    PROVE  ValueOf(file)' = ValueOf(file) /\ Revertible' = Revertible
  BY DEF ValueOf, Revertible

\* A step that the register does not see.
LEMMA Unseeing ==
    ASSUME UNCHANGED storage, Rooted' = Rooted, op' = op, answer' = answer,
           Status' = Status, Saw' = Saw
    PROVE  UNCHANGED Register!vars
  <1>1. ValueOf(file)' = ValueOf(file) /\ Revertible' = Revertible /\ platform' = platform
    BY StorageMaps DEF storage
  <1> QED
    BY <1>1 DEF Register!vars, Register!medium, Status, Saw, Revertible, Rooted, Unseen

\* The call goes on, and the register does not see it.
LEMMA GoesUnseen ==
    ASSUME CallsTyped, NEW k \in Calls, NEW step \in Steps, Goto(k, step),
           UNCHANGED storage, Rooted' = Rooted, op' = op,
           \A j \in Calls \ {k} : content'[j] = content[j],
           pc[k] \in {"prepare", "look", "read", "key", "create", "sync", "rename", "remove"},
           step \in {"prepare", "look", "read", "key", "create", "sync", "rename", "remove"},
           Saw'[k] = Saw[k]
    PROVE  UNCHANGED Register!vars
  <1>1. /\ pc'[k] = step /\ answer' = answer /\ \A j \in Calls \ {k} : pc'[j] = pc[j]
    BY GotoTypes
  <1>2. Status[k] = "open" /\ Status'[k] = "open"
    BY <1>1 DEF Status, InFlight
  <1>3. Status' = [Status EXCEPT ![k] = Status'[k]] /\ Saw' = [Saw EXCEPT ![k] = Saw'[k]]
    BY <1>1, OneCallMaps
  <1>4. Status' = Status /\ Saw' = Saw
    BY <1>2, <1>3 DEF Status, Saw
  <1> QED BY <1>1, <1>4, Unseeing

\* The call learns what is stored.
LEMMA ReadsRegister ==
    ASSUME NEW k \in Calls, Status[k] = "open", Saw[k] = Unseen,
           UNCHANGED storage, op' = op, answer' = answer, Status' = Status,
           Saw' = [Saw EXCEPT ![k] = ValueOf(file)]
    PROVE  Register!Read(k)
  <1>1. ValueOf(file)' = ValueOf(file) /\ Revertible' = Revertible
    BY StorageMaps DEF storage
  <1> QED BY <1>1 DEF Register!Read, Register!Unseen, Status, Saw, Revertible, Unseen

\* The call answers without having written.
LEMMA RepliesOfRegister ==
    ASSUME NEW k \in Calls, Status[k] = "open", UNCHANGED storage, op' = op,
           NEW a \in {"missing", "valid", "expired", "reauthentication_required",
                      "SESSION_CORRUPT", "SESSION_READ_FAILED", "KEY_UNAVAILABLE",
                      "SESSION_WRITE_FAILED"},
           Register!Report(k, a), answer' = [answer EXCEPT ![k] = a],
           Status' = [Status EXCEPT ![k] = "done"], Saw' = [Saw EXCEPT ![k] = Unseen]
    PROVE  Register!Reply(k)
  <1>1. ValueOf(file)' = ValueOf(file) /\ Revertible' = Revertible
    BY StorageMaps DEF storage
  <1>2. Register!Answer(k, a)
    BY <1>1 DEF Register!Answer, Register!Unseen, Status, Saw, Unseen
  <1> QED BY <1>1, <1>2 DEF Register!Reply, Status, Revertible

\* A call that answers before it has written anything.
LEMMA AnswerMaps ==
    ASSUME CallsTyped, NEW k \in Calls,
           NEW a \in {"missing", "valid", "expired", "reauthentication_required",
                      "SESSION_CORRUPT", "SESSION_READ_FAILED", "KEY_UNAVAILABLE",
                      "SESSION_WRITE_FAILED"},
           Answer(k, a), UNCHANGED storage, Rooted' = Rooted, op' = op,
           \A j \in Calls \ {k} : content'[j] = content[j],
           pc[k] \in {"prepare", "look", "read", "key", "create", "sync", "rename", "remove"},
           Register!Report(k, a)
    PROVE  Register!Next
  <1>1. a \in Answers
    BY DEF Answers
  <1>2. pc'[k] = "done" /\ \A j \in Calls \ {k} : pc'[j] = pc[j]
    BY <1>1, AnswerTypes
  <1>3. answer' = [answer EXCEPT ![k] = a]
    BY DEF Answer
  <1>4. Status[k] = "open"
    BY StatusIs
  <1>5. Status'[k] = "done" /\ Saw'[k] = Unseen
    BY <1>2 DEF Status, Saw, InFlight, HasRead
  <1>6. Status' = [Status EXCEPT ![k] = "done"] /\ Saw' = [Saw EXCEPT ![k] = Unseen]
    BY <1>2, <1>5, OneCallMaps
  <1>7. Register!Reply(k)
    BY <1>3, <1>4, <1>6, RepliesOfRegister
  <1> QED BY <1>7, StepIsNext DEF Register!Step, storage

\* The answers that tell nothing of the stored session.
LEMMA ReportsFailure ==
    ASSUME NEW k \in Calls
    PROVE  /\ Register!Report(k, "SESSION_READ_FAILED")
           /\ Register!Report(k, "KEY_UNAVAILABLE")
           /\ op[k] # "load" => Register!Report(k, "SESSION_WRITE_FAILED")
  BY DEF Register!Report

\* What the register takes for seen by a call.
LEMMA ViewIs ==
    ASSUME NEW k \in Calls
    PROVE  Register!View(k) = IF Saw[k] = Unseen THEN ValueOf(file) ELSE Saw[k]
  BY DEF Register!View, Register!Unseen, Saw, Unseen

\* A call begins.
LEMMA BeginMaps ==
    ASSUME VaultInv, NEW k \in Calls, Begin(k)
    PROVE  Register!Next
  <1>0. CallsTyped
    BY DEF VaultInv, Typed
  <1>1. UNCHANGED storage /\ Rooted' = Rooted /\ content' = content /\ pc[k] = "idle"
    BY DEF Begin, Rooted
  <1>2. PICK o \in {"load", "save", "requireReauthentication"} :
          /\ op' = [op EXCEPT ![k] = o]
          /\ \/ Answer(k, "INVALID_REFERENCE")
             \/ o = "save" /\ Answer(k, "SESSION_WRITE_FAILED")
             \/ Goto(k, IF o = "save" THEN "prepare" ELSE "look")
    BY DEF Begin
  <1>3. op'[k] = o /\ \A j \in Calls \ {k} : op'[j] = op[j]
    BY <1>0, <1>2 DEF CallsTyped
  <1>4. ValueOf(file)' = ValueOf(file) /\ Revertible' = Revertible
    BY <1>1, StorageMaps DEF storage
  <1>5. Status[k] = "idle" /\ Saw[k] = Unseen
    BY <1>1, StatusIs
  <1>6. Register!Call(k)
    <2>1. ASSUME NEW a \in {"INVALID_REFERENCE", "SESSION_WRITE_FAILED"}, Answer(k, a),
                 a = "SESSION_WRITE_FAILED" => o = "save"
          PROVE  Register!Call(k)
      <3>1. pc'[k] = "done" /\ \A j \in Calls \ {k} : pc'[j] = pc[j]
        BY <1>0, <2>1, AnswerTypes DEF Answers
      <3>2. Status'[k] = "done" /\ Saw'[k] = Unseen
        BY <3>1 DEF Status, Saw, InFlight, HasRead
      <3>3. Status' = [Status EXCEPT ![k] = Status'[k]] /\ Saw' = [Saw EXCEPT ![k] = Saw'[k]]
        BY <1>1, <1>3, <3>1, OneCallMaps
      <3>4. Status' = [Status EXCEPT ![k] = "done"] /\ Saw' = Saw
        BY <1>5, <3>2, <3>3 DEF Saw
      <3>5. answer' = [answer EXCEPT ![k] = a]
        BY <2>1 DEF Answer
      <3> QED
        BY <1>2, <1>3, <1>4, <1>5, <2>1, <3>4, <3>5
        DEF Register!Call, Register!Operations, Status, Saw, Revertible, Unseen
    <2>2. CASE Goto(k, IF o = "save" THEN "prepare" ELSE "look")
      <3>1. /\ pc'[k] = IF o = "save" THEN "prepare" ELSE "look"
            /\ answer' = answer /\ \A j \in Calls \ {k} : pc'[j] = pc[j]
        BY <1>0, <2>2, GotoTypes DEF Steps
      <3>2. Status'[k] = "open" /\ Saw'[k] = Unseen
        BY <1>3, <3>1 DEF Status, Saw, InFlight, HasRead
      <3>3. Status' = [Status EXCEPT ![k] = Status'[k]] /\ Saw' = [Saw EXCEPT ![k] = Saw'[k]]
        BY <1>1, <1>3, <3>1, OneCallMaps
      <3>4. Status' = [Status EXCEPT ![k] = "open"] /\ Saw' = Saw
        BY <1>5, <3>2, <3>3 DEF Saw
      <3> QED
        BY <1>2, <1>4, <1>5, <3>1, <3>4
        DEF Register!Call, Register!Operations, Status, Saw, Revertible, Unseen
    <2> QED BY <1>2, <2>1, <2>2
  <1> QED BY <1>1, <1>6, StepIsNext DEF Register!Step, storage

\* #prepareSessionDirectory
LEMMA PrepareMaps ==
    ASSUME VaultInv, NEW k \in Calls, Prepare(k)
    PROVE  Register!Next \/ UNCHANGED Register!vars
  <1>1. /\ CallsTyped /\ ReadInv(k) /\ pc[k] = "prepare" /\ UNCHANGED storage /\ op' = op
        /\ content' = content /\ Rooted' = Rooted
    BY DEF VaultInv, Typed, Prepare, MakeDirectories, Rooted, call
  <1>2. CASE op[k] = "save" /\ Goto(k, "look")
    <2>1. pc'[k] = "look"
      BY <1>1, <1>2, GotoTypes DEF Steps
    <2>2. Saw'[k] = Saw[k]
      BY <1>1, <1>2, <2>1 DEF Saw, HasRead
    <2> QED BY <1>1, <1>2, <2>2, GoesUnseen DEF Steps
  <1>3. CASE op[k] # "save" /\ Goto(k, "key")
    <2>1. pc'[k] = "key"
      BY <1>1, <1>3, GotoTypes DEF Steps
    <2>2. Saw'[k] = Saw[k]
      BY <1>1, <1>3, <2>1 DEF Saw, HasRead, ValueOf
    <2> QED BY <1>1, <1>3, <2>2, GoesUnseen DEF Steps
  <1>4. CASE Answer(k, "SESSION_WRITE_FAILED")
    <2>1. op[k] # "load"
      BY <1>1 DEF ReadInv
    <2> QED BY <1>1, <1>4, <2>1, ReportsFailure, AnswerMaps
  <1> QED BY <1>2, <1>3, <1>4 DEF Prepare

\* #readPayload up to stat
LEMMA LookMaps ==
    ASSUME VaultInv, NEW k \in Calls, Look(k)
    PROVE  Register!Next \/ UNCHANGED Register!vars
  <1>1. /\ CallsTyped /\ ReadInv(k) /\ pc[k] = "look" /\ UNCHANGED storage /\ op' = op
        /\ content' = [content EXCEPT ![k] = Missing] /\ file \in Contents /\ Rooted' = Rooted
    BY DEF VaultInv, Typed, StorageTyped, Look, Rooted, call
  <1>2. content'[k] = Missing /\ \A j \in Calls \ {k} : content'[j] = content[j]
    BY <1>1 DEF CallsTyped
  <1>3. Saw[k] = Unseen /\ Register!View(k) = ValueOf(file) /\ Status[k] = "open"
    BY <1>1, ViewIs, StatusIs DEF HasRead
  <1>4. CASE file = Missing /\ op[k] = "save" /\ Goto(k, "key")
    <2>1. /\ pc'[k] = "key" /\ answer' = answer /\ \A j \in Calls \ {k} : pc'[j] = pc[j]
      BY <1>1, <1>4, GotoTypes DEF Steps
    <2>2. ValueOf(file) = Missing /\ ValueOf(Missing) = Missing
      BY <1>4 DEF ValueOf, Missing
    <2>3. Status'[k] = "open" /\ Saw'[k] = ValueOf(file)
      BY <1>2, <2>1, <2>2 DEF Status, Saw, InFlight, HasRead, ValueOf
    <2>4. Status' = [Status EXCEPT ![k] = Status'[k]] /\ Saw' = [Saw EXCEPT ![k] = Saw'[k]]
      BY <1>1, <1>2, <2>1, OneCallMaps
    <2>5. Status' = Status /\ Saw' = [Saw EXCEPT ![k] = ValueOf(file)]
      BY <1>3, <2>3, <2>4 DEF Status
    <2>6. Register!Read(k)
      BY <1>1, <1>3, <2>1, <2>5, ReadsRegister
    <2> QED BY <1>1, <2>6, StepIsNext DEF Register!Step, storage
  <1>5. CASE file = Missing /\ op[k] # "save" /\ Answer(k, "missing")
    <2>1. ValueOf(file) = Missing
      BY <1>5 DEF ValueOf, Missing
    <2>2. Register!Report(k, "missing")
      BY <1>3, <1>5, <2>1 DEF Register!Report, Register!Missing, Missing
    <2> QED BY <1>1, <1>2, <1>5, <2>2, AnswerMaps
  <1>6. CASE Goto(k, "read")
    <2>1. pc'[k] = "read"
      BY <1>1, <1>6, GotoTypes DEF Steps
    <2>2. Saw'[k] = Saw[k]
      BY <1>2, <1>3, <2>1 DEF Saw, HasRead
    <2> QED BY <1>1, <1>2, <1>6, <2>2, GoesUnseen DEF Steps
  <1>7. CASE file = Garbage /\ Answer(k, "SESSION_CORRUPT")
    <2>1. ValueOf(file) # Missing
      BY <1>7 DEF ValueOf, Garbage, Missing
    <2>2. Register!Report(k, "SESSION_CORRUPT")
      BY <1>3, <2>1 DEF Register!Report, Register!Missing, Missing
    <2> QED BY <1>1, <1>2, <1>7, <2>2, AnswerMaps
  <1>8. CASE Answer(k, "SESSION_READ_FAILED")
    BY <1>1, <1>2, <1>8, ReportsFailure, AnswerMaps
  <1> QED BY <1>4, <1>5, <1>6, <1>7, <1>8 DEF Look, FoundNothing

\* readFile
LEMMA ReadFileMaps ==
    ASSUME VaultInv, NEW k \in Calls, ReadFile(k)
    PROVE  Register!Next \/ UNCHANGED Register!vars
  <1>1. /\ CallsTyped /\ pc[k] = "read" /\ UNCHANGED storage /\ op' = op /\ file \in Contents
        /\ content[k] = Missing /\ Rooted' = Rooted
    BY DEF VaultInv, Typed, StorageTyped, ReadFile, Rooted, call
  <1>2. Saw[k] = Unseen /\ Status[k] = "open"
    BY <1>1, StatusIs DEF HasRead
  <1>3. CASE content' = [content EXCEPT ![k] = file] /\ UNCHANGED <<pc, answer>>
    <2>1. content'[k] = file /\ \A j \in Calls \ {k} : content'[j] = content[j]
      BY <1>1, <1>3 DEF CallsTyped
    <2>2. Status' = Status /\ Saw' = [Saw EXCEPT ![k] = Saw'[k]]
      <3>1. Status' = [Status EXCEPT ![k] = Status'[k]] /\ Saw' = [Saw EXCEPT ![k] = Saw'[k]]
        BY <1>1, <1>3, <2>1, OneCallMaps
      <3>2. Status'[k] = "open"
        BY <1>1, <1>3 DEF Status, InFlight
      <3> QED BY <1>2, <3>1, <3>2 DEF Status
    <2>3. CASE file = Missing
      <3>1. Saw'[k] = Unseen
        BY <1>1, <1>3, <2>1, <2>3 DEF Saw, HasRead
      <3>2. Saw' = Saw
        BY <1>2, <2>2, <3>1 DEF Saw
      <3> QED BY <1>1, <1>3, <2>2, <3>2, Unseeing
    <2>4. CASE file # Missing
      <3>1. Saw'[k] = ValueOf(file)
        BY <1>1, <1>3, <2>1, <2>4 DEF Saw, HasRead, ValueOf
      <3>2. Register!Read(k)
        BY <1>1, <1>2, <1>3, <2>2, <3>1, ReadsRegister
      <3> QED BY <1>1, <3>2, StepIsNext DEF Register!Step, storage
    <2> QED BY <2>3, <2>4
  <1>4. CASE Answer(k, "SESSION_READ_FAILED") /\ UNCHANGED content
    BY <1>1, <1>4, ReportsFailure, AnswerMaps
  <1> QED BY <1>3, <1>4 DEF ReadFile

\* #decryptEnvelope and what the caller does with the payload
LEMMA DecryptMaps ==
    ASSUME VaultInv, NEW k \in Calls, Decrypt(k)
    PROVE  Register!Next \/ UNCHANGED Register!vars
  <1>1. /\ CallsTyped /\ pc[k] = "read" /\ UNCHANGED storage /\ op' = op
        /\ content' = content /\ content[k] \in Contents /\ Rooted' = Rooted
    BY DEF VaultInv, Typed, CallsTyped, Decrypt, Rooted, call
  <1>2. CASE Answer(k, "KEY_UNAVAILABLE")
    BY <1>1, <1>2, ReportsFailure, AnswerMaps
  <1>3. CASE content[k] # Missing
    <2>1. Saw[k] = ValueOf(content[k]) /\ Register!View(k) = ValueOf(content[k])
      BY <1>1, <1>3, StatusIs, ViewIs, ValuesTell DEF HasRead
    <2>2. CASE Decryptable(k) /\ op[k] = "load"
      <3>1. /\ ValueOf(content[k]) = [kind |-> "session", login |-> content[k].login,
                                       marked |-> content[k].marked]
            /\ content[k].login \in Logins /\ content[k].marked \in BOOLEAN
        BY <1>1, <2>2, ValuesTell DEF Decryptable
      <3>2. CASE content[k].marked /\ Answer(k, "reauthentication_required")
        <4>1. content[k].marked = TRUE
          BY <3>1, <3>2
        <4>2. Register!Report(k, "reauthentication_required")
          BY <2>1, <2>2, <3>1, <4>1 DEF Register!Report, Register!Session
        <4> QED BY <1>1, <3>2, <4>2, AnswerMaps
      <3>3. ASSUME NEW a \in {"valid", "expired"}, ~content[k].marked, Answer(k, a)
            PROVE  Register!Next
        <4>1. content[k].marked = FALSE
          BY <3>1, <3>3
        <4>2. Register!Report(k, a)
          BY <2>1, <2>2, <3>1, <4>1 DEF Register!Report, Register!Session
        <4> QED BY <1>1, <3>3, <4>2, AnswerMaps
      <3>4. Found(k) => \/ content[k].marked /\ Answer(k, "reauthentication_required")
                        \/ ~content[k].marked /\ \E a \in {"valid", "expired"} : Answer(k, a)
                        \/ Answer(k, "KEY_UNAVAILABLE")
        BY <2>2 DEF Found
      <3> QED BY <1>2, <1>3, <2>2, <3>2, <3>3, <3>4 DEF Decrypt
    <2>3. CASE op[k] = "save" /\ Goto(k, "key")
      <3>1. pc'[k] = "key"
        BY <1>1, <2>3, GotoTypes DEF Steps
      <3>2. Saw'[k] = Saw[k]
        BY <1>1, <1>3, <3>1 DEF Saw, HasRead, ValueOf
      <3> QED BY <1>1, <2>3, <3>2, GoesUnseen DEF Steps
    <2>4. CASE op[k] = "requireReauthentication" /\ Goto(k, "prepare")
      <3>1. pc'[k] = "prepare"
        BY <1>1, <2>4, GotoTypes DEF Steps
      <3>2. Saw'[k] = Saw[k]
        BY <1>1, <1>3, <2>4, <3>1 DEF Saw, HasRead, ValueOf
      <3> QED BY <1>1, <2>4, <3>2, GoesUnseen DEF Steps
    <2>5. CASE Answer(k, "SESSION_CORRUPT")
      <3>1. ValueOf(content[k]) # Missing
        BY <1>1, <1>3, ValuesTell
      <3>2. Register!Report(k, "SESSION_CORRUPT")
        BY <2>1, <3>1 DEF Register!Report, Register!Missing, Missing
      <3> QED BY <1>1, <2>5, <3>2, AnswerMaps
    <2> QED BY <1>2, <2>2, <2>3, <2>4, <2>5 DEF Decrypt, Found
  <1> QED BY <1>2, <1>3 DEF Decrypt

\* The key has come.
LEMMA UseKeyMaps ==
    ASSUME VaultInv, NEW k \in Calls, UseKey(k)
    PROVE  Register!Next \/ UNCHANGED Register!vars
  <1>1. /\ CallsTyped /\ pc[k] = "key" /\ UNCHANGED storage /\ op' = op /\ content' = content
        /\ Rooted' = Rooted
    BY DEF VaultInv, Typed, UseKey, Rooted, call
  <1>2. CASE Answer(k, "KEY_UNAVAILABLE")
    BY <1>1, <1>2, ReportsFailure, AnswerMaps
  <1>3. CASE Goto(k, "create")
    <2>1. pc'[k] = "create"
      BY <1>1, <1>3, GotoTypes DEF Steps
    <2>2. Saw'[k] = Saw[k]
      BY <1>1, <2>1 DEF Saw, HasRead, ValueOf
    <2> QED BY <1>1, <1>3, <2>2, GoesUnseen DEF Steps
  <1> QED BY <1>2, <1>3 DEF UseKey

\* The steps of atomicWrite around the rename.
LEMMA WritingMaps ==
    ASSUME VaultInv, NEW k \in Calls,
           \/ Create(k) \/ Sync(k) \/ Remove(k)
           \/ pc[k] = "rename" /\ Goto(k, "remove") /\ UNCHANGED <<storage, directory, call, content>>
    PROVE  Register!Next \/ UNCHANGED Register!vars
  <1>1. /\ CallsTyped /\ ReadInv(k) /\ pc[k] \in {"create", "sync", "rename", "remove"}
        /\ UNCHANGED storage /\ op' = op /\ content' = content /\ Rooted' = Rooted
    BY DEF VaultInv, Typed, Create, Sync, Remove, Rooted, call
  <1>2. PICK step \in {"sync", "rename", "remove", "done"} :
          IF step = "done" THEN Answer(k, "SESSION_WRITE_FAILED") ELSE Goto(k, step)
    BY DEF Create, Sync, Remove
  <1>3. CASE step # "done"
    <2>1. pc'[k] = step /\ step \in Steps
      BY <1>1, <1>2, <1>3, GotoTypes DEF Steps
    <2>2. Saw'[k] = Saw[k]
      BY <1>1, <1>3, <2>1 DEF Saw, HasRead, ValueOf
    <2> QED BY <1>1, <1>2, <1>3, <2>1, <2>2, GoesUnseen
  <1>4. CASE step = "done"
    <2>1. op[k] # "load"
      BY <1>1 DEF ReadInv, Past
    <2> QED BY <1>1, <1>2, <1>4, <2>1, ReportsFailure, AnswerMaps
  <1> QED BY <1>3, <1>4

\* The rename is the write: it puts the new value in place of a session or of nothing.
LEMMA RenameMaps ==
    ASSUME VaultInv, NEW k \in Calls, Rename(k)
    PROVE  Register!Next \/ UNCHANGED Register!vars
  <1>1. /\ CallsTyped /\ ReadInv(k) /\ pc[k] = "rename" /\ op' = op /\ content' = content
        /\ durable' = durable /\ file \in Contents /\ content[k] \in Contents
        /\ platform' = platform /\ Rooted' = Rooted
    BY DEF VaultInv, Typed, StorageTyped, CallsTyped, Rename, Rooted, call
  <1>2. CASE Goto(k, "remove") /\ UNCHANGED <<file, unflushed, place, tmp>>
    <2>1. UNCHANGED <<storage, directory, call, content>>
      BY <1>2 DEF Rename, storage
    <2> QED BY <1>1, <1>2, <2>1, WritingMaps
  <1>3. CASE MoveIntoPlace(k)
    <2>1. /\ file' \in Contents /\ file'.kind = "session"
          /\ file'.login = LoginOf(k) /\ (file'.marked <=> op[k] # "save")
      BY <1>1, <1>3, Renamed
    <2>2. unflushed' = unflushed \cup {file'} /\ Goto(k, "flush")
      BY <1>3 DEF MoveIntoPlace
    <2>3. /\ pc'[k] = "flush" /\ answer' = answer /\ \A j \in Calls \ {k} : pc'[j] = pc[j]
      BY <1>1, <2>2, GotoTypes DEF Steps
    <2>4. Status[k] = "open" /\ Status'[k] = "written" /\ Saw[k] = ValueOf(content[k]) /\ Saw'[k] = Saw[k]
      <3>1. HasRead(k) /\ HasRead(k)'
        BY <1>1, <2>3 DEF HasRead
      <3>2. ValueOf(content[k])' = ValueOf(content[k])
        BY <1>1 DEF ValueOf
      <3> QED BY <1>1, <2>3, <3>1, <3>2 DEF Status, Saw, InFlight
    <2>5. Status' = [Status EXCEPT ![k] = "written"] /\ Saw' = Saw
      <3>1. Status' = [Status EXCEPT ![k] = Status'[k]] /\ Saw' = [Saw EXCEPT ![k] = Saw'[k]]
        BY <1>1, <2>3, OneCallMaps
      <3> QED BY <2>4, <3>1 DEF Saw
    <2>6. /\ Past(k) /\ content[k] # Garbage /\ file # Garbage
          /\ op[k] \in {"save", "requireReauthentication"}
          /\ op[k] # "save" => content[k].kind = "session"
      BY <1>1 DEF ReadInv, Past, HasRead
    <2>7. ValueOf(file) # Garbage /\ Saw[k] \notin {Unseen, Garbage}
      BY <1>1, <2>4, <2>6, ValuesTell
    <2>8. op[k] # "save" => Saw[k].kind = "session" /\ Saw[k].login = content[k].login
      BY <1>1, <2>4, <2>6, ValuesTell
    <2>9. ValueOf(file)' = [kind |-> "session", login |-> file'.login, marked |-> file'.marked]
      BY <2>1 DEF ValueOf
    <2>10. file'.marked \in BOOLEAN
      BY <2>1, ContentKinds
    <2>11. ValueOf(file)' = IF op[k] = "save" THEN Register!Session(k, FALSE)
                            ELSE Register!Session(Saw[k].login, TRUE)
      <3>1. CASE op[k] = "save"
        <4>1. file'.login = k /\ file'.marked = FALSE
          BY <2>1, <2>10, <3>1 DEF LoginOf
        <4> QED BY <2>9, <3>1, <4>1 DEF Register!Session
      <3>2. CASE op[k] # "save"
        <4>1. file'.login = Saw[k].login /\ file'.marked = TRUE
          BY <2>1, <2>8, <2>10, <3>2 DEF LoginOf
        <4> QED BY <2>9, <3>2, <4>1 DEF Register!Session
      <3> QED BY <3>1, <3>2
    <2>12. Revertible' = Revertible \cup {ValueOf(file)'}
      BY <1>1, <2>2 DEF Revertible, ValueOf
    <2>13. Register!NewValue(k) = IF op[k] = "save" THEN Register!Session(k, FALSE)
                                  ELSE Register!Session(Saw[k].login, TRUE)
      BY DEF Register!NewValue, Saw, Unseen
    <2>14. Register!Write(k)
      <3>1. ValueOf(file) # Register!Corrupt
        BY <2>7 DEF Register!Corrupt, Garbage
      <3>2. \/ op[k] = "save" /\ Saw[k] \notin {Register!Unseen, Register!Corrupt}
            \/ op[k] = "requireReauthentication" /\ Saw[k].kind = "session"
        BY <2>6, <2>7, <2>8 DEF Register!Unseen, Register!Corrupt, Unseen, Garbage
      <3> QED
        BY <1>1, <2>3, <2>4, <2>5, <2>11, <2>12, <2>13, <3>1, <3>2
        DEF Register!Write, Status, Saw, Revertible, Unseen
    <2> QED BY <1>1, <2>14, StepIsNext DEF Register!Step
  <1> QED BY <1>2, <1>3 DEF Rename

\* The flush acknowledges the write, or the call fails after it.
LEMMA FlushMaps ==
    ASSUME VaultInv, NEW k \in Calls, Flush(k)
    PROVE  Register!Next
  <1>1. /\ CallsTyped /\ pc[k] = "flush" /\ op' = op /\ content' = content /\ file' = file
        /\ platform' = platform /\ Rooted' = Rooted
    BY DEF VaultInv, Typed, Flush, Rooted, call
  <1>2. PICK a \in Answers :
          /\ Answer(k, a)
          /\ \/ /\ a = IF op[k] = "save" THEN "saved" ELSE "reauthentication_required"
                /\ IF platform # "win32" THEN durable' = file /\ unflushed' = {}
                   ELSE durable' = durable /\ unflushed' = unflushed
             \/ a = "SESSION_WRITE_FAILED" /\ durable' = durable /\ unflushed' = unflushed
    BY DEF Flush, Acknowledge, Answers
  <1>3. pc'[k] = "done" /\ \A j \in Calls \ {k} : pc'[j] = pc[j]
    BY <1>1, <1>2, AnswerTypes
  <1>4. answer' = [answer EXCEPT ![k] = a]
    BY <1>2 DEF Answer
  <1>5. Status[k] = "written" /\ Status'[k] = "done" /\ Saw'[k] = Unseen
    BY <1>1, <1>3 DEF Status, Saw, InFlight, HasRead
  <1>6. Status' = [Status EXCEPT ![k] = "done"] /\ Saw' = [Saw EXCEPT ![k] = Unseen]
    BY <1>1, <1>3, <1>5, OneCallMaps
  <1>7. ValueOf(file)' = ValueOf(file)
    BY <1>1 DEF ValueOf
  <1>8. Register!Answer(k, a)
    BY <1>1, <1>4, <1>6, <1>7 DEF Register!Answer, Register!Unseen, Status, Saw, Unseen
  <1>9. CASE /\ a = IF op[k] = "save" THEN "saved" ELSE "reauthentication_required"
             /\ IF platform # "win32" THEN durable' = file /\ unflushed' = {}
                ELSE durable' = durable /\ unflushed' = unflushed
    <2>1. Revertible' = IF platform # "win32" THEN {ValueOf(file)} ELSE Revertible
      BY <1>9 DEF Revertible, ValueOf
    <2>2. Register!Answer(k, IF op[k] = "save" THEN "saved" ELSE "reauthentication_required")
      BY <1>8, <1>9 DEF Register!Answer
    <2>3. Register!Acknowledge(k)
      BY <1>5, <2>1, <2>2 DEF Register!Acknowledge, Status, Revertible
    <2> QED BY <1>1, <2>3, StepIsNext DEF Register!Step
  <1>10. CASE a = "SESSION_WRITE_FAILED" /\ durable' = durable /\ unflushed' = unflushed
    <2>1. Revertible' = Revertible
      BY <1>1, <1>10, StorageMaps
    <2>2. Register!FailAfterWrite(k)
      BY <1>5, <1>8, <1>10, <2>1 DEF Register!FailAfterWrite, Status, Revertible
    <2> QED BY <1>1, <2>2, StepIsNext DEF Register!Step
  <1> QED BY <1>2, <1>9, <1>10

\* The register knows nothing of keys.
LEMMA KeyStepMaps ==
    ASSUME NEW k \in Calls, KeyStep(k)
    PROVE  UNCHANGED Register!vars
  <1>1. /\ pc' = pc /\ op' = op /\ content' = content /\ answer' = answer /\ UNCHANGED storage
        /\ Rooted' = Rooted
    BY DEF KeyStep, Rooted, call
  <1>2. Status' = Status /\ Saw' = Saw
    BY <1>1 DEF Status, Saw, InFlight, HasRead, ValueOf
  <1> QED BY <1>1, <1>2, Unseeing

\* When processes stop, the calls they make end.
LEMMA StopMaps ==
    ASSUME VaultInv, NEW S \in SUBSET Processes, Stop(S),
           NEW C \in SUBSET Calls, \A k \in Calls : k \in C <=> processOf[k] \in S
    PROVE  Register!Crash(C)
  <1>1. CallsTyped /\ op' = op /\ content' = content /\ answer' = answer
    BY DEF VaultInv, Typed, Stop, call
  <1>2. \A j \in Calls :
          pc'[j] = IF processOf[j] \in S /\ InFlight(j) THEN "crashed" ELSE pc[j]
    BY DEF Stop
  <1>3. \A k \in Calls : Status[k] \in {"open", "written"} <=> InFlight(k)
    BY DEF Status, InFlight
  <1>4. \A k \in Calls : Status'[k] =
          IF k \in C /\ Status[k] \in {"open", "written"} THEN "crashed" ELSE Status[k]
    BY <1>2, <1>3 DEF Status, InFlight
  <1>5. \A k \in Calls : Saw'[k] = IF k \in C THEN Unseen ELSE Saw[k]
    <2> SUFFICES ASSUME NEW k \in Calls PROVE Saw'[k] = IF k \in C THEN Unseen ELSE Saw[k]
      OBVIOUS
    <2>1. CASE k \in C
      <3>1. ~HasRead(k)'
        BY <1>2, <2>1 DEF HasRead, InFlight
      <3> QED BY <2>1, <3>1 DEF Saw
    <2>2. CASE k \notin C
      <3>1. HasRead(k)' = HasRead(k) /\ ValueOf(content[k])' = ValueOf(content[k])
        BY <1>1, <1>2, <2>2 DEF HasRead, ValueOf
      <3> QED BY <2>2, <3>1 DEF Saw
    <2> QED BY <2>1, <2>2
  <1>6. Status' = [k \in Calls |->
          IF k \in C /\ Status[k] \in {"open", "written"} THEN "crashed" ELSE Status[k]]
    BY <1>4 DEF Status
  <1>7. Saw' = [k \in Calls |-> IF k \in C THEN Unseen ELSE Saw[k]]
    BY <1>5 DEF Saw
  <1> QED BY <1>1, <1>6, <1>7 DEF Register!Crash, Register!Unseen, Status, Saw, Unseen

\* A process crashes.
LEMMA ProcessCrashMaps ==
    ASSUME VaultInv, NEW p \in Processes, ProcessCrash(p)
    PROVE  Register!Next
  <1>1. Stop({p}) /\ {p} \in SUBSET Processes /\ UNCHANGED storage
    BY DEF ProcessCrash
  <1>0. PICK C \in SUBSET Calls : \A k \in Calls : k \in C <=> processOf[k] \in {p}
    <2>1. {k \in Calls : processOf[k] \in {p}} \in SUBSET Calls
      OBVIOUS
    <2> QED BY <2>1
  <1>2. Register!Crash(C)
    BY <1>0, <1>1, StopMaps
  <1>3. ValueOf(file)' = ValueOf(file) /\ Revertible' = Revertible
    BY <1>1, StorageMaps DEF storage
  <1>4. Register!ProcessCrash
    BY <1>2, <1>3 DEF Register!ProcessCrash, Revertible
  <1>5. UNCHANGED Register!medium
    BY <1>1 DEF Register!medium, ProcessCrash, storage
  <1> QED BY <1>4, <1>5 DEF Register!Next

\* A loss of power leaves a file that the register allows for.
LEMMA PowerLossMaps ==
    ASSUME VaultInv, PowerLoss
    PROVE  Register!Next
  <1>1. Stop(Processes) /\ Processes \in SUBSET Processes
    BY DEF PowerLoss
  <1>2. \A k \in Calls : k \in Calls <=> processOf[k] \in Processes
    BY CallHasProcess DEF VaultInv, Typed
  <1>3. Register!Crash(Calls)
    BY <1>1, <1>2, StopMaps
  <1>4. /\ \/ directory # "durable" /\ directory' = "absent" /\ file' = Missing
           \/ directory' = "durable" /\ file' \in {durable} \cup unflushed
        /\ durable' = file' /\ unflushed' = {} /\ platform' = platform
    BY PowerLossFile
  <1>5. Revertible' = {ValueOf(file)'}
    BY <1>4 DEF Revertible, ValueOf
  <1>6. CASE directory # "durable" /\ directory' = "absent" /\ file' = Missing
    <2>1. ValueOf(file)' = Register!Missing
      BY <1>6 DEF ValueOf, Missing, Register!Missing
    <2>2. ~(directory' = "durable")
      BY <1>6
    <2>3. Register!PowerLoss
      BY <1>3, <1>4, <1>5, <1>6, <2>1, <2>2 DEF Register!PowerLoss, Revertible
    <2> QED BY <2>3 DEF Register!Next
  <1>7. CASE directory' = "durable" /\ file' \in {durable} \cup unflushed
    <2>1. ValueOf(file)' \in Revertible
      BY <1>7 DEF Revertible, ValueOf
    <2>2. Register!PowerLoss
      BY <1>3, <1>4, <1>5, <1>7, <2>1 DEF Register!PowerLoss, Revertible
    <2> QED BY <2>2 DEF Register!Next
  <1> QED BY <1>4, <1>6, <1>7

\* The vault begins as the register does.
LEMMA InitMaps == Init => Register!Init
  <1> SUFFICES ASSUME Init PROVE Register!Init
    OBVIOUS
  <1>1. file \in {Missing, Garbage, EarlierSession} /\ durable = file /\ unflushed = {}
    BY DEF Init
  <1>2. ValueOf(file) \in Register!Values
    <2>1. CASE file = Missing
      BY <2>1 DEF ValueOf, Register!Values, Register!Missing, Missing
    <2>2. CASE file = Garbage
      BY <2>2 DEF ValueOf, Register!Values, Register!Corrupt, Garbage
    <2>3. CASE file = EarlierSession
      <3>1. ValueOf(file) = [kind |-> "session", login |-> Earlier, marked |-> FALSE]
        BY <2>3 DEF ValueOf, EarlierSession
      <3> QED BY <3>1 DEF Register!Values, Logins
    <2> QED BY <1>1, <2>1, <2>2, <2>3
  <1>3. Revertible = {ValueOf(file)}
    BY <1>1 DEF Revertible
  <1>4. Status = [k \in Calls |-> "idle"] /\ Saw = [k \in Calls |-> Unseen]
    BY DEF Init, Status, Saw, InFlight, HasRead
  <1>5. op = [k \in Calls |-> "none"] /\ answer = [k \in Calls |-> "none"]
    BY DEF Init, None
  <1> QED
    BY <1>2, <1>3, <1>4, <1>5
    DEF Register!Init, Register!Unseen, Status, Saw, Revertible, Unseen

\* Every step of the vault is one of the register, or none.
LEMMA NextMaps ==
    ASSUME VaultInv, [Next]_vars
    PROVE  [Register!Next]_(Register!vars)
  <1>1. ASSUME NEW k \in Calls, Step(k)
        PROVE  Register!Next \/ UNCHANGED Register!vars
    BY <1>1, PrepareMaps, LookMaps, ReadFileMaps, DecryptMaps, UseKeyMaps, WritingMaps,
       RenameMaps, FlushMaps DEF Step
  <1>2. ASSUME NEW k \in Calls, Begin(k) \/ KeyStep(k)
        PROVE  Register!Next \/ UNCHANGED Register!vars
    BY <1>2, BeginMaps, KeyStepMaps
  <1>3. ASSUME NEW p \in Processes, ProcessCrash(p)
        PROVE  Register!Next
    BY <1>3, ProcessCrashMaps
  <1>4. CASE PowerLoss
    BY <1>4, PowerLossMaps
  <1>5. CASE UNCHANGED vars
    <2>1. /\ pc' = pc /\ op' = op /\ content' = content /\ answer' = answer /\ UNCHANGED storage
          /\ Rooted' = Rooted
      BY <1>5 DEF vars, call, Rooted
    <2>2. Status' = Status /\ Saw' = Saw
      BY <2>1 DEF Status, Saw, InFlight, HasRead, ValueOf
    <2> QED BY <2>1, <2>2, Unseeing
  <1> QED BY <1>1, <1>2, <1>3, <1>4, <1>5 DEF Next, Finished

\* The vault implements the register: every behaviour of its files, keys and flushes is
\* one of a stored session that is read and written in single steps.
THEOREM VaultImplementsRegister == Spec => ImplementsRegister
  <1>1. VaultInv /\ [Next]_vars => [Register!Next]_(Register!vars)
    BY NextMaps
  <1> QED BY <1>1, InitMaps, VaultInvariant, PTL DEF Spec, ImplementsRegister, Register!Spec

----
(* The interactive login *)

\* Before the login saves its state its call is to come; afterwards it has the result of
\* that call, or there was none.
LoginInv ==
    /\ loginPc \in {"call", "launch", "login", "capture", "save"} => pc[Login] = "idle"
    /\ loginPc = "saving" => op[Login] = "save"
    /\ loginPc \in {"close", "done"} =>
         \/ result = InteractiveAuthenticationError /\ pc[Login] = "idle"
         \/ /\ pc[Login] = "done" /\ op[Login] = "save"
            /\ result = IF answer[Login] = "saved" THEN "authenticated" ELSE answer[Login]

\* What a step of the vault does not touch: calls that are still to come, or are answered.
Undisturbed(k) ==
    /\ op'[k] = op[k]
    /\ pc[k] \in {"idle", "done"} => pc'[k] = pc[k] /\ answer'[k] = answer[k]

\* A call's step is its own.
LEMMA StepDisturbs ==
    ASSUME CallsTyped, NEW k \in Calls, NEW j \in Calls, Step(k)
    PROVE  Undisturbed(j)
  <1>1. op' = op
    BY DEF Step, Prepare, Look, ReadFile, Decrypt, UseKey, Create, Sync, Rename, Flush, Remove, call
  <1>2. pc[k] \notin {"idle", "done"}
    BY DEF Step, Prepare, Look, ReadFile, Decrypt, UseKey, Create, Sync, Rename, Flush, Remove
  <1>3. \/ \E s \in Steps : Goto(k, s)
        \/ \E a \in Answers : Answer(k, a)
        \/ pc' = pc /\ answer' = answer
    <2>1. CASE Prepare(k) \/ Look(k) \/ ReadFile(k)
      BY <2>1 DEF Prepare, Look, FoundNothing, ReadFile, Steps, Answers
    <2>2. CASE Decrypt(k) \/ UseKey(k)
      BY <2>2 DEF Decrypt, Found, UseKey, Steps, Answers
    <2>3. CASE Create(k) \/ Sync(k) \/ Remove(k)
      BY <2>3 DEF Create, Sync, Remove, Steps, Answers
    <2>4. CASE Rename(k) \/ Flush(k)
      BY <2>4 DEF Rename, MoveIntoPlace, Flush, Acknowledge, Steps, Answers
    <2> QED BY <2>1, <2>2, <2>3, <2>4 DEF Step
  <1>4. j # k => pc'[j] = pc[j] /\ answer'[j] = answer[j]
    BY <1>3, GotoTypes, AnswerTypes
  <1> QED BY <1>1, <1>2, <1>4 DEF Undisturbed

\* So are those of other processes that crash, and the beginning of another call.
LEMMA OthersDisturb ==
    ASSUME CallsTyped, NEW j \in Calls,
           \/ \E k \in Calls : KeyStep(k)
           \/ \E k \in Calls \ {j} : Begin(k)
           \/ \E S \in SUBSET Processes : Stop(S)
           \/ UNCHANGED vars
    PROVE  Undisturbed(j)
  <1>1. CASE \E k \in Calls : KeyStep(k)
    BY <1>1 DEF KeyStep, call, Undisturbed
  <1>2. ASSUME NEW k \in Calls \ {j}, Begin(k)
        PROVE  Undisturbed(j)
    <2>1. PICK o \in {"load", "save", "requireReauthentication"} :
            /\ op' = [op EXCEPT ![k] = o]
            /\ \/ Answer(k, "INVALID_REFERENCE")
               \/ o = "save" /\ Answer(k, "SESSION_WRITE_FAILED")
               \/ Goto(k, IF o = "save" THEN "prepare" ELSE "look")
      BY <1>2 DEF Begin
    <2>2. op'[j] = op[j]
      BY <2>1 DEF CallsTyped
    <2>3. pc'[j] = pc[j] /\ answer'[j] = answer[j]
      BY <2>1, GotoTypes, AnswerTypes DEF Steps, Answers
    <2> QED BY <2>2, <2>3 DEF Undisturbed
  <1>3. ASSUME NEW S \in SUBSET Processes, Stop(S)
        PROVE  Undisturbed(j)
    BY <1>3 DEF Stop, InFlight, call, Undisturbed
  <1>4. CASE UNCHANGED vars
    BY <1>4 DEF vars, call, Undisturbed
  <1> QED BY <1>1, <1>2, <1>3, <1>4

\* Every step of the login with its vault is one of the vault, or none.
LEMMA LoginNextIsNext ==
    ASSUME [LoginNext]_loginVars
    PROVE  [Next]_vars
  <1>1. CASE LoginStep
    <2>1. Save => Begin(Login)
      BY DEF Save
    <2> QED
      BY <1>1, <2>1, LoginAssumption
      DEF LoginStep, CheckLoginUrl, Launch, WaitForAuthenticated, CaptureState, Saved, Close, Next
  <1>2. CASE UserClosesBrowser
    BY <1>2 DEF UserClosesBrowser
  <1>3. CASE \E k \in Calls : OtherBegins(k) \/ VaultStep(k) \/ VaultKeyStep(k)
    BY <1>3 DEF OtherBegins, VaultStep, VaultKeyStep, Next
  <1>4. CASE (\E p \in Processes : ProcessEnds(p)) \/ PowerIsLost
    BY <1>4 DEF ProcessEnds, PowerIsLost, Next
  <1>5. CASE LoginFinished \/ UNCHANGED loginVars
    BY <1>5 DEF LoginFinished, loginVars
  <1> QED BY <1>1, <1>2, <1>3, <1>4, <1>5 DEF LoginNext

\* The steps of the login itself.
LEMMA LoginStepHolds ==
    ASSUME CallsTyped, LoginInv, LoginStep
    PROVE  LoginInv'
  <1>1. CASE CheckLoginUrl \/ Launch \/ WaitForAuthenticated \/ CaptureState
    <2>1. UNCHANGED vars
      BY <1>1 DEF CheckLoginUrl, Launch, WaitForAuthenticated, CaptureState
    <2>2. pc' = pc /\ op' = op /\ answer' = answer
      BY <2>1 DEF vars, call
    <2>3. /\ loginPc \in {"call", "launch", "login", "capture"}
          /\ \/ loginPc' \in {"launch", "login", "capture", "save"}
             \/ loginPc' = "close" /\ result' = InteractiveAuthenticationError
      BY <1>1 DEF CheckLoginUrl, Launch, WaitForAuthenticated, CaptureState, Leave
    <2> QED BY <2>2, <2>3 DEF LoginInv
  <1>2. CASE Save
    BY <1>2 DEF Save, LoginInv
  <1>3. CASE Saved
    <2>1. pc' = pc /\ op' = op /\ answer' = answer
      BY <1>3 DEF Saved, vars, call
    <2> QED BY <1>3, <2>1 DEF Saved, Leave, LoginInv
  <1>4. CASE Close
    <2>1. pc' = pc /\ op' = op /\ answer' = answer
      BY <1>4 DEF Close, vars, call
    <2> QED BY <1>4, <2>1 DEF Close, LoginInv
  <1> QED BY <1>1, <1>2, <1>3, <1>4 DEF LoginStep

\* The steps that are not the login's.
LEMMA LoginUndisturbed ==
    ASSUME LoginInv, Undisturbed(Login), result' = result,
           loginPc' = loginPc \/ loginPc' = "crashed"
    PROVE  LoginInv'
  BY DEF LoginInv, Undisturbed

\* The login's invariant holds with the vault's.
LEMMA LoginNextHolds ==
    ASSUME VaultInv, LoginInv, [LoginNext]_loginVars
    PROVE  LoginInv'
  <1>0. CallsTyped /\ Login \in Calls
    BY LoginAssumption DEF VaultInv, Typed
  <1>1. CASE LoginStep
    BY <1>0, <1>1, LoginStepHolds
  <1>2. CASE UserClosesBrowser
    <2>1. Undisturbed(Login)
      BY <1>0, <1>2, OthersDisturb DEF UserClosesBrowser
    <2> QED BY <1>2, <2>1, LoginUndisturbed DEF UserClosesBrowser
  <1>3. ASSUME NEW k \in Calls, OtherBegins(k)
        PROVE  LoginInv'
    <2>1. CASE k # Login
      <3>1. Undisturbed(Login)
        BY <1>0, <1>3, <2>1, OthersDisturb DEF OtherBegins
      <3> QED BY <1>3, <3>1, LoginUndisturbed DEF OtherBegins, login
    <2>2. CASE loginPc = "none"
      BY <1>3, <2>2 DEF OtherBegins, login, LoginInv
    <2> QED BY <1>3, <2>1, <2>2 DEF OtherBegins
  <1>4. ASSUME NEW k \in Calls, VaultStep(k) \/ VaultKeyStep(k)
        PROVE  LoginInv'
    <2>1. Undisturbed(Login)
      BY <1>0, <1>4, StepDisturbs, OthersDisturb DEF VaultStep, VaultKeyStep
    <2> QED BY <1>4, <2>1, LoginUndisturbed DEF VaultStep, VaultKeyStep, login
  <1>5. ASSUME NEW S \in SUBSET Processes, Stop(S), LoginStops(S)
        PROVE  LoginInv'
    <2>1. Undisturbed(Login)
      BY <1>0, <1>5, OthersDisturb
    <2> QED BY <1>5, <2>1, LoginUndisturbed DEF LoginStops
  <1>6. CASE LoginFinished \/ UNCHANGED loginVars
    <2>1. Undisturbed(Login)
      BY <1>0, <1>6, OthersDisturb DEF LoginFinished, loginVars
    <2> QED BY <1>6, <2>1, LoginUndisturbed DEF LoginFinished, loginVars, login
  <1>7. ASSUME NEW p \in Processes, ProcessEnds(p)
        PROVE  LoginInv'
    BY <1>5, <1>7 DEF ProcessEnds, ProcessCrash
  <1>8. CASE PowerIsLost
    BY <1>5, <1>8 DEF PowerIsLost, PowerLoss
  <1> QED BY <1>1, <1>2, <1>3, <1>4, <1>6, <1>7, <1>8 DEF LoginNext

\* Both invariants hold in every state of the vault with a login.
THEOREM LoginInvariant == LoginSpec => [](VaultInv /\ LoginInv)
  <1>1. LoginInit => VaultInv /\ LoginInv
    BY VaultInit, LoginAssumption DEF LoginInit, Init, LoginInv
  <1>2. VaultInv /\ LoginInv /\ [LoginNext]_loginVars => VaultInv' /\ LoginInv'
    BY VaultNext, LoginNextIsNext, LoginNextHolds
  <1> QED BY <1>1, <1>2, PTL DEF LoginSpec

\* What is stored is what is on the disk.
LEMMA StoredIsOnDisk ==
    ASSUME Typed, NEW v \in Stored
    PROVE  \E f \in OnDisk : f \in Contents /\ v = ValueOf(f)
  BY DEF Stored, OnDisk, Typed, StorageTyped

\* An answered login tells what became of the stored session.
LEMMA LoginTells ==
    ASSUME VaultInv, LoginInv
    PROVE  AnswerTellsSession
  <1> SUFFICES ASSUME loginPc = "done"
               PROVE  FailureStoresNothing /\ SuccessReplaces
    BY DEF AnswerTellsSession
  <1>1. /\ Typed /\ DiskInv /\ AckInv /\ PlaceInv(Login) /\ Login \in Calls /\ Login # Earlier
        /\ place[Login] \in Nat
    BY LoginAssumption, CallNames, CallsCounted DEF VaultInv, Typed, CountsTyped
  <1>3. \/ result = InteractiveAuthenticationError /\ pc[Login] = "idle"
        \/ /\ pc[Login] = "done" /\ op[Login] = "save"
           /\ result = IF answer[Login] = "saved" THEN "authenticated" ELSE answer[Login]
    BY DEF LoginInv
  <1>4. FailureStoresNothing
    <2> SUFFICES ASSUME result \notin {None, "authenticated", "SESSION_WRITE_FAILED"},
                        NEW v \in Stored, v.kind = "session", v.login = Login
                 PROVE  FALSE
      BY DEF FailureStoresNothing
    <2>1. PICK f \in OnDisk : f \in Contents /\ v = ValueOf(f)
      BY <1>1, StoredIsOnDisk
    <2>2. f.kind = "session" /\ f.login = Login
      BY <2>1, ValuesTell
    <2>3. place[Login] > 0
      BY <1>1, <2>2 DEF DiskInv, Written
    <2>4. place[Login] > 0 => pc[Login] # "idle" /\
            (pc[Login] = "done" /\ op[Login] = "save" =>
               answer[Login] \in {"saved", "SESSION_WRITE_FAILED"})
      BY <1>1 DEF PlaceInv
    <2> QED BY <1>3, <2>3, <2>4
  <1>5. SuccessReplaces
    <2> SUFFICES ASSUME result = "authenticated", place[Login] <= acked
                 PROVE  /\ ValueOf(file) # ValueOf(EarlierSession)
                        /\ platform # "win32" => ValueOf(EarlierSession) \notin Stored
      BY DEF SuccessReplaces
    <2>1. answer[Login] = "saved"
      <3>1. answer[Login] \in Answers \cup {None}
        BY <1>1 DEF Typed, CallsTyped
      <3>2. "authenticated" \notin Answers \cup {None}
        BY DEF Answers, None
      <3> QED BY <1>3, <3>1, <3>2 DEF InteractiveAuthenticationError
    <2>2. acked > 0 /\ acked \in Nat
      BY <1>1, <2>1, CallsCounted DEF PlaceInv, Typed, CountsTyped
    <2>3. ASSUME NEW f \in OnDisk, f \in Contents, f.kind = "session" => f.place >= acked
          PROVE  ValueOf(f) # ValueOf(EarlierSession)
      <3> SUFFICES ASSUME ValueOf(f) = ValueOf(EarlierSession) PROVE FALSE
        OBVIOUS
      <3>1. ValueOf(EarlierSession) = [kind |-> "session", login |-> Earlier, marked |-> FALSE]
        BY DEF ValueOf, EarlierSession
      <3>2. ValueOf(f).kind = "session"
        BY <3>1
      <3>3. /\ f.kind = "session"
            /\ ValueOf(f) = [kind |-> "session", login |-> f.login, marked |-> f.marked]
        BY <2>3, <3>2, ValuesTell
      <3>4. [kind |-> "session", login |-> f.login, marked |-> f.marked]
              = [kind |-> "session", login |-> Earlier, marked |-> FALSE]
        BY <3>1, <3>3
      <3>5. f.login = Earlier
        BY <3>4
      <3>6. f.marked = FALSE
        BY <3>4
      <3>7. f.place \in Nat /\ f.place > 0
        BY <2>2, <2>3, <3>3, ContentKinds, CallsCounted
      <3> QED BY <1>1, <3>3, <3>5, <3>6, <3>7 DEF DiskInv
    <2>4. ValueOf(file) # ValueOf(EarlierSession)
      BY <1>1, <2>2, <2>3 DEF AckInv, OnDisk, Typed, StorageTyped
    <2>5. ASSUME platform # "win32", ValueOf(EarlierSession) \in Stored
          PROVE  FALSE
      <3>1. PICK f \in OnDisk : f \in Contents /\ ValueOf(EarlierSession) = ValueOf(f)
        BY <1>1, <2>5, StoredIsOnDisk
      <3> QED BY <1>1, <2>2, <2>3, <2>5, <3>1 DEF AckInv
    <2> QED BY <2>4, <2>5
  <1> QED BY <1>4, <1>5

\* When the caller of authenticateInteractively has its answer, a failure has stored
\* nothing and a success has replaced the session that was there before, whatever the
\* other calls and crashes do, and a loss of power that the write was to survive.
THEOREM LoginAnswer == LoginSpec => []AnswerTellsSession
  BY LoginInvariant, LoginTells, PTL
====
