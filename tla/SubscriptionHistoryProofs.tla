---- MODULE SubscriptionHistoryProofs ----
(***************************************************************************)
(* Proofs about SubscriptionHistory, for any repositories and calls.  The  *)
(* invariant of the tables is kept by every step, since a step is a        *)
(* transaction or leaves the tables alone; to it comes, per call, what the *)
(* call has done by the place where it is suspended.                       *)
(***************************************************************************)
EXTENDS SubscriptionHistory, HistoryTablesProofs

\* What a call that got through its SQL has committed.
EffectFits(k) ==
    /\ method[k] = "write" => effect[k] \in recorded
    /\ method[k] = "prune" => effect[k] \in [before : Int]
    /\ method[k] \in {"read", "close"} => effect[k] = NoRow

\* A failure after a commit has a reason.
FailureFits(k) ==
    answer[k] \in FailureCodes /\ effect[k] # NoRow =>
        k \in faults \/ \A r \in Repositories : ~connected[r]

CallInv(k) ==
    /\ pc[k] = "idle" => effect[k] = NoRow /\ answer[k] = "none" /\ method[k] = "none"
    /\ pc[k] \in {"lstat", "chmod"} =>
         answer[k] = "none" /\ method[k] \in Methods /\ EffectFits(k)
    /\ answer[k] = "ok" => EffectFits(k)
    /\ answer[k] \in {"INVALID_INPUT", "DATABASE_CLOSED"} => effect[k] = NoRow
    /\ method[k] \in {"read", "close"} => effect[k] = NoRow
    /\ method[k] = "close" => repo[k] \in Repositories /\ closed[repo[k]]
    /\ pc[k] = "chmod" => sidecarSuffixes[suffix[k]] # "-journal"
    /\ FailureFits(k)

CallsInv == \A k \in Calls : CallInv(k)

\* The WAL files are there while a connection is.
FilesOfConnections == ~sidecars => \A r \in Repositories : ~connected[r]

AllInv == HistoryTypeOK /\ HistoryInv /\ FilesOfConnections /\ CallsInv

----
\* HistoryTypeOK in three parts, that of the connections with what is known of them.
ConnectionsInv ==
    /\ FilesOfConnections
    /\ closed \in [Repositories -> BOOLEAN]
    /\ connected \in [Repositories -> BOOLEAN]
    /\ sidecars \in BOOLEAN

Effects == recorded \cup {NoRow} \cup [before : Int]
Answers == FailureCodes \cup {"none", "ok", "INVALID_INPUT", "DATABASE_CLOSED"}

CallsTyped ==
    /\ pc \in [Calls -> {"idle", "lstat", "chmod", "done"}]
    /\ repo \in [Calls -> Repositories \cup {"none"}]
    /\ suffix \in [Calls -> 1 .. Len(sidecarSuffixes)]
    /\ method \in [Calls -> Methods \cup {"none"}]
    /\ effect \in [Calls -> Effects]
    /\ faults \subseteq Calls
    /\ answer \in [Calls -> Answers]

\* The three parts make up HistoryTypeOK.
LEMMA TypesInParts ==
    HistoryTypeOK /\ FilesOfConnections <=> TypeOK /\ ConnectionsInv /\ CallsTyped
  BY DEF HistoryTypeOK, ConnectionsInv, CallsTyped, Effects, Answers

\* A failure code is neither a success nor a refusal.
LEMMA FailureCodesAreFailures ==
    ASSUME NEW m \in Methods
    PROVE  /\ FailureCode[m] \in FailureCodes
           /\ FailureCode[m] \notin {"none", "ok", "INVALID_INPUT", "DATABASE_CLOSED"}
  BY DEF FailureCode, FailureCodes

\* Only call k takes a step.
Only(k) ==
    \A j \in Calls \ {k} :
        /\ pc'[j] = pc[j] /\ method'[j] = method[j] /\ repo'[j] = repo[j]
        /\ suffix'[j] = suffix[j] /\ effect'[j] = effect[j] /\ answer'[j] = answer[j]

\* What is closed stays closed, and faults are not forgotten.
Advances ==
    /\ faults \subseteq faults'
    /\ \A r \in Repositories : (closed[r] => closed'[r]) /\ (connected'[r] => connected[r])

\* What a step of call k does to the calls: it keeps the types, the other calls and
\* what CallInv says of k.
CallSteps(k) ==
    /\ CallsTyped' /\ ConnectionsInv'
    /\ Only(k)
    /\ CallInv(k)'
    /\ Advances

\* What beginning a call changes.
LEMMA BeginTypes ==
    ASSUME CallsTyped, NEW k \in Calls, NEW r \in Repositories, NEW m \in Methods,
           Begin(k, r, m)
    PROVE  /\ pc[k] = "idle"
           /\ repo' \in [Calls -> Repositories \cup {"none"}] /\ repo'[k] = r
           /\ method' \in [Calls -> Methods \cup {"none"}] /\ method'[k] = m
           /\ \A j \in Calls \ {k} : method'[j] = method[j] /\ repo'[j] = repo[j]
  BY DEF Begin, CallsTyped

\* What answering a call changes.
LEMMA AnswerTypes ==
    ASSUME CallsTyped, NEW k \in Calls, NEW a \in Answers, Answer(k, a)
    PROVE  /\ pc' \in [Calls -> {"idle", "lstat", "chmod", "done"}] /\ pc'[k] = "done"
           /\ answer' \in [Calls -> Answers] /\ answer'[k] = a
           /\ \A j \in Calls \ {k} : pc'[j] = pc[j] /\ answer'[j] = answer[j]
  BY DEF Answer, CallsTyped

\* What suspending a call changes.
LEMMA StartTypes ==
    ASSUME CallsTyped, NEW k \in Calls, StartRestricting(k)
    PROVE  /\ pc' \in [Calls -> {"idle", "lstat", "chmod", "done"}] /\ pc'[k] = "lstat"
           /\ answer' = answer /\ suffix' = suffix
           /\ \A j \in Calls \ {k} : pc'[j] = pc[j]
  BY DEF StartRestricting, CallsTyped

\* Effects stay effects, as recorded checks are never forgotten.
LEMMA EffectsGrow ==
    ASSUME CallsTyped, recorded \subseteq recorded', NEW k \in Calls,
           NEW e \in Effects',
           effect' = effect \/ effect' = [effect EXCEPT ![k] = e]
    PROVE  effect' \in [Calls -> Effects']
  BY DEF CallsTyped, Effects

\* A call that does not get as far as its SQL, or whose SQL is rolled back, changes
\* nothing and answers at once.
LEMMA TurnedAway ==
    ASSUME CallsTyped, ConnectionsInv, CallsInv,
           NEW k \in Calls, NEW r \in Repositories, NEW m \in {"read", "write", "prune"},
           NEW a \in Answers \ {"ok", "none"}, Begin(k, r, m), Answer(k, a),
           UNCHANGED <<tables, connections, suffix, effect, faults>>
    PROVE  CallSteps(k)
  <1>0. m \in Methods /\ a \in Answers /\ a # "ok"
    BY DEF Methods
  <1>1. /\ pc[k] = "idle" /\ pc'[k] = "done" /\ answer'[k] = a /\ method'[k] = m
        /\ effect' = effect /\ suffix' = suffix /\ recorded' = recorded /\ faults' = faults
    BY <1>0, BeginTypes, AnswerTypes DEF tables
  <1>2. CallsTyped'
    BY <1>0, <1>1, BeginTypes, AnswerTypes DEF CallsTyped, Effects, Answers
  <1>3. ConnectionsInv' /\ Advances
    BY DEF ConnectionsInv, FilesOfConnections, connections, Advances
  <1>4. Only(k)
    BY <1>0, <1>1, BeginTypes, AnswerTypes DEF Only
  <1>5. effect'[k] = NoRow
    BY <1>1 DEF CallsInv, CallInv
  <1>6. CallInv(k)'
    BY <1>0, <1>1, <1>5 DEF CallInv, FailureFits
  <1> QED BY <1>2, <1>3, <1>4, <1>6 DEF CallSteps

\* A call that got through its SQL is suspended.
LEMMA Suspended ==
    ASSUME CallsTyped, CallsInv, ConnectionsInv', recorded \subseteq recorded',
           Advances, UNCHANGED faults,
           NEW k \in Calls, NEW r \in Repositories, NEW m \in Methods,
           m = "close" => closed'[r],
           Begin(k, r, m), StartRestricting(k), NEW e \in Effects',
           IF m = "write" THEN e \in recorded'
           ELSE IF m = "prune" THEN e \in [before : Int] ELSE e = NoRow,
           effect' = [effect EXCEPT ![k] = e]
    PROVE  CallSteps(k)
  <1>1. /\ pc[k] = "idle" /\ pc'[k] = "lstat" /\ method'[k] = m /\ repo'[k] = r
        /\ answer' = answer /\ suffix' = suffix
    BY BeginTypes, StartTypes
  <1>2. effect'[k] = e /\ \A j \in Calls \ {k} : effect'[j] = effect[j]
    BY DEF CallsTyped
  <1>3. effect[k] = NoRow /\ answer[k] = "none"
    BY <1>1 DEF CallsInv, CallInv
  <1>4. CallsTyped'
    <2>1. effect' \in [Calls -> Effects']
      BY EffectsGrow
    <2> QED BY <1>1, <2>1, BeginTypes, StartTypes DEF CallsTyped, Answers
  <1>5. Only(k)
    BY <1>1, <1>2, BeginTypes, StartTypes DEF Only
  <1>6. EffectFits(k)'
    BY <1>1, <1>2 DEF EffectFits, Methods
  <1>7. FailureFits(k)'
    BY <1>1, <1>3, FailureCodesAreFailures DEF FailureFits, FailureCodes
  <1>8. CallInv(k)'
    BY <1>1, <1>2, <1>3, <1>6, <1>7 DEF CallInv, Methods
  <1> QED BY <1>4, <1>5, <1>8 DEF CallSteps

----
(* The operations *)

\* A transaction adds to the recorded checks, if anything.
LEMMA RecordedNeverForgets ==
    ASSUME [Transaction]_tables
    PROVE  recorded \subseteq recorded'
  <1>1. CASE UNCHANGED tables
    BY <1>1 DEF tables
  <1>2. ASSUME NEW a \in Accounts, NEW t \in Times, NEW plan \in Plans,
               RecordSuccessfulCheck(a, t, plan)
        PROVE  recorded \subseteq recorded'
    BY <1>2 DEF RecordSuccessfulCheck, Commit
  <1>3. ASSUME NEW a \in Accounts, NEW t \in Times,
               NEW outcome \in Outcomes \ {"success"}, RecordFailedCheck(a, t, outcome)
        PROVE  recorded \subseteq recorded'
    BY <1>3 DEF RecordFailedCheck, Commit
  <1>4. ASSUME NEW t \in Int, PruneCheckHistory(t)
        PROVE  recorded \subseteq recorded'
    BY <1>4 DEF PruneCheckHistory
  <1> QED BY <1>1, <1>2, <1>3, <1>4, TimesAssumption DEF Transaction, PruneCheckHistory

\* A read changes nothing but its call.
LEMMA ReadHolds ==
    ASSUME CallsTyped, ConnectionsInv, CallsInv,
           NEW k \in Calls, NEW r \in Repositories, Read(k, r)
    PROVE  CallSteps(k) /\ UNCHANGED tables
  <1>1. Usable(r) /\ Begin(k, r, "read") /\ StartRestricting(k)
        /\ effect' = effect /\ UNCHANGED tables /\ recorded' = recorded
    BY DEF Read, tables
  <1>2. "read" \in Methods /\ NoRow \in Effects' /\ ConnectionsInv'
    BY DEF Methods, Effects, ConnectionsInv, FilesOfConnections, Read, connections
  <1>3. effect[k] = NoRow
    BY <1>1 DEF Begin, CallsInv, CallInv
  <1>4. effect' = [effect EXCEPT ![k] = NoRow]
    BY <1>1, <1>3 DEF CallsTyped
  <1>5. Advances /\ faults' = faults
    BY DEF Advances, Read, connections
  <1>6. CallSteps(k)
    BY <1>1, <1>2, <1>4, <1>5, Suspended
  <1> QED BY <1>1, <1>6

\* A write commits one check, which is its effect.
LEMMA WriteHolds ==
    ASSUME CallsTyped, ConnectionsInv, CallsInv,
           NEW k \in Calls, NEW r \in Repositories, Write(k, r)
    PROVE  CallSteps(k) /\ Transaction
  <1>1. Transaction
    BY DEF Write, Transaction
  <1>2. recorded \subseteq recorded'
    BY <1>1, RecordedNeverForgets
  <1>3. PICK check \in recorded' \ recorded : effect' = [effect EXCEPT ![k] = check]
    BY DEF Write
  <1>4. Usable(r) /\ Begin(k, r, "write") /\ StartRestricting(k)
    BY DEF Write
  <1>5. "write" \in Methods /\ check \in Effects' /\ ConnectionsInv'
    BY DEF Methods, Effects, ConnectionsInv, FilesOfConnections, Write, connections
  <1>6. Advances /\ faults' = faults
    BY DEF Advances, Write, connections
  <1>7. CallSteps(k)
    BY <1>2, <1>3, <1>4, <1>5, <1>6, Suspended
  <1> QED BY <1>1, <1>7

\* A prune has its effect even when the checkpoint after it throws.
LEMMA PruneCallHolds ==
    ASSUME CallsTyped, ConnectionsInv, CallsInv,
           NEW k \in Calls, NEW r \in Repositories, Prune(k, r)
    PROVE  CallSteps(k) /\ Transaction
  <1>1. PICK t \in Times \cup {u + 1 : u \in Times} :
            PruneCheckHistory(t) /\ effect' = [effect EXCEPT ![k] = [before |-> t]]
    BY DEF Prune
  <1>2. t \in Int
    <2>1. CASE t \in Times
      BY <2>1, TimesAssumption
    <2>2. CASE t \in {u + 1 : u \in Times}
      <3>1. PICK u \in Times : t = u + 1
        BY <2>2
      <3>2. u \in Int
        BY TimesAssumption
      <3> QED BY <3>1, <3>2
    <2> QED BY <2>1, <2>2
  <1>3. Transaction
    BY <1>1 DEF Transaction
  <1>4. recorded' = recorded
    BY <1>1 DEF PruneCheckHistory
  <1>5. Usable(r) /\ Begin(k, r, "prune")
    BY DEF Prune
  <1>6. "prune" \in Methods /\ [before |-> t] \in [before : Int]
        /\ [before |-> t] \in Effects' /\ ConnectionsInv'
    BY <1>2 DEF Methods, Effects, ConnectionsInv, FilesOfConnections, Prune, connections
  <1>7. CASE StartRestricting(k) /\ UNCHANGED faults
    <2>1. Advances
      BY <1>7 DEF Advances, Prune, connections
    <2>2. CallSteps(k)
      BY <1>1, <1>4, <1>5, <1>6, <1>7, <2>1, Suspended
    <2> QED BY <1>3, <2>2
  <1>8. CASE Answer(k, "DATABASE_PRUNE_FAILED") /\ faults' = faults \cup {k} /\ UNCHANGED suffix
    <2>1. "DATABASE_PRUNE_FAILED" \in Answers
      BY DEF Answers, FailureCodes, FailureCode, Methods
    <2>2. /\ pc'[k] = "done" /\ method'[k] = "prune" /\ repo'[k] = r
          /\ answer'[k] = "DATABASE_PRUNE_FAILED"
      BY <1>5, <1>6, <1>8, <2>1, BeginTypes, AnswerTypes
    <2>3. \A j \in Calls \ {k} : effect'[j] = effect[j]
      BY <1>1 DEF CallsTyped
    <2>4. CallsTyped'
      <3>1. effect' \in [Calls -> Effects']
        BY <1>1, <1>4, <1>6, EffectsGrow
      <3> QED BY <1>5, <1>6, <1>8, <2>1, <3>1, BeginTypes, AnswerTypes DEF CallsTyped
    <2>5. Only(k)
      BY <1>5, <1>6, <1>8, <2>1, <2>3, BeginTypes, AnswerTypes DEF Only
    <2>6. CallInv(k)'
      BY <1>8, <2>2 DEF CallInv, FailureFits
    <2>7. Advances
      BY <1>8 DEF Advances, Prune, connections
    <2> QED BY <1>3, <1>6, <2>4, <2>5, <2>6, <2>7 DEF CallSteps
  <1> QED BY <1>7, <1>8 DEF Prune

\* Closing has no effect on the tables, whether the checkpoint throws or not.
LEMMA CloseHolds ==
    ASSUME CallsTyped, ConnectionsInv, CallsInv,
           NEW k \in Calls, NEW r \in Repositories, Close(k, r)
    PROVE  CallSteps(k) /\ UNCHANGED tables
  <1>1. /\ Begin(k, r, "close") /\ UNCHANGED tables /\ effect' = effect
        /\ recorded' = recorded /\ faults' = faults
    BY DEF Close, tables
  <1>2. "close" \in Methods /\ NoRow \in Effects'
    BY DEF Methods, Effects
  <1>3. effect[k] = NoRow
    BY <1>1 DEF Begin, CallsInv, CallInv
  <1>4. ConnectionsInv' /\ Advances /\ closed'[r]
    <2>1. CASE UNCHANGED connections /\ closed[r]
      BY <1>1, <2>1 DEF ConnectionsInv, FilesOfConnections, connections, Advances
    <2>2. CASE /\ closed' = [closed EXCEPT ![r] = TRUE]
               /\ connected' = [connected EXCEPT ![r] = FALSE]
               /\ sidecars' = \E s \in Repositories \ {r} : connected[s]
      BY <1>1, <2>2 DEF ConnectionsInv, FilesOfConnections, Advances
    <2>3. CASE closed' = [closed EXCEPT ![r] = TRUE] /\ UNCHANGED <<connected, sidecars>>
      BY <1>1, <2>3 DEF ConnectionsInv, FilesOfConnections, Advances
    <2> QED BY <2>1, <2>2, <2>3 DEF Close
  <1>5. CASE StartRestricting(k)
    <2>1. effect' = [effect EXCEPT ![k] = NoRow]
      BY <1>1, <1>3 DEF CallsTyped
    <2>2. CallSteps(k)
      BY <1>1, <1>2, <1>4, <1>5, <2>1, Suspended
    <2> QED BY <1>1, <2>2
  <1>6. ASSUME NEW a \in {"ok", "DATABASE_WRITE_FAILED"}, Answer(k, a), UNCHANGED suffix
        PROVE  CallSteps(k)
    <2>1. a \in Answers
      BY DEF Answers, FailureCodes, FailureCode, Methods
    <2>2. pc'[k] = "done" /\ method'[k] = "close" /\ answer'[k] = a /\ repo'[k] = r
      BY <1>1, <1>2, <1>6, <2>1, BeginTypes, AnswerTypes
    <2>3. CallsTyped'
      BY <1>1, <1>2, <1>6, <2>1, BeginTypes, AnswerTypes DEF CallsTyped, Effects
    <2>4. Only(k)
      BY <1>1, <1>2, <1>6, <2>1, BeginTypes, AnswerTypes DEF Only
    <2>5. EffectFits(k)' /\ CallInv(k)'
      BY <1>1, <1>3, <1>4, <2>2 DEF CallInv, EffectFits, FailureFits
    <2> QED BY <1>1, <1>4, <2>3, <2>4, <2>5 DEF CallSteps
  <1>7. CASE Answer(k, "ok") /\ UNCHANGED suffix
    BY <1>1, <1>6, <1>7
  <1>8. CASE Answer(k, "DATABASE_WRITE_FAILED") /\ UNCHANGED suffix
    BY <1>1, <1>6, <1>8
  <1> QED BY <1>5, <1>7, <1>8 DEF Close

\* A call that is refused, or whose SQL fails, leaves the tables alone.
LEMMA RefusalsHold ==
    ASSUME CallsTyped, ConnectionsInv, CallsInv, NEW k \in Calls, NEW r \in Repositories,
           RefuseInput(k, r) \/ RefuseClosed(k, r) \/ OperationFails(k, r)
    PROVE  CallSteps(k) /\ UNCHANGED tables
  <1>1. UNCHANGED <<tables, connections, suffix, effect, faults>>
    BY DEF RefuseInput, RefuseClosed, OperationFails
  <1>2. PICK m \in {"read", "write", "prune"}, a \in Answers \ {"ok", "none"} :
            Begin(k, r, m) /\ Answer(k, a)
    <2>1. CASE RefuseInput(k, r)
      BY <2>1 DEF RefuseInput, Answers
    <2>2. CASE RefuseClosed(k, r)
      BY <2>2 DEF RefuseClosed, Answers
    <2>3. CASE OperationFails(k, r)
      BY <2>3, FailureCodesAreFailures DEF OperationFails, Answers, Methods
    <2> QED BY <2>1, <2>2, <2>3
  <1>3. CallSteps(k)
    BY <1>1, <1>2, TurnedAway
  <1> QED BY <1>1, <1>3

----
(* The files of a call that is suspended *)

\* The loop over the files goes on, or the call answers, or fails.
LEMMA RestrictingHolds ==
    ASSUME CallsTyped, ConnectionsInv, CallsInv,
           NEW k \in Calls, LookAtFile(k) \/ RestrictFile(k) \/ FileFails(k)
    PROVE  CallSteps(k) /\ UNCHANGED tables
  <1>1. /\ pc[k] \in {"lstat", "chmod"} /\ UNCHANGED <<tables, connections, repo, method, effect>>
        /\ recorded' = recorded
    BY DEF LookAtFile, RestrictFile, FileFails, tables
  <1>2. /\ method[k] \in Methods /\ EffectFits(k) /\ answer[k] = "none"
        /\ method[k] \in {"read", "close"} => effect[k] = NoRow
        /\ method[k] = "close" => repo[k] \in Repositories /\ closed[repo[k]]
    BY <1>1 DEF CallsInv, CallInv
  <1>3. ConnectionsInv' /\ Advances /\ faults' \subseteq Calls
    BY <1>1 DEF ConnectionsInv, FilesOfConnections, connections, Advances, CallsTyped,
                LookAtFile, RestrictFile, FileFails
  <1>4. EffectFits(k)'
    BY <1>1, <1>2 DEF EffectFits
  <1>5. CASE /\ answer' = answer
             /\ \E p \in {"lstat", "chmod"} : pc' = [pc EXCEPT ![k] = p]
             /\ suffix' \in [Calls -> 1 .. Len(sidecarSuffixes)]
             /\ \A j \in Calls \ {k} : suffix'[j] = suffix[j]
             /\ pc'[k] = "chmod" => sidecarSuffixes[suffix'[k]] # "-journal"
    <2>1. pc'[k] \in {"lstat", "chmod"} /\ \A j \in Calls \ {k} : pc'[j] = pc[j]
      BY <1>5 DEF CallsTyped
    <2>2. CallsTyped'
      BY <1>1, <1>3, <1>5 DEF CallsTyped, Effects
    <2>3. Only(k)
      BY <1>1, <1>5, <2>1 DEF Only
    <2>4. CallInv(k)'
      BY <1>1, <1>2, <1>3, <1>4, <1>5, <2>1, FailureCodesAreFailures
      DEF CallInv, FailureFits, FailureCodes, connections
    <2> QED BY <1>1, <1>3, <2>2, <2>3, <2>4 DEF CallSteps
  <1>6. ASSUME NEW a \in {"ok"} \cup FailureCodes, Answer(k, a), UNCHANGED suffix,
               a = "ok" \/ k \in faults' \/ \A i \in Repositories : ~connected[i]
        PROVE  CallSteps(k) /\ UNCHANGED tables
    <2>1. a \in Answers /\ a \notin {"none", "INVALID_INPUT", "DATABASE_CLOSED"}
      BY FailureCodesAreFailures DEF Answers, FailureCodes
    <2>2. pc'[k] = "done" /\ answer'[k] = a
      BY <1>6, <2>1, AnswerTypes
    <2>3. CallsTyped'
      BY <1>1, <1>3, <1>6, <2>1, AnswerTypes DEF CallsTyped, Effects
    <2>4. Only(k)
      BY <1>1, <1>6, <2>1, AnswerTypes DEF Only
    <2>5. CallInv(k)'
      <3>1. FailureFits(k)'
        BY <1>1, <1>6, <2>2, FailureCodesAreFailures
        DEF FailureFits, FailureCodes, connections
      <3> QED BY <1>1, <1>2, <1>4, <2>1, <2>2, <3>1 DEF CallInv, connections
    <2> QED BY <1>1, <1>3, <2>3, <2>4, <2>5 DEF CallSteps
  <1>7. ASSUME NextFile(k)
        PROVE  CallSteps(k) /\ UNCHANGED tables
    <2>1. CASE suffix[k] = Len(sidecarSuffixes)
      BY <1>6, <1>7, <2>1 DEF NextFile
    <2>2. CASE suffix[k] # Len(sidecarSuffixes)
      <3>1. suffix' = [suffix EXCEPT ![k] = @ + 1] /\ answer' = answer
            /\ pc' = [pc EXCEPT ![k] = "lstat"]
        BY <1>7, <2>2 DEF NextFile
      <3>2. suffix[k] \in 1 .. Len(sidecarSuffixes) /\ Len(sidecarSuffixes) \in Nat
        BY DEF CallsTyped, sidecarSuffixes
      <3>3. suffix[k] + 1 \in 1 .. Len(sidecarSuffixes)
        BY <2>2, <3>2
      <3>4. suffix' \in [Calls -> 1 .. Len(sidecarSuffixes)]
        BY <3>1, <3>3 DEF CallsTyped
      <3>5. pc'[k] = "lstat" /\ \A j \in Calls \ {k} : suffix'[j] = suffix[j]
        BY <3>1 DEF CallsTyped
      <3> QED BY <1>1, <1>5, <3>1, <3>4, <3>5
    <2> QED BY <2>1, <2>2
  <1>8. FailureCode[method[k]] \in FailureCodes
    BY <1>2, FailureCodesAreFailures
  <1>9. CASE LookAtFile(k)
    <2>1. CASE NextFile(k)
      BY <1>7, <2>1
    <2>2. CASE pc' = [pc EXCEPT ![k] = "chmod"] /\ UNCHANGED <<suffix, answer>>
      <3>1. suffix' \in [Calls -> 1 .. Len(sidecarSuffixes)] /\ answer' = answer
            /\ suffix' = suffix
        BY <2>2 DEF CallsTyped
      <3>2. CASE FileExists(suffix[k])
        <4>1. sidecarSuffixes[suffix[k]] # "-journal"
          BY <3>2 DEF FileExists
        <4> QED BY <1>1, <1>5, <2>2, <3>1, <4>1
      <3>3. CASE ~FileExists(suffix[k])
        BY <1>7, <1>9, <3>3 DEF LookAtFile
      <3> QED BY <3>2, <3>3
    <2> QED BY <1>9, <2>1, <2>2 DEF LookAtFile
  <1>10. CASE RestrictFile(k)
    <2>1. CASE FileExists(suffix[k])
      BY <1>7, <1>10, <2>1 DEF RestrictFile
    <2>2. CASE ~FileExists(suffix[k])
      <3>1. pc[k] = "chmod" /\ sidecarSuffixes[suffix[k]] # "-journal"
        BY <1>10 DEF RestrictFile, CallsInv, CallInv
      <3>2. suffix[k] \in {1, 2, 3, 4}
        BY DEF CallsTyped, sidecarSuffixes
      <3>3. sidecarSuffixes[suffix[k]] \in {"", "-wal", "-shm", "-journal"}
        <4>1. /\ sidecarSuffixes[1] = "" /\ sidecarSuffixes[2] = "-wal"
              /\ sidecarSuffixes[3] = "-shm" /\ sidecarSuffixes[4] = "-journal"
          BY DEF sidecarSuffixes
        <4> QED BY <3>2, <4>1
      <3>4. ~sidecars
        BY <2>2, <3>1, <3>3 DEF FileExists
      <3>5. \A i \in Repositories : ~connected[i]
        BY <3>4 DEF ConnectionsInv, FilesOfConnections
      <3> QED BY <1>6, <1>8, <1>10, <2>2, <3>5 DEF RestrictFile
    <2> QED BY <2>1, <2>2
  <1>11. CASE FileFails(k)
    <2>1. k \in faults' /\ Answer(k, FailureCode[method[k]]) /\ UNCHANGED suffix
      BY <1>11 DEF FileFails
    <2> QED BY <1>6, <1>8, <2>1
  <1> QED BY <1>9, <1>10, <1>11

----
\* Every step of a call is at most one transaction, and does to the calls what
\* CallSteps says.
LEMMA StepsOfCalls ==
    ASSUME CallsTyped, ConnectionsInv, CallsInv, HistoryNext, ~UNCHANGED allvars
    PROVE  [Transaction]_tables /\ \E k \in Calls : CallSteps(k)
  <1>1. ASSUME NEW k \in Calls, NEW r \in Repositories, Operate(k, r)
        PROVE  [Transaction]_tables /\ CallSteps(k)
    BY <1>1, RefusalsHold, ReadHolds, WriteHolds, PruneCallHolds, CloseHolds DEF Operate
  <1>2. ASSUME NEW k \in Calls, LookAtFile(k) \/ RestrictFile(k) \/ FileFails(k)
        PROVE  [Transaction]_tables /\ CallSteps(k)
    BY <1>2, RestrictingHolds
  <1> QED BY <1>1, <1>2 DEF HistoryNext

\* The calls that take no step keep what holds of them: recorded checks stay recorded.
LEMMA OtherCallsKeep ==
    ASSUME recorded \subseteq recorded', Advances, NEW j \in Calls, CallInv(j),
           pc'[j] = pc[j], method'[j] = method[j], repo'[j] = repo[j],
           suffix'[j] = suffix[j], effect'[j] = effect[j], answer'[j] = answer[j]
    PROVE  CallInv(j)'
  <1>1. EffectFits(j) => EffectFits(j)'
    BY DEF EffectFits
  <1>2. FailureFits(j) => FailureFits(j)'
    BY DEF FailureFits, Advances
  <1> QED BY <1>1, <1>2 DEF CallInv, Advances

(***************************************************************************)
(* The invariant holds of every repository and every call, however the     *)
(* calls are interleaved.                                                  *)
(***************************************************************************)
THEOREM CallsInvariant == HistorySpec => []AllInv
<1>1. HistoryInit => AllInv
  <2> SUFFICES ASSUME HistoryInit PROVE AllInv
    OBVIOUS
  <2>1. HistoryInv
    BY InitHolds DEF HistoryInit
  <2>2. ConnectionsInv
    BY DEF HistoryInit, ConnectionsInv, FilesOfConnections
  <2>3. CallsTyped
    BY DEF HistoryInit, CallsTyped, Effects, Answers, sidecarSuffixes
  <2>4. CallsInv
    BY DEF HistoryInit, CallsInv, CallInv, FailureFits
  <2> QED BY <2>1, <2>2, <2>3, <2>4, TypesInParts DEF AllInv, HistoryInv
<1>2. AllInv /\ [HistoryNext]_allvars => AllInv'
  <2> SUFFICES ASSUME AllInv, [HistoryNext]_allvars PROVE AllInv'
    OBVIOUS
  <2>1. HistoryInv /\ CallsTyped /\ ConnectionsInv /\ CallsInv
    BY TypesInParts DEF AllInv
  <2>2. CASE ~UNCHANGED allvars
    <3>1. HistoryNext
      BY <2>2
    <3>2. [Transaction]_tables
      BY <2>1, <2>2, <3>1, StepsOfCalls
    <3>3. PICK k \in Calls : CallSteps(k)
      BY <2>1, <2>2, <3>1, StepsOfCalls
    <3>4. HistoryInv'
      BY <2>1, <3>2, TransactionHolds
    <3>5. recorded \subseteq recorded'
      BY <3>2, RecordedNeverForgets
    <3>6. CallsTyped' /\ ConnectionsInv'
      BY <3>3 DEF CallSteps
    <3>7. \A j \in Calls : CallInv(j)'
      <4> TAKE j \in Calls
      <4>1. CASE j = k
        BY <3>3, <4>1 DEF CallSteps
      <4>2. CASE j # k
        BY <2>1, <3>3, <3>5, <4>2, OtherCallsKeep DEF CallSteps, Only, CallsInv
      <4> QED BY <4>1, <4>2
    <3>8. CallsInv'
      BY <3>7 DEF CallsInv
    <3>9. HistoryTypeOK'
      BY <3>4, <3>6 DEF HistoryInv, HistoryTypeOK, ConnectionsInv, CallsTyped,
                             Effects, Answers
    <3> QED BY <3>4, <3>6, <3>8, <3>9 DEF AllInv, ConnectionsInv
  <2>3. CASE UNCHANGED allvars
    <3>1. UNCHANGED <<tables, connections, calls>>
      BY <2>3 DEF allvars
    <3>2. HistoryInv'
      BY <2>1, <3>1, TransactionHolds
    <3>3. recorded' = recorded
      BY <3>1 DEF tables
    <3>4. ConnectionsInv'
      BY <2>1, <3>1 DEF ConnectionsInv, FilesOfConnections, connections
    <3>5. CallsTyped'
      BY <2>1, <3>1, <3>3 DEF CallsTyped, Effects, calls
    <3>6. CallsInv'
      BY <2>1, <3>1, <3>3 DEF CallsInv, CallInv, EffectFits, FailureFits, calls, connections
    <3>7. HistoryTypeOK'
      BY <3>2, <3>4, <3>5 DEF HistoryInv, HistoryTypeOK, ConnectionsInv, CallsTyped,
                             Effects, Answers
    <3> QED BY <3>2, <3>4, <3>6, <3>7 DEF AllInv, ConnectionsInv
  <2> QED BY <2>2, <2>3
<1> QED BY <1>1, <1>2, PTL DEF HistorySpec

\* The places, methods, effects and answers of calls are those of the code.
THEOREM CallsTypeCorrect == HistorySpec => []HistoryTypeOK
<1>1. AllInv => HistoryTypeOK
  BY DEF AllInv
<1> QED BY <1>1, CallsInvariant, PTL

\* An answer tells what its call did, however many calls on this or another repository
\* ran between the SQL and the answer: a write that succeeds is in the view of outcomes
\* or a newer check is, a refusal has changed nothing, and a closing has closed.
THEOREM AnswersTellEffects == HistorySpec => []AnswerTellsEffect
<1>1. ASSUME AllInv, NEW k \in Calls, effect[k] \in recorded
      PROVE  effect[k] # NoRow /\ accounts[effect[k].account].at >= effect[k].at
  <2> DEFINE a == effect[k].account
  <2>0. TypeOK /\ LatestOutcomeIsNewest
    BY <1>1 DEF AllInv, HistoryInv
  <2>1. effect[k] \in [account : Accounts, at : Times, outcome : Outcomes,
                       plan : Plans \cup {"none"}, seq : 1 .. MaxChecks]
    BY <1>1, <2>0 DEF TypeOK
  <2>2. effect[k] # NoRow
    BY <2>1 DEF NoRow, Outcomes
  <2>3. a \in Accounts /\ effect[k] \in RecordedOf(a)
    BY <1>1, <2>1 DEF RecordedOf
  <2> HIDE DEF a
  <2>4. PICK r \in RecordedOf(a) :
          Newest(r, RecordedOf(a)) /\ accounts[a] = [at |-> r.at, outcome |-> r.outcome]
    BY <2>0, <2>3 DEF LatestOutcomeIsNewest
  <2>5. effect[k].at < r.at \/ effect[k].at = r.at
    BY <2>3, <2>4 DEF Newest
  <2>6. r \in recorded
    BY <2>4 DEF RecordedOf
  <2>7. effect[k].at \in Int /\ r.at \in Int
    BY <1>1, <2>0, <2>6, RecordedTypes
  <2>8. accounts[a].at >= effect[k].at
    BY <2>4, <2>5, <2>7
  <2> QED BY <2>2, <2>8 DEF a
<1>2. [before : Int] \cap {NoRow} = {}
  <2>1. ASSUME NEW e \in [before : Int] PROVE DOMAIN e # DOMAIN NoRow
    BY <2>1 DEF NoRow
  <2> QED BY <2>1
<1>3. AllInv => AnswerTellsEffect
  <2> SUFFICES ASSUME AllInv, NEW k \in Calls
               PROVE  /\ answer[k] = "ok" /\ method[k] = "write" =>
                           /\ effect[k] # NoRow
                           /\ accounts[effect[k].account].at >= effect[k].at
                      /\ answer[k] = "ok" /\ method[k] = "prune" => effect[k] # NoRow
                      /\ answer[k] \in {"INVALID_INPUT", "DATABASE_CLOSED"}
                           => effect[k] = NoRow
                      /\ method[k] \in {"read", "close"} => effect[k] = NoRow
                      /\ answer[k] # "none" /\ method[k] = "close" => closed[repo[k]]
    BY DEF AnswerTellsEffect
  <2>1. CallInv(k)
    BY DEF AllInv, CallsInv
  <2>2. answer[k] = "ok" /\ method[k] = "write" => effect[k] \in recorded
    BY <2>1 DEF CallInv, EffectFits
  <2>3. answer[k] = "ok" /\ method[k] = "prune" => effect[k] \in [before : Int]
    BY <2>1 DEF CallInv, EffectFits
  <2> QED BY <1>1, <1>2, <2>1, <2>2, <2>3 DEF CallInv
<1> QED BY <1>3, CallsInvariant, PTL

\* A committed call is answered by a failure only if a checkpoint or a file failed by
\* itself, or the last connection was closed: closing a repository while another one
\* is open takes no file away from a call that is suspended.
THEOREM FailuresHaveReasons == HistorySpec => []CommittedCallFailsForReason
<1>1. AllInv => CommittedCallFailsForReason
  BY DEF AllInv, CallsInv, CallInv, FailureFits, CommittedCallFailsForReason
<1> QED BY <1>1, CallsInvariant, PTL
====
