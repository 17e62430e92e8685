---- MODULE HistoryTablesProofs ----
(***************************************************************************)
(* Proofs about HistoryTables, for any accounts, plans and instants and    *)
(* any number of checks.  The tables are related to the ghost recorded,    *)
(* which never forgets a check: a row that is still there is one of the    *)
(* recorded checks, and pruning removes the checks of an instant together. *)
(***************************************************************************)
EXTENDS HistoryTables, FiniteSetTheorems, TLAPS

\* The recorded check that row i stands for.
AsRecorded(i) ==
    [account |-> checks[i].account, at |-> checks[i].at, outcome |-> checks[i].outcome,
     plan |-> snapshots[i], seq |-> checks[i].seq]

\* The recorded check that a transaction adds.
NewRecord(a, t, outcome, plan) ==
    [account |-> a, at |-> t, outcome |-> outcome, plan |-> plan, seq |-> commits + 1]

\* Every row, with its snapshot, is a check that was recorded.
RowsAreRecorded ==
    \A i \in Ids : Exists(checks[i]) => AsRecorded(i) \in recorded

RecordedUpToNow == \A r \in recorded : r.seq <= commits

\* The successful checks have a snapshot, and nothing else has.
SnapshotsOfSuccesses ==
    \A i \in Ids : IF Exists(checks[i])
                   THEN checks[i].outcome = "success" <=> snapshots[i] # "none"
                   ELSE snapshots[i] = "none"

\* Ids order the rows as they were committed.
IdsInCommitOrder ==
    \A i, j \in Ids :
        Exists(checks[i]) /\ Exists(checks[j]) /\ i < j => checks[i].seq < checks[j].seq

\* Pruning goes by age: as long as a row is there, so are the checks of the same or
\* a later instant that were recorded after it.
NewerChecksRemain ==
    \A i \in Ids, r \in recorded :
        Exists(checks[i]) /\ checks[i].at <= r.at /\ checks[i].seq <= r.seq =>
            \E j \in Ids : Exists(checks[j]) /\ AsRecorded(j) = r

\* Row j is the successful check that the latest subscription of a was taken from.
IsSource(a, j) ==
    /\ latest[a].source = j /\ Exists(checks[j])
    /\ checks[j].account = a /\ checks[j].outcome = "success"
    /\ checks[j].at = latest[a].at /\ snapshots[j] = latest[a].plan

\* SourceIsFaithful, of a successful check.
SourceIsSuccess ==
    \A a \in Accounts :
        Exists(latest[a]) /\ latest[a].source # 0 => \E j \in Ids : IsSource(a, j)

\* The part of the invariant that is about the history alone.
RowsInv ==
    /\ RowsAreRecorded
    /\ RecordedUpToNow
    /\ SnapshotsOfSuccesses
    /\ IdsInCommitOrder
    /\ NewerChecksRemain

HistoryInv ==
    /\ TypeOK
    /\ RowsInv
    /\ SourceIsSuccess
    /\ LatestOutcomeIsNewest
    /\ LatestSubscriptionIsNewest

----
(* Lemmas about the rows of the tables *)

\* NoRow is no row of any table: every row has one of the outcomes of the schema.
LEMMA RowsExist ==
    /\ \A row \in Rows : Exists(row)
    /\ \A row \in [at : Times, outcome : Outcomes] : Exists(row)
  BY DEF Rows, NoRow, Exists, Outcomes

\* What TypeOK says of one row.
LEMMA RowTypes ==
    ASSUME TypeOK, NEW i \in Ids, Exists(checks[i])
    PROVE  /\ checks[i] \in Rows
           /\ checks[i].at \in Int /\ checks[i].seq \in Int /\ i \in Int
  <1>1. checks[i] \in Rows
    BY DEF TypeOK, Exists
  <1>2. checks[i].at \in Times /\ checks[i].seq \in 1 .. MaxChecks
    BY <1>1 DEF Rows
  <1>3. checks[i].at \in Int
    BY <1>2, TimesAssumption
  <1>4. checks[i].seq \in Int
    BY <1>2, MaxChecksAssumption
  <1>5. i \in Int
    BY MaxChecksAssumption DEF Ids
  <1> QED BY <1>1, <1>3, <1>4, <1>5

\* What TypeOK says of a recorded check.
LEMMA RecordedTypes ==
    ASSUME TypeOK, NEW r \in recorded
    PROVE  r.at \in Int /\ r.seq \in Int
  <1>1. r.at \in Times /\ r.seq \in 1 .. MaxChecks
    BY DEF TypeOK
  <1>2. r.at \in Int
    BY <1>1, TimesAssumption
  <1>3. r.seq \in Int
    BY <1>1, MaxChecksAssumption
  <1> QED BY <1>2, <1>3

\* What the two transactions that record a check have in common.
AddsRow(i, a, t, outcome, plan) ==
    /\ IsNextId(i)
    /\ Commit(a, t, outcome, plan)
    /\ InsertCheck(i, a, t, outcome)
    /\ snapshots' = [snapshots EXCEPT ![i] = plan]

\* A transaction that records a check adds one row and one recorded check, and
\* leaves the other rows as they are.
LEMMA RowAdded ==
    ASSUME TypeOK,
           NEW a \in Accounts, NEW t \in Times, NEW outcome \in Outcomes,
           NEW plan \in Plans \cup {"none"}, NEW i \in Ids,
           AddsRow(i, a, t, outcome, plan)
    PROVE  /\ ~Exists(checks[i]) /\ Exists(checks'[i])
           /\ AsRecorded(i)' = NewRecord(a, t, outcome, plan)
           /\ recorded' = recorded \cup {NewRecord(a, t, outcome, plan)}
           /\ commits' = commits + 1 /\ commits \in Int
           /\ checks'[i] \in Rows
           /\ checks'[i].at = t /\ checks'[i].outcome = outcome
           /\ checks'[i].seq = commits + 1 /\ snapshots'[i] = plan
           /\ \A j \in Ids : j # i => /\ checks'[j] = checks[j]
                                      /\ snapshots'[j] = snapshots[j]
                                      /\ AsRecorded(j)' = AsRecorded(j)
  <1> DEFINE row == [account |-> a, at |-> t, outcome |-> outcome, seq |-> commits + 1]
  <1>1. commits \in Int /\ commits + 1 \in 1 .. MaxChecks
    BY MaxChecksAssumption DEF AddsRow, Commit, TypeOK
  <1>2. row \in Rows
    BY <1>1 DEF Rows
  <1>3. checks' = [checks EXCEPT ![i] = row]
    BY DEF AddsRow, InsertCheck
  <1>4. checks'[i] = row /\ \A j \in Ids : j # i => checks'[j] = checks[j]
    BY <1>3 DEF TypeOK
  <1>5. snapshots'[i] = plan /\ \A j \in Ids : j # i => snapshots'[j] = snapshots[j]
    BY DEF TypeOK, AddsRow
  <1>6. ~Exists(checks[i])
    BY DEF AddsRow, IsNextId, Ids
  <1>7. Exists(checks'[i])
    BY <1>2, <1>4, RowsExist
  <1>8. AsRecorded(i)' = NewRecord(a, t, outcome, plan)
    BY <1>4, <1>5 DEF AsRecorded, NewRecord
  <1>9. \A j \in Ids : j # i => AsRecorded(j)' = AsRecorded(j)
    BY <1>4, <1>5 DEF AsRecorded
  <1> QED BY <1>1, <1>2, <1>4, <1>5, <1>6, <1>7, <1>8, <1>9
      DEF AddsRow, Commit, NewRecord

\* A recorded check keeps the history in order: its row gets the largest id and the
\* largest commit number.
LEMMA RecordKeepsRows ==
    ASSUME TypeOK, RowsInv,
           NEW a \in Accounts, NEW t \in Times, NEW outcome \in Outcomes,
           NEW plan \in Plans \cup {"none"}, NEW i \in Ids,
           outcome = "success" <=> plan # "none",
           AddsRow(i, a, t, outcome, plan)
    PROVE  RowsInv'
  <1> DEFINE new == NewRecord(a, t, outcome, plan)
  <1>1. /\ ~Exists(checks[i]) /\ Exists(checks'[i])
        /\ AsRecorded(i)' = new
        /\ recorded' = recorded \cup {new}
        /\ commits' = commits + 1 /\ commits \in Int
        /\ checks'[i] \in Rows
        /\ checks'[i].at = t /\ checks'[i].outcome = outcome
        /\ checks'[i].seq = commits + 1 /\ snapshots'[i] = plan
        /\ \A j \in Ids : j # i => /\ checks'[j] = checks[j]
                                   /\ snapshots'[j] = snapshots[j]
                                   /\ AsRecorded(j)' = AsRecorded(j)
    BY RowAdded
  <1>2. new.seq = commits + 1
    BY DEF NewRecord
  <1> HIDE DEF new
  <1>3. \A r \in recorded : r.seq \in Int /\ r.seq <= commits
    BY RecordedTypes DEF RowsInv, RecordedUpToNow
  <1>4. \A j \in Ids : Exists(checks[j]) =>
            j < i /\ checks[j].seq \in Int /\ checks[j].seq <= commits
    <2>1. TAKE j \in Ids
    <2>2. HAVE Exists(checks[j])
    <2>3. AsRecorded(j) \in recorded /\ AsRecorded(j).seq = checks[j].seq
      BY <2>2 DEF RowsInv, RowsAreRecorded, AsRecorded
    <2> QED BY <1>3, <2>2, <2>3 DEF AddsRow, IsNextId
  <1>5. RowsAreRecorded'
    BY <1>1 DEF RowsInv, RowsAreRecorded
  <1>6. RecordedUpToNow'
    BY <1>1, <1>2, <1>3 DEF RecordedUpToNow
  <1>7. SnapshotsOfSuccesses'
    BY <1>1 DEF RowsInv, SnapshotsOfSuccesses
  <1>8. IdsInCommitOrder'
    <2> SUFFICES ASSUME NEW j \in Ids, NEW k \in Ids,
                        Exists(checks'[j]), Exists(checks'[k]), j < k
                 PROVE  checks'[j].seq < checks'[k].seq
      BY DEF IdsInCommitOrder
    <2>1. CASE k = i
      BY <1>1, <1>4, <2>1 DEF Ids
    <2>2. CASE k # i /\ j = i
      BY <1>1, <1>4, <2>2 DEF Ids
    <2>3. CASE k # i /\ j # i
      BY <1>1, <2>3 DEF RowsInv, IdsInCommitOrder
    <2> QED BY <2>1, <2>2, <2>3
  <1>9. NewerChecksRemain'
    <2> SUFFICES ASSUME NEW j \in Ids, NEW r \in recorded',
                        Exists(checks'[j]), checks'[j].at <= r.at, checks'[j].seq <= r.seq
                 PROVE  \E k \in Ids : Exists(checks'[k]) /\ AsRecorded(k)' = r
      BY DEF NewerChecksRemain
    <2>1. CASE r = new
      BY <1>1, <2>1
    <2>2. CASE r \in recorded /\ j = i
      BY <1>1, <1>3, <2>2
    <2>3. CASE r \in recorded /\ j # i
      <3>1. PICK k \in Ids : Exists(checks[k]) /\ AsRecorded(k) = r
        BY <1>1, <2>3 DEF RowsInv, NewerChecksRemain
      <3> QED BY <1>1, <3>1
    <2> QED BY <1>1, <2>1, <2>2, <2>3
  <1> QED BY <1>5, <1>6, <1>7, <1>8, <1>9 DEF RowsInv

\* Pruning removes rows with their snapshots, and with a row every older one.
LEMMA PruneKeepsRows ==
    ASSUME TypeOK, RowsInv, NEW before \in Int, PruneCheckHistory(before)
    PROVE  RowsInv'
  <1>1. \A j \in Ids :
            /\ Exists(checks'[j]) => /\ Exists(checks[j]) /\ checks'[j] = checks[j]
                                     /\ snapshots'[j] = snapshots[j]
                                     /\ ~Pruned(j, before)
                                     /\ AsRecorded(j)' = AsRecorded(j)
            /\ ~Exists(checks'[j]) => snapshots'[j] = "none"
    BY DEF PruneCheckHistory, Pruned, Exists, AsRecorded, RowsInv, SnapshotsOfSuccesses
  <1>2. \A j \in Ids : Exists(checks[j]) /\ ~Pruned(j, before) =>
            Exists(checks'[j]) /\ AsRecorded(j)' = AsRecorded(j)
    BY DEF PruneCheckHistory, Exists, AsRecorded
  <1>3. recorded' = recorded /\ commits' = commits
    BY DEF PruneCheckHistory
  <1>4. RowsAreRecorded' /\ RecordedUpToNow'
    BY <1>1, <1>3 DEF RowsInv, RowsAreRecorded, RecordedUpToNow
  <1>5. SnapshotsOfSuccesses'
    BY <1>1 DEF RowsInv, SnapshotsOfSuccesses
  <1>6. IdsInCommitOrder'
    BY <1>1 DEF RowsInv, IdsInCommitOrder
  <1>7. NewerChecksRemain'
    <2> SUFFICES ASSUME NEW j \in Ids, NEW r \in recorded,
                        Exists(checks'[j]), checks'[j].at <= r.at, checks'[j].seq <= r.seq
                 PROVE  \E k \in Ids : Exists(checks'[k]) /\ AsRecorded(k)' = r
      BY <1>3 DEF NewerChecksRemain
    <2>1. PICK k \in Ids : Exists(checks[k]) /\ AsRecorded(k) = r
      BY <1>1 DEF RowsInv, NewerChecksRemain
    <2>2. checks[j].at \in Int /\ checks[k].at \in Int /\ checks[k].at = r.at
      BY <1>1, <2>1, RowTypes DEF AsRecorded
    <2>3. checks[j].at >= before /\ checks[j].at <= r.at
      BY <1>1, <2>2 DEF Pruned
    <2>4. ~Pruned(k, before)
      BY <2>2, <2>3 DEF Pruned
    <2> QED BY <1>2, <2>1, <2>4
  <1> QED BY <1>4, <1>5, <1>6, <1>7 DEF RowsInv

----
(* Lemmas about the newest check *)

\* A check that is committed last is the newest of its set unless an older commit is
\* of a later instant; then that one stays the newest.
LEMMA NewestOfMore ==
    ASSUME NEW set, NEW r, NEW new, Newest(r, set),
           new.at \in Int, new.seq \in Int,
           \A q \in set : q.at \in Int /\ q.seq \in Int /\ q.seq < new.seq
    PROVE  IF new.at >= r.at THEN Newest(new, set \cup {new})
                             ELSE Newest(r, set \cup {new})
  <1>1. r \in set /\ \A q \in set : q.at < r.at \/ (q.at = r.at /\ q.seq <= r.seq)
    BY DEF Newest
  <1>2. CASE new.at >= r.at
    BY <1>1, <1>2 DEF Newest
  <1>3. CASE ~(new.at >= r.at)
    BY <1>1, <1>3 DEF Newest
  <1> QED BY <1>2, <1>3

\* The newest of a single check.
LEMMA NewestOfOne ==
    ASSUME NEW new, new.seq \in Int
    PROVE  Newest(new, {} \cup {new})
  BY DEF Newest

\* A recorded check joins the checks of its account, and no others.
LEMMA RecordedGrows ==
    ASSUME TypeOK, RowsInv,
           NEW a \in Accounts, NEW t \in Times, NEW outcome \in Outcomes,
           NEW plan \in Plans \cup {"none"}, NEW i \in Ids, NEW b \in Accounts,
           AddsRow(i, a, t, outcome, plan)
    PROVE  /\ RecordedOf(b)' = IF b = a
                THEN RecordedOf(b) \cup {NewRecord(a, t, outcome, plan)}
                ELSE RecordedOf(b)
           /\ SuccessesOf(b)' = IF b = a /\ outcome = "success"
                THEN SuccessesOf(b) \cup {NewRecord(a, t, outcome, plan)}
                ELSE SuccessesOf(b)
           /\ \A q \in RecordedOf(b) :
                q.at \in Int /\ q.seq \in Int /\ q.seq < NewRecord(a, t, outcome, plan).seq
           /\ NewRecord(a, t, outcome, plan).at = t /\ t \in Int
           /\ NewRecord(a, t, outcome, plan).seq \in Int
           /\ NewRecord(a, t, outcome, plan).outcome = outcome
           /\ NewRecord(a, t, outcome, plan).plan = plan
  <1> DEFINE new == NewRecord(a, t, outcome, plan)
  <1>1. recorded' = recorded \cup {new} /\ commits \in Int
    BY RowAdded
  <1>2. new.account = a /\ new.at = t /\ new.outcome = outcome
        /\ new.plan = plan /\ new.seq = commits + 1
    BY DEF NewRecord
  <1> HIDE DEF new
  <1>3. \A q \in recorded : q.at \in Int /\ q.seq \in Int /\ q.seq < new.seq
    BY <1>1, <1>2, RecordedTypes DEF RowsInv, RecordedUpToNow
  <1>4. RecordedOf(b)' = IF b = a THEN RecordedOf(b) \cup {new} ELSE RecordedOf(b)
    BY <1>1, <1>2 DEF RecordedOf
  <1>5. SuccessesOf(b)' = IF b = a /\ outcome = "success"
                          THEN SuccessesOf(b) \cup {new} ELSE SuccessesOf(b)
    BY <1>2, <1>4 DEF SuccessesOf
  <1>6. \A q \in RecordedOf(b) : q.at \in Int /\ q.seq \in Int /\ q.seq < new.seq
    BY <1>3 DEF RecordedOf
  <1>7. t \in Int
    BY TimesAssumption
  <1> QED BY <1>1, <1>2, <1>4, <1>5, <1>6, <1>7 DEF new

\* The latest outcome of an account follows its newest check.
LEMMA RecordKeepsOutcome ==
    ASSUME TypeOK, RowsInv, LatestOutcomeIsNewest,
           NEW a \in Accounts, NEW t \in Times, NEW outcome \in Outcomes,
           NEW plan \in Plans \cup {"none"}, NEW i \in Ids,
           AddsRow(i, a, t, outcome, plan),
           UpsertAccount(a, t, outcome)
    PROVE  LatestOutcomeIsNewest'
  <1> DEFINE new == NewRecord(a, t, outcome, plan)
  <1> DEFINE Right(b) ==
        IF RecordedOf(b)' = {} THEN accounts'[b] = NoRow
        ELSE \E r \in RecordedOf(b)' :
                /\ Newest(r, RecordedOf(b)')
                /\ accounts'[b] = [at |-> r.at, outcome |-> r.outcome]
  <1>1. \A b \in Accounts : b # a =>
            RecordedOf(b)' = RecordedOf(b) /\ accounts'[b] = accounts[b]
    <2>1. \A b \in Accounts : b # a => RecordedOf(b)' = RecordedOf(b)
      BY RecordedGrows
    <2>2. \A b \in Accounts : b # a => accounts'[b] = accounts[b]
      BY DEF UpsertAccount, TypeOK
    <2> QED BY <2>1, <2>2
  <1>2. /\ RecordedOf(a)' = RecordedOf(a) \cup {new}
        /\ \A q \in RecordedOf(a) : q.at \in Int /\ q.seq \in Int /\ q.seq < new.seq
        /\ new.at = t /\ t \in Int /\ new.seq \in Int /\ new.outcome = outcome
    BY RecordedGrows
  <1>3. accounts'[a] = IF ~Exists(accounts[a]) \/ t >= accounts[a].at
                       THEN [at |-> t, outcome |-> outcome] ELSE accounts[a]
    BY DEF UpsertAccount, TypeOK
  <1> HIDE DEF new
  <1>4. Right(a)
    <2>1. CASE RecordedOf(a) = {}
      <3>1. ~Exists(accounts[a])
        BY <2>1 DEF LatestOutcomeIsNewest, Exists
      <3>2. Newest(new, RecordedOf(a)')
        BY <1>2, <2>1, NewestOfOne
      <3>3. accounts'[a] = [at |-> new.at, outcome |-> new.outcome]
        BY <1>2, <1>3, <3>1
      <3> QED BY <3>2, <3>3, <1>2
    <2>2. CASE RecordedOf(a) # {}
      <3>1. PICK r \in RecordedOf(a) :
              Newest(r, RecordedOf(a)) /\ accounts[a] = [at |-> r.at, outcome |-> r.outcome]
        BY <2>2 DEF LatestOutcomeIsNewest
      <3>2. Exists(accounts[a]) /\ accounts[a].at = r.at
        BY <3>1, <2>2 DEF Exists, NoRow
      <3>3. IF new.at >= r.at THEN Newest(new, RecordedOf(a)')
                              ELSE Newest(r, RecordedOf(a)')
        <4>1. new.at \in Int
          BY <1>2
        <4>2. IF new.at >= r.at THEN Newest(new, RecordedOf(a) \cup {new})
                                ELSE Newest(r, RecordedOf(a) \cup {new})
          BY <1>2, <3>1, <4>1, NewestOfMore
        <4> QED BY <1>2, <4>2
      <3>4. CASE t >= r.at
        <4>1. accounts'[a] = [at |-> new.at, outcome |-> new.outcome]
          BY <1>2, <1>3, <3>2, <3>4
        <4> QED BY <1>2, <3>3, <3>4, <4>1
      <3>5. CASE ~(t >= r.at)
        <4>1. accounts'[a] = [at |-> r.at, outcome |-> r.outcome]
          BY <1>3, <3>1, <3>2, <3>5
        <4> QED BY <1>2, <3>3, <3>5, <4>1
      <3> QED BY <3>4, <3>5
    <2> QED BY <2>1, <2>2
  <1>5. \A b \in Accounts : b # a => Right(b)
    BY <1>1 DEF LatestOutcomeIsNewest
  <1>6. \A b \in Accounts : Right(b)
    BY <1>4, <1>5
  <1> QED BY <1>6 DEF LatestOutcomeIsNewest

\* So does the latest subscription follow the newest successful check.
LEMMA RecordKeepsLatest ==
    ASSUME TypeOK, RowsInv, LatestSubscriptionIsNewest,
           NEW a \in Accounts, NEW t \in Times, NEW plan \in Plans, NEW i \in Ids,
           AddsRow(i, a, t, "success", plan),
           UpsertLatest(a, t, plan, i)
    PROVE  LatestSubscriptionIsNewest'
  <1> DEFINE new == NewRecord(a, t, "success", plan)
  <1> DEFINE Right(b) ==
        IF SuccessesOf(b)' = {} THEN latest'[b] = NoRow
        ELSE \E r \in SuccessesOf(b)' :
                /\ Newest(r, SuccessesOf(b)')
                /\ Exists(latest'[b])
                /\ latest'[b].at = r.at /\ latest'[b].plan = r.plan
  <1>0. "success" \in Outcomes
    BY DEF Outcomes
  <1>1. \A b \in Accounts : b # a =>
            SuccessesOf(b)' = SuccessesOf(b) /\ latest'[b] = latest[b]
    <2>1. \A b \in Accounts : b # a => SuccessesOf(b)' = SuccessesOf(b)
      BY <1>0, RecordedGrows
    <2>2. \A b \in Accounts : b # a => latest'[b] = latest[b]
      BY DEF UpsertLatest, TypeOK
    <2> QED BY <2>1, <2>2
  <1>2. /\ SuccessesOf(a)' = SuccessesOf(a) \cup {new}
        /\ \A q \in RecordedOf(a) : q.at \in Int /\ q.seq \in Int /\ q.seq < new.seq
        /\ new.at = t /\ t \in Int /\ new.seq \in Int /\ new.plan = plan
    BY <1>0, RecordedGrows
  <1>3. \A q \in SuccessesOf(a) : q.at \in Int /\ q.seq \in Int /\ q.seq < new.seq
    BY <1>2 DEF SuccessesOf
  <1>4. latest'[a] = IF ~Exists(latest[a]) \/ t >= latest[a].at
                     THEN [at |-> t, plan |-> plan, source |-> i] ELSE latest[a]
    BY DEF UpsertLatest, TypeOK
  <1>5. Exists([at |-> t, plan |-> plan, source |-> i])
    <2>1. DOMAIN [at |-> t, plan |-> plan, source |-> i] # DOMAIN NoRow
      BY DEF NoRow
    <2> QED BY <2>1 DEF Exists
  <1> HIDE DEF new
  <1>6. Right(a)
    <2>1. CASE SuccessesOf(a) = {}
      <3>1. ~Exists(latest[a])
        BY <2>1 DEF LatestSubscriptionIsNewest, Exists
      <3>2. Newest(new, SuccessesOf(a)')
        BY <1>2, <2>1, NewestOfOne
      <3>3. Exists(latest'[a]) /\ latest'[a].at = new.at /\ latest'[a].plan = new.plan
        BY <1>2, <1>4, <1>5, <3>1
      <3> QED BY <3>2, <3>3, <1>2
    <2>2. CASE SuccessesOf(a) # {}
      <3>1. PICK r \in SuccessesOf(a) :
              /\ Newest(r, SuccessesOf(a)) /\ Exists(latest[a])
              /\ latest[a].at = r.at /\ latest[a].plan = r.plan
        BY <2>2 DEF LatestSubscriptionIsNewest
      <3>2. IF new.at >= r.at THEN Newest(new, SuccessesOf(a)')
                              ELSE Newest(r, SuccessesOf(a)')
        <4>1. new.at \in Int
          BY <1>2
        <4>2. IF new.at >= r.at THEN Newest(new, SuccessesOf(a) \cup {new})
                                ELSE Newest(r, SuccessesOf(a) \cup {new})
          BY <1>2, <1>3, <3>1, <4>1, NewestOfMore
        <4> QED BY <1>2, <4>2
      <3>3. CASE t >= r.at
        <4>1. Exists(latest'[a]) /\ latest'[a].at = new.at /\ latest'[a].plan = new.plan
          BY <1>2, <1>4, <1>5, <3>1, <3>3
        <4> QED BY <1>2, <3>2, <3>3, <4>1
      <3>4. CASE ~(t >= r.at)
        <4>1. latest'[a] = latest[a]
          BY <1>4, <3>1, <3>4
        <4> QED BY <1>2, <3>1, <3>2, <3>4, <4>1
      <3> QED BY <3>3, <3>4
    <2> QED BY <2>1, <2>2
  <1>7. \A b \in Accounts : b # a => Right(b)
    BY <1>1 DEF LatestSubscriptionIsNewest
  <1>8. \A b \in Accounts : Right(b)
    BY <1>6, <1>7
  <1> QED BY <1>8 DEF LatestSubscriptionIsNewest

\* A new row does not touch the source of a latest subscription, which is a row that
\* exists and so is not the one whose id was free.
LEMMA RecordKeepsSource ==
    ASSUME TypeOK, RowsInv, SourceIsSuccess,
           NEW a \in Accounts, NEW t \in Times, NEW outcome \in Outcomes,
           NEW plan \in Plans \cup {"none"}, NEW i \in Ids,
           AddsRow(i, a, t, outcome, plan),
           NEW b \in Accounts,
           latest'[b] = latest[b], Exists(latest[b]), latest[b].source # 0
    PROVE  \E j \in Ids : IsSource(b, j)'
  <1>1. PICK j \in Ids : IsSource(b, j)
    BY DEF SourceIsSuccess
  <1>2. j # i
    BY <1>1, RowAdded DEF IsSource
  <1>3. checks'[j] = checks[j] /\ snapshots'[j] = snapshots[j]
    BY <1>2, RowAdded
  <1>4. IsSource(b, j)'
    BY <1>1, <1>3 DEF IsSource
  <1> QED BY <1>4

----
(* One lemma per transaction *)

\* An empty history satisfies the invariant.
LEMMA InitHolds == Init => HistoryInv
  <1> SUFFICES ASSUME Init PROVE HistoryInv
    OBVIOUS
  <1>1. /\ \A i \in Ids : ~Exists(checks[i]) /\ snapshots[i] = "none"
        /\ \A a \in Accounts : ~Exists(latest[a]) /\ latest[a] = NoRow
        /\ \A a \in Accounts : accounts[a] = NoRow
        /\ recorded = {}
    BY DEF Init, Exists
  <1>2. TypeOK
    BY MaxChecksAssumption DEF Init, TypeOK
  <1>3. RowsInv
    BY <1>1 DEF RowsInv, RowsAreRecorded, RecordedUpToNow, SnapshotsOfSuccesses,
                IdsInCommitOrder, NewerChecksRemain
  <1>4. SourceIsSuccess
    BY <1>1 DEF SourceIsSuccess
  <1>5. LatestOutcomeIsNewest /\ LatestSubscriptionIsNewest
    BY <1>1 DEF LatestOutcomeIsNewest, LatestSubscriptionIsNewest, RecordedOf, SuccessesOf
  <1> QED BY <1>2, <1>3, <1>4, <1>5 DEF HistoryInv

\* The types of what every recorded check changes.
LEMMA RecordKeepsTypes ==
    ASSUME TypeOK,
           NEW a \in Accounts, NEW t \in Times, NEW outcome \in Outcomes,
           NEW plan \in Plans \cup {"none"}, NEW i \in Ids,
           AddsRow(i, a, t, outcome, plan), UpsertAccount(a, t, outcome)
    PROVE  /\ accounts' \in [Accounts -> [at : Times, outcome : Outcomes] \cup {NoRow}]
           /\ checks' \in [Ids -> Rows \cup {NoRow}]
           /\ snapshots' \in [Ids -> Plans \cup {"none"}]
           /\ commits' \in 0 .. MaxChecks
           /\ recorded' \subseteq [account : Accounts, at : Times, outcome : Outcomes,
                                   plan : Plans \cup {"none"}, seq : 1 .. MaxChecks]
  <1>1. commits \in 0 .. MaxChecks /\ commits + 1 \in 1 .. MaxChecks
    BY MaxChecksAssumption DEF AddsRow, Commit, TypeOK
  <1>2. accounts' \in [Accounts -> [at : Times, outcome : Outcomes] \cup {NoRow}]
    BY DEF UpsertAccount, TypeOK
  <1>3. checks' \in [Ids -> Rows \cup {NoRow}]
    <2>1. [account |-> a, at |-> t, outcome |-> outcome, seq |-> commits + 1] \in Rows
      BY <1>1 DEF Rows
    <2> QED BY <2>1 DEF AddsRow, InsertCheck, TypeOK
  <1>4. snapshots' \in [Ids -> Plans \cup {"none"}]
    BY DEF AddsRow, TypeOK
  <1>5. commits' \in 0 .. MaxChecks
    BY <1>1, MaxChecksAssumption DEF AddsRow, Commit
  <1>6. recorded' \subseteq [account : Accounts, at : Times, outcome : Outcomes,
                             plan : Plans \cup {"none"}, seq : 1 .. MaxChecks]
    BY <1>1 DEF AddsRow, Commit, TypeOK
  <1> QED BY <1>2, <1>3, <1>4, <1>5, <1>6

\* A successful check may be the newest of its account or not, and finds its source
\* row free.
LEMMA SuccessHolds ==
    ASSUME HistoryInv, NEW a \in Accounts, NEW t \in Times, NEW plan \in Plans,
           RecordSuccessfulCheck(a, t, plan)
    PROVE  HistoryInv'
  <1>0. TypeOK /\ RowsInv /\ SourceIsSuccess
        /\ LatestOutcomeIsNewest /\ LatestSubscriptionIsNewest
    BY DEF HistoryInv
  <1>1. PICK i \in Ids :
          /\ IsNextId(i) /\ InsertCheck(i, a, t, "success")
          /\ snapshots' = [snapshots EXCEPT ![i] = plan] /\ UpsertLatest(a, t, plan, i)
    BY DEF RecordSuccessfulCheck
  <1>2. AddsRow(i, a, t, "success", plan) /\ UpsertAccount(a, t, "success")
    BY <1>1 DEF RecordSuccessfulCheck, AddsRow
  <1>3. "success" \in Outcomes /\ plan \in Plans \cup {"none"} /\ plan # "none"
    BY PlansAssumption DEF Outcomes
  <1>4. TypeOK'
    <2>1. latest' \in [Accounts -> [at : Times, plan : Plans, source : Ids \cup {0}]
                                     \cup {NoRow}]
      BY <1>0, <1>1 DEF TypeOK, UpsertLatest
    <2> QED BY <1>0, <1>2, <1>3, <2>1, RecordKeepsTypes DEF TypeOK
  <1>5. RowsInv'
    BY <1>0, <1>2, <1>3, RecordKeepsRows
  <1>6. SourceIsSuccess'
    <2> SUFFICES ASSUME NEW b \in Accounts, Exists(latest'[b]), latest'[b].source # 0
                 PROVE  \E j \in Ids : IsSource(b, j)'
      BY DEF SourceIsSuccess
    <2>1. latest'[b] = IF b = a /\ (~Exists(latest[b]) \/ t >= latest[b].at)
                       THEN [at |-> t, plan |-> plan, source |-> i] ELSE latest[b]
      BY <1>0, <1>1 DEF TypeOK, UpsertLatest
    <2>2. CASE latest'[b] = latest[b]
      BY <1>0, <1>2, <1>3, <2>2, RecordKeepsSource
    <2>3. CASE latest'[b] # latest[b]
      <3>1. b = a /\ latest'[b] = [at |-> t, plan |-> plan, source |-> i]
        BY <2>1, <2>3
      <3>2. Exists(checks'[i]) /\ checks'[i].at = t /\ checks'[i].outcome = "success"
            /\ snapshots'[i] = plan
        BY <1>0, <1>2, <1>3, RowAdded
      <3>3. checks'[i].account = a
        BY <1>0, <1>1 DEF InsertCheck, TypeOK
      <3>4. IsSource(b, i)'
        BY <3>1, <3>2, <3>3 DEF IsSource
      <3> QED BY <3>4
    <2> QED BY <2>2, <2>3
  <1>7. LatestOutcomeIsNewest'
    BY <1>0, <1>2, <1>3, RecordKeepsOutcome
  <1>8. LatestSubscriptionIsNewest'
    BY <1>0, <1>1, <1>2, RecordKeepsLatest
  <1> QED BY <1>4, <1>5, <1>6, <1>7, <1>8 DEF HistoryInv

\* A failed check leaves the snapshots and the latest subscriptions as they are.
LEMMA FailureHolds ==
    ASSUME HistoryInv, NEW a \in Accounts, NEW t \in Times,
           NEW outcome \in Outcomes \ {"success"}, RecordFailedCheck(a, t, outcome)
    PROVE  HistoryInv'
  <1>0. TypeOK /\ RowsInv /\ SourceIsSuccess
        /\ LatestOutcomeIsNewest /\ LatestSubscriptionIsNewest
    BY DEF HistoryInv
  <1>1. PICK i \in Ids : IsNextId(i) /\ InsertCheck(i, a, t, outcome)
    BY DEF RecordFailedCheck
  <1>2. snapshots' = [snapshots EXCEPT ![i] = "none"]
    <2>1. ~Exists(checks[i])
      BY <1>1 DEF IsNextId, Ids
    <2>2. snapshots[i] = "none"
      BY <1>0, <2>1 DEF RowsInv, SnapshotsOfSuccesses
    <2> QED BY <1>0, <2>2 DEF RecordFailedCheck, TypeOK
  <1>3. AddsRow(i, a, t, outcome, "none") /\ UpsertAccount(a, t, outcome)
    BY <1>1, <1>2 DEF RecordFailedCheck, AddsRow
  <1>4. latest' = latest
    BY DEF RecordFailedCheck
  <1>5. outcome \in Outcomes /\ outcome # "success" /\ "none" \in Plans \cup {"none"}
    OBVIOUS
  <1>6. TypeOK'
    <2>1. latest' \in [Accounts -> [at : Times, plan : Plans, source : Ids \cup {0}]
                                     \cup {NoRow}]
      BY <1>0, <1>4 DEF TypeOK
    <2> QED BY <1>0, <1>3, <1>5, <2>1, RecordKeepsTypes DEF TypeOK
  <1>7. RowsInv'
    BY <1>0, <1>3, <1>5, RecordKeepsRows
  <1>8. SourceIsSuccess'
    BY <1>0, <1>3, <1>4, <1>5, RecordKeepsSource DEF SourceIsSuccess
  <1>9. LatestOutcomeIsNewest'
    BY <1>0, <1>3, <1>5, RecordKeepsOutcome
  <1>10. LatestSubscriptionIsNewest'
    <2>1. \A b \in Accounts : SuccessesOf(b)' = SuccessesOf(b)
      BY <1>0, <1>3, <1>5, RecordedGrows
    <2> QED BY <1>0, <1>4, <2>1 DEF LatestSubscriptionIsNewest
  <1> QED BY <1>6, <1>7, <1>8, <1>9, <1>10 DEF HistoryInv

\* Pruning takes rows away and what refers to them, and keeps the latest states.
LEMMA PruneHolds ==
    ASSUME HistoryInv, NEW before \in Int, PruneCheckHistory(before)
    PROVE  HistoryInv'
  <1>0. TypeOK /\ RowsInv /\ SourceIsSuccess
        /\ LatestOutcomeIsNewest /\ LatestSubscriptionIsNewest
    BY DEF HistoryInv
  <1>1. accounts' = accounts /\ commits' = commits /\ recorded' = recorded
    BY DEF PruneCheckHistory
  <1>2. \A b \in Accounts : latest'[b] =
          IF Exists(latest[b]) /\ latest[b].source # 0 /\ Pruned(latest[b].source, before)
          THEN [latest[b] EXCEPT !.source = 0] ELSE latest[b]
    BY DEF PruneCheckHistory
  <1>3. \A b \in Accounts : Exists(latest[b]) =>
            /\ latest[b] \in [at : Times, plan : Plans, source : Ids \cup {0}]
            /\ Exists([latest[b] EXCEPT !.source = 0])
    <2> SUFFICES ASSUME NEW b \in Accounts, Exists(latest[b])
                 PROVE  /\ latest[b] \in [at : Times, plan : Plans, source : Ids \cup {0}]
                        /\ Exists([latest[b] EXCEPT !.source = 0])
      OBVIOUS
    <2>1. latest[b] \in [at : Times, plan : Plans, source : Ids \cup {0}]
      BY <1>0 DEF TypeOK, Exists
    <2>2. DOMAIN [latest[b] EXCEPT !.source = 0] # DOMAIN NoRow
      BY <2>1 DEF NoRow
    <2> QED BY <2>1, <2>2 DEF Exists
  <1>4. \A b \in Accounts :
          /\ Exists(latest'[b]) <=> Exists(latest[b])
          /\ Exists(latest[b]) => latest'[b].at = latest[b].at
                                  /\ latest'[b].plan = latest[b].plan
          /\ ~Exists(latest[b]) => latest'[b] = latest[b]
    BY <1>2, <1>3
  <1>5. TypeOK'
    <2>1. checks' \in [Ids -> Rows \cup {NoRow}]
      BY <1>0 DEF TypeOK, PruneCheckHistory
    <2>2. snapshots' \in [Ids -> Plans \cup {"none"}]
      BY <1>0 DEF TypeOK, PruneCheckHistory
    <2>3. \A b \in Accounts : latest'[b] \in
            [at : Times, plan : Plans, source : Ids \cup {0}] \cup {NoRow}
      BY <1>2, <1>3 DEF Exists
    <2>4. latest' \in [Accounts -> [at : Times, plan : Plans, source : Ids \cup {0}]
                                     \cup {NoRow}]
      BY <2>3 DEF PruneCheckHistory
    <2> QED BY <1>0, <1>1, <2>1, <2>2, <2>4 DEF TypeOK
  <1>6. RowsInv'
    BY <1>0, PruneKeepsRows
  <1>7. SourceIsSuccess'
    <2> SUFFICES ASSUME NEW b \in Accounts, Exists(latest'[b]), latest'[b].source # 0
                 PROVE  \E j \in Ids : IsSource(b, j)'
      BY DEF SourceIsSuccess
    <2>1. Exists(latest[b])
      BY <1>4
    <2>2. latest'[b] = latest[b] /\ ~Pruned(latest[b].source, before)
      BY <1>2, <1>3, <2>1
    <2>3. PICK j \in Ids : IsSource(b, j)
      BY <1>0, <2>1, <2>2 DEF SourceIsSuccess
    <2>4. ~Pruned(j, before)
      BY <2>2, <2>3 DEF IsSource
    <2>5. checks'[j] = checks[j] /\ snapshots'[j] = snapshots[j]
      BY <2>4 DEF PruneCheckHistory
    <2>6. IsSource(b, j)'
      BY <2>2, <2>3, <2>5 DEF IsSource
    <2> QED BY <2>6
  <1>8. LatestOutcomeIsNewest'
    BY <1>0, <1>1 DEF LatestOutcomeIsNewest, RecordedOf
  <1>9. LatestSubscriptionIsNewest'
    <2>1. \A b \in Accounts : SuccessesOf(b)' = SuccessesOf(b)
      BY <1>1 DEF SuccessesOf, RecordedOf
    <2>2. \A b \in Accounts : SuccessesOf(b) = {} => latest'[b] = NoRow
      BY <1>0, <1>4 DEF LatestSubscriptionIsNewest, Exists
    <2>3. \A b \in Accounts : SuccessesOf(b) # {} =>
            \E r \in SuccessesOf(b) :
                /\ Newest(r, SuccessesOf(b)) /\ Exists(latest'[b])
                /\ latest'[b].at = r.at /\ latest'[b].plan = r.plan
      BY <1>0, <1>4 DEF LatestSubscriptionIsNewest
    <2> QED BY <2>1, <2>2, <2>3 DEF LatestSubscriptionIsNewest
  <1> QED BY <1>5, <1>6, <1>7, <1>8, <1>9 DEF HistoryInv

\* Whatever transaction comes next, the invariant is kept.
LEMMA TransactionHolds == HistoryInv /\ [Transaction]_tables => HistoryInv'
<1> SUFFICES ASSUME HistoryInv, [Transaction]_tables PROVE HistoryInv'
  OBVIOUS
<1>1. ASSUME NEW a \in Accounts, NEW t \in Times, NEW plan \in Plans,
             RecordSuccessfulCheck(a, t, plan)
      PROVE  HistoryInv'
  BY <1>1, SuccessHolds
<1>2. ASSUME NEW a \in Accounts, NEW t \in Times,
             NEW outcome \in Outcomes \ {"success"}, RecordFailedCheck(a, t, outcome)
      PROVE  HistoryInv'
  BY <1>2, FailureHolds
<1>3. ASSUME NEW t \in Times, PruneCheckHistory(t) \/ PruneCheckHistory(t + 1)
      PROVE  HistoryInv'
  <2>1. t \in Int /\ t + 1 \in Int
    BY TimesAssumption
  <2> QED BY <1>3, <2>1, PruneHolds
<1>4. CASE UNCHANGED tables
  <2>1. /\ accounts' = accounts /\ checks' = checks /\ snapshots' = snapshots
        /\ latest' = latest /\ commits' = commits /\ recorded' = recorded
    BY <1>4 DEF tables
  <2>2. TypeOK'
    BY <2>1 DEF HistoryInv, TypeOK
  <2>3. \A i \in Ids : AsRecorded(i)' = AsRecorded(i)
    BY <2>1 DEF AsRecorded
  <2>4. RowsInv'
    BY <2>1, <2>3 DEF HistoryInv, RowsInv, RowsAreRecorded, RecordedUpToNow,
                      SnapshotsOfSuccesses, IdsInCommitOrder, NewerChecksRemain
  <2>5. SourceIsSuccess'
    BY <2>1 DEF HistoryInv, SourceIsSuccess, IsSource
  <2>6. LatestOutcomeIsNewest' /\ LatestSubscriptionIsNewest'
    BY <2>1 DEF HistoryInv, LatestOutcomeIsNewest, LatestSubscriptionIsNewest,
                SuccessesOf, RecordedOf
  <2> QED BY <2>2, <2>4, <2>5, <2>6 DEF HistoryInv
<1> QED BY <1>1, <1>2, <1>3, <1>4 DEF Transaction

----
(***************************************************************************)
(* The invariant holds whatever checks are recorded, in whatever order     *)
(* their commits come, and whatever is pruned between them.                *)
(***************************************************************************)
THEOREM HistoryInvariant == Spec => []HistoryInv
<1>1. Init => HistoryInv
  BY InitHolds
<1>2. HistoryInv /\ [Transaction]_tables => HistoryInv'
  BY TransactionHolds
<1> QED BY <1>1, <1>2, PTL DEF Spec

\* The tables hold what the schema allows: references to rows of the right kind,
\* outcomes of the vocabulary, a source that is a row id or none.
THEOREM TypeCorrect == Spec => []TypeOK
<1>1. HistoryInv => TypeOK
  BY DEF HistoryInv
<1> QED BY <1>1, HistoryInvariant, PTL

\* The latest outcome of an account is that of its newest check, whatever the order of
\* the commits and whatever was pruned: the WHERE of the upsert does not lose one.
THEOREM LatestOutcome == Spec => []LatestOutcomeIsNewest
<1>1. HistoryInv => LatestOutcomeIsNewest
  BY DEF HistoryInv
<1> QED BY <1>1, HistoryInvariant, PTL

\* The latest subscription of an account is that of its newest successful check, also
\* after the check it was taken from was pruned.
THEOREM LatestSubscription == Spec => []LatestSubscriptionIsNewest
<1>1. HistoryInv => LatestSubscriptionIsNewest
  BY DEF HistoryInv
<1> QED BY <1>1, HistoryInvariant, PTL

\* The rows of the history are in the order of their commits although SQLite reuses
\* ids, so a query that breaks ties by id lists the check committed last first.
THEOREM CommitOrder == Spec => []HistoryInCommitOrder
<1>1. HistoryInv => HistoryInCommitOrder
  <2> SUFFICES ASSUME HistoryInv, NEW i \in Ids, NEW j \in Ids,
                      Exists(checks[i]), Exists(checks[j])
               PROVE  /\ i < j => checks[i].seq < checks[j].seq
                      /\ checks[i].at = checks[j].at /\ Precedes(i, j)
                           => checks[i].seq > checks[j].seq
    BY DEF HistoryInCommitOrder
  <2>1. /\ i < j => checks[i].seq < checks[j].seq
        /\ j < i => checks[j].seq < checks[i].seq
    BY DEF HistoryInv, RowsInv, IdsInCommitOrder
  <2>2. checks[i].at \in Int /\ i \in Int /\ j \in Int
        /\ checks[i].seq \in Int /\ checks[j].seq \in Int
    BY RowTypes DEF HistoryInv
  <2> QED BY <2>1, <2>2 DEF Precedes
<1> QED BY <1>1, HistoryInvariant, PTL

\* The source of a latest subscription is the very check it was taken from; a reused
\* id never makes it point to another one.
THEOREM Source == Spec => []SourceIsFaithful
<1>1. HistoryInv => SourceIsFaithful
  <2> SUFFICES ASSUME HistoryInv, NEW a \in Accounts,
                      Exists(latest[a]), latest[a].source # 0
               PROVE  LET i == latest[a].source IN
                      /\ Exists(checks[i])
                      /\ checks[i].account = a /\ checks[i].at = latest[a].at
                      /\ snapshots[i] = latest[a].plan
    BY DEF SourceIsFaithful
  <2>1. PICK j \in Ids : IsSource(a, j)
    BY DEF HistoryInv, SourceIsSuccess
  <2> QED BY <2>1 DEF IsSource
<1> QED BY <1>1, HistoryInvariant, PTL

----
(* The queries *)

\* The first of a list has nothing before it.
LEMMA FirstListed ==
    ASSUME NEW selected \in SUBSET Ids, NEW i \in Listed(selected, 1)
    PROVE  i \in selected /\ \A j \in selected : ~Precedes(j, i)
  <1> DEFINE before == {j \in selected : Precedes(j, i)}
  <1>1. i \in selected /\ Cardinality(before) < 1
    BY DEF Listed
  <1>2. IsFiniteSet(Ids)
    BY MaxChecksAssumption, FS_Interval DEF Ids
  <1>3. before \in SUBSET Ids
    OBVIOUS
  <1>4. IsFiniteSet(before)
    BY <1>2, <1>3, FS_Subset
  <1> HIDE DEF before
  <1>5. Cardinality(before) = 0
    BY <1>1, <1>4, FS_CardinalityType
  <1>6. before = {}
    BY <1>4, <1>5, FS_EmptySet
  <1> QED BY <1>1, <1>6 DEF before

\* A row that no row of its account and kind precedes is the newest recorded check of
\* that kind, unless the newest is of a later instant.
LEMMA FirstIsNewest ==
    ASSUME HistoryInv, NEW kind \in SUBSET Ids, NEW i \in kind, Exists(checks[i]),
           \A j \in kind : ~Precedes(j, i),
           NEW r \in recorded, r.at = checks[i].at, checks[i].seq <= r.seq,
           \A j \in Ids : Exists(checks[j]) /\ AsRecorded(j) = r => j \in kind
    PROVE  AsRecorded(i) = r
  <1>0. TypeOK /\ RowsInv
    BY DEF HistoryInv
  <1>1. i \in Ids /\ checks[i].at \in Int /\ checks[i].seq \in Int /\ i \in Int
    BY <1>0, RowTypes
  <1>2. PICK j \in Ids : Exists(checks[j]) /\ AsRecorded(j) = r
    BY <1>0, <1>1 DEF RowsInv, NewerChecksRemain
  <1>3. j \in Int /\ checks[j].seq \in Int
    BY <1>0, <1>2, RowTypes
  <1>4. checks[j].at = checks[i].at /\ checks[j].seq >= checks[i].seq
    BY <1>2, <1>1, <1>3 DEF AsRecorded
  <1>5. ~(j < i)
    BY <1>0, <1>1, <1>2, <1>3, <1>4 DEF RowsInv, IdsInCommitOrder
  <1>6. ~(j > i)
    BY <1>2, <1>4 DEF Precedes
  <1>7. j = i
    BY <1>1, <1>3, <1>5, <1>6
  <1> QED BY <1>2, <1>7

\* The three tables that the queries read tell one story: the first check listed for
\* an account decides what it requires and whether its renewal is upcoming, unless a
\* newer check was pruned.
THEOREM QueriesTellOneStory == Spec => []QueriesAgree
<1>1. ASSUME HistoryInv, NEW a \in Accounts, NEW i \in GetCheckHistory(a, 1)
      PROVE  \/ checks[i].at < accounts[a].at
             \/ accounts[a] = [at |-> checks[i].at, outcome |-> checks[i].outcome]
  <2>1. i \in ChecksOf(a) /\ \A j \in ChecksOf(a) : ~Precedes(j, i)
    <3>1. ChecksOf(a) \in SUBSET Ids
      BY DEF ChecksOf
    <3> QED BY <1>1, <3>1, FirstListed DEF GetCheckHistory
  <2>2. i \in Ids /\ Exists(checks[i]) /\ checks[i].account = a
    BY <2>1 DEF ChecksOf
  <2>3. AsRecorded(i) \in RecordedOf(a)
    BY <1>1, <2>2 DEF HistoryInv, RowsInv, RowsAreRecorded, RecordedOf, AsRecorded
  <2>4. PICK r \in RecordedOf(a) :
          Newest(r, RecordedOf(a)) /\ accounts[a] = [at |-> r.at, outcome |-> r.outcome]
    BY <1>1, <2>3 DEF HistoryInv, LatestOutcomeIsNewest
  <2>5. AsRecorded(i).at < r.at
        \/ (AsRecorded(i).at = r.at /\ AsRecorded(i).seq <= r.seq)
    BY <2>3, <2>4 DEF Newest
  <2>6. checks[i].at < r.at \/ (checks[i].at = r.at /\ checks[i].seq <= r.seq)
    BY <2>5 DEF AsRecorded
  <2>7. r \in recorded /\ r.account = a
    BY <2>4 DEF RecordedOf
  <2>8. CASE checks[i].at < r.at
    BY <2>4, <2>8
  <2>9. CASE checks[i].at = r.at /\ checks[i].seq <= r.seq
    <3>1. \A j \in Ids : Exists(checks[j]) /\ AsRecorded(j) = r => j \in ChecksOf(a)
      BY <2>7 DEF ChecksOf, AsRecorded
    <3>2. ChecksOf(a) \in SUBSET Ids
      BY DEF ChecksOf
    <3>3. AsRecorded(i) = r
      BY <1>1, <2>1, <2>2, <2>7, <2>9, <3>1, <3>2, FirstIsNewest
    <3>4. checks[i].at = r.at /\ checks[i].outcome = r.outcome
      BY <3>3 DEF AsRecorded
    <3> QED BY <2>4, <3>4
  <2> QED BY <2>6, <2>8, <2>9
<1>2. ASSUME HistoryInv, NEW a \in Accounts, NEW i \in GetCheckHistory(a, 1),
             accounts[a] = [at |-> checks[i].at, outcome |-> checks[i].outcome],
             a \in GetConnectorsRequiringReauthentication
      PROVE  i \notin GetRecentFailedChecks(checks[i].at, MaxChecks)
  <2>1. checks[i].outcome = "reauthentication_required"
    BY <1>2 DEF GetConnectorsRequiringReauthentication
  <2> QED BY <2>1 DEF GetRecentFailedChecks, Listed
<1>3. ASSUME HistoryInv, NEW a \in Accounts,
             NEW i \in Listed({j \in ChecksOf(a) : checks[j].outcome = "success"}, 1)
      PROVE  /\ a \in GetLatestSubscriptionStates
             /\ \/ checks[i].at < latest[a].at
                \/ /\ checks[i].at = latest[a].at
                   /\ a \in GetUpcomingRenewals <=> Attached(i) \in UpcomingPlans
  <2> DEFINE successes == {j \in ChecksOf(a) : checks[j].outcome = "success"}
  <2>1. i \in successes /\ \A j \in successes : ~Precedes(j, i)
    <3>1. successes \in SUBSET Ids
      BY DEF ChecksOf
    <3> QED BY <1>3, <3>1, FirstListed
  <2>2. i \in Ids /\ Exists(checks[i]) /\ checks[i].account = a
        /\ checks[i].outcome = "success"
    BY <2>1 DEF ChecksOf
  <2>3. AsRecorded(i) \in SuccessesOf(a)
    BY <1>3, <2>2 DEF HistoryInv, RowsInv, RowsAreRecorded, SuccessesOf, RecordedOf,
                      AsRecorded
  <2>4. PICK r \in SuccessesOf(a) :
          /\ Newest(r, SuccessesOf(a)) /\ Exists(latest[a])
          /\ latest[a].at = r.at /\ latest[a].plan = r.plan
    BY <1>3, <2>3 DEF HistoryInv, LatestSubscriptionIsNewest
  <2>5. AsRecorded(i).at < r.at
        \/ (AsRecorded(i).at = r.at /\ AsRecorded(i).seq <= r.seq)
    BY <2>3, <2>4 DEF Newest
  <2>6. checks[i].at < r.at \/ (checks[i].at = r.at /\ checks[i].seq <= r.seq)
    BY <2>5 DEF AsRecorded
  <2>7. r \in recorded /\ r.account = a /\ r.outcome = "success"
    BY <2>4 DEF SuccessesOf, RecordedOf
  <2>8. a \in GetLatestSubscriptionStates
    BY <2>4 DEF GetLatestSubscriptionStates
  <2>9. CASE checks[i].at < r.at
    BY <2>4, <2>8, <2>9
  <2>10. CASE checks[i].at = r.at /\ checks[i].seq <= r.seq
    <3>1. \A j \in Ids : Exists(checks[j]) /\ AsRecorded(j) = r => j \in successes
      BY <2>7 DEF ChecksOf, AsRecorded
    <3>2. successes \in SUBSET Ids
      BY DEF ChecksOf
    <3> HIDE DEF successes
    <3>3. AsRecorded(i) = r
      BY <1>3, <2>1, <2>2, <2>7, <2>10, <3>1, <3>2, FirstIsNewest
    <3>4. snapshots[i] = latest[a].plan
      BY <2>4, <3>3 DEF AsRecorded
    <3> QED BY <2>4, <2>8, <2>10, <3>4 DEF GetUpcomingRenewals, Attached
  <2> QED BY <2>6, <2>9, <2>10
<1>4. HistoryInv => QueriesAgree
  BY <1>1, <1>2, <1>3 DEF QueriesAgree
<1> QED BY <1>4, HistoryInvariant, PTL
====
