---- MODULE HistoryTables ----
(***************************************************************************)
(* The tables of the subscription database (migrations.ts) and the three   *)
(* transactions that change them (subscription-history.ts): a successful   *)
(* check, a failed check and the pruning of the history.  A transaction is *)
(* BEGIN IMMEDIATE ... COMMIT, so it is one step.                          *)
(*                                                                         *)
(* An account stands for a (provider_id, account_ref) pair, a plan for all *)
(* columns of a normalized subscription and an outcome for the pair of     *)
(* outcome and failure code.                                               *)
(***************************************************************************)
EXTENDS Integers, FiniteSets

CONSTANTS
    Accounts,
    Plans,
    UpcomingPlans, \* those a query for upcoming renewals is about: not cancelled, in range
    Times,     \* the check timestamps that occur, ordered as numbers
    MaxChecks  \* bound: how many checks are ever recorded

ASSUME TimesAssumption == Times \subseteq Int
ASSUME MaxChecksAssumption == MaxChecks \in Nat
ASSUME PlansAssumption == "none" \notin Plans /\ UpcomingPlans \subseteq Plans

VARIABLES
    accounts,  \* connector_accounts: the latest outcome of each account
    checks,    \* subscription_checks, by id
    snapshots, \* subscription_snapshots, by check id
    latest,    \* latest_subscriptions
    commits,   \* ghost: how many checks were recorded so far
    recorded   \* ghost: every check ever recorded, with its commit number

tables == <<accounts, checks, snapshots, latest, commits, recorded>>

\* INTEGER PRIMARY KEY without AUTOINCREMENT
Ids == 1 .. MaxChecks

Outcomes == {"success", "failed", "reauthentication_required"}
Rows == [account : Accounts, at : Times, outcome : Outcomes, seq : 1 .. MaxChecks]
NoRow == [outcome |-> "none"]

\* Ghost: a row of subscription_checks carries its commit number in seq.
TypeOK ==
    /\ accounts \in [Accounts -> [at : Times, outcome : Outcomes] \cup {NoRow}]
    /\ checks \in [Ids -> Rows \cup {NoRow}]
    /\ snapshots \in [Ids -> Plans \cup {"none"}]
    /\ latest \in [Accounts -> [at : Times, plan : Plans, source : Ids \cup {0}]
                                 \cup {NoRow}]
    /\ commits \in 0 .. MaxChecks
    /\ recorded \subseteq [account : Accounts, at : Times, outcome : Outcomes,
                           plan : Plans \cup {"none"}, seq : 1 .. MaxChecks]

Init ==
    /\ accounts = [a \in Accounts |-> NoRow]
    /\ checks = [i \in Ids |-> NoRow]
    /\ snapshots = [i \in Ids |-> "none"]
    /\ latest = [a \in Accounts |-> NoRow]
    /\ commits = 0
    /\ recorded = {}

----
(* The statements of a transaction *)

Exists(row) == row # NoRow

\* The id that SQLite gives to a new row: one more than the largest in use.
IsNextId(i) ==
    /\ \A j \in Ids : Exists(checks[j]) => j < i
    /\ i = 1 \/ \E j \in Ids : j = i - 1 /\ Exists(checks[j])

\* Mutant of UpsertAccount: the last check recorded is taken for the latest.
UpsertAccountInCommitOrder(a, t, outcome) ==
    accounts' = [accounts EXCEPT ![a] = [at |-> t, outcome |-> outcome]]

\* INSERT INTO connector_accounts ... ON CONFLICT DO UPDATE, with its WHERE: an
\* older check does not replace the latest outcome.
UpsertAccount(a, t, outcome) ==
    accounts' = [accounts EXCEPT ![a] =
        IF ~Exists(@) \/ t >= @.at THEN [at |-> t, outcome |-> outcome] ELSE @]

InsertCheck(i, a, t, outcome) ==
    checks' = [checks EXCEPT ![i] =
        [account |-> a, at |-> t, outcome |-> outcome, seq |-> commits + 1]]

\* INSERT INTO latest_subscriptions ... ON CONFLICT DO UPDATE, with its WHERE
UpsertLatest(a, t, plan, i) ==
    latest' = [latest EXCEPT ![a] =
        IF ~Exists(@) \/ t >= @.at
        THEN [at |-> t, plan |-> plan, source |-> i] ELSE @]

Commit(a, t, outcome, plan) ==
    /\ commits < MaxChecks
    /\ commits' = commits + 1
    /\ recorded' = recorded \cup
         {[account |-> a, at |-> t, outcome |-> outcome, plan |-> plan,
           seq |-> commits + 1]}

----
(* The transactions *)

RecordSuccessfulCheck(a, t, plan) ==
    /\ Commit(a, t, "success", plan)
    /\ UpsertAccount(a, t, "success")
    /\ \E i \in Ids :
        /\ IsNextId(i)
        /\ InsertCheck(i, a, t, "success")
        /\ snapshots' = [snapshots EXCEPT ![i] = plan]
        /\ UpsertLatest(a, t, plan, i)

RecordFailedCheck(a, t, outcome) ==
    /\ Commit(a, t, outcome, "none")
    /\ UpsertAccount(a, t, outcome)
    /\ \E i \in Ids : IsNextId(i) /\ InsertCheck(i, a, t, outcome)
    /\ UNCHANGED <<snapshots, latest>>

\* A check that DELETE FROM subscription_checks WHERE checked_at < ? removes.
Pruned(i, before) == Exists(checks[i]) /\ checks[i].at < before

\* Mutant of PruneCheckHistory: the source of the latest subscription dangles.
PruneCheckHistoryKeepingSource(before) ==
    /\ checks' = [i \in Ids |-> IF Pruned(i, before) THEN NoRow ELSE checks[i]]
    /\ snapshots' = [i \in Ids |-> IF Pruned(i, before) THEN "none" ELSE snapshots[i]]
    /\ UNCHANGED <<accounts, latest, commits, recorded>>

\* Mutant of PruneCheckHistory: the latest subscription is deleted with its source.
PruneCheckHistoryCascading(before) ==
    /\ checks' = [i \in Ids |-> IF Pruned(i, before) THEN NoRow ELSE checks[i]]
    /\ snapshots' = [i \in Ids |-> IF Pruned(i, before) THEN "none" ELSE snapshots[i]]
    /\ latest' = [a \in Accounts |->
         IF Exists(latest[a]) /\ latest[a].source # 0 /\ Pruned(latest[a].source, before)
         THEN NoRow ELSE latest[a]]
    /\ UNCHANGED <<accounts, commits, recorded>>

\* Snapshots go with their check (ON DELETE CASCADE); a latest subscription only
\* loses its source (ON DELETE SET NULL).
PruneCheckHistory(before) ==
    /\ checks' = [i \in Ids |-> IF Pruned(i, before) THEN NoRow ELSE checks[i]]
    /\ snapshots' = [i \in Ids |-> IF Pruned(i, before) THEN "none" ELSE snapshots[i]]
    /\ latest' = [a \in Accounts |->
         IF Exists(latest[a]) /\ latest[a].source # 0 /\ Pruned(latest[a].source, before)
         THEN [latest[a] EXCEPT !.source = 0] ELSE latest[a]]
    /\ UNCHANGED <<accounts, commits, recorded>>

Transaction ==
    \/ \E a \in Accounts, t \in Times :
        \/ \E plan \in Plans : RecordSuccessfulCheck(a, t, plan)
        \/ \E outcome \in Outcomes \ {"success"} : RecordFailedCheck(a, t, outcome)
    \/ \E t \in Times : PruneCheckHistory(t) \/ PruneCheckHistory(t + 1)

Spec == Init /\ [][Transaction]_tables

----
(* What the queries return.  A limit is ORDER BY checked_at DESC, id DESC LIMIT. *)

\* Mutant of Precedes: the checks of one instant are listed as they were recorded.
PrecedesByTime(i, j) ==
    \/ checks[i].at > checks[j].at
    \/ checks[i].at = checks[j].at /\ i < j

Precedes(i, j) ==
    \/ checks[i].at > checks[j].at
    \/ checks[i].at = checks[j].at /\ i > j

Listed(selected, limit) ==
    {i \in selected : Cardinality({j \in selected : Precedes(j, i)}) < limit}

ChecksOf(a) == {i \in Ids : Exists(checks[i]) /\ checks[i].account = a}

GetCheckHistory(a, limit) == Listed(ChecksOf(a), limit)

\* Only checks that failed outright, not those that ask for reauthentication.
GetRecentFailedChecks(since, limit) ==
    Listed({i \in Ids : Exists(checks[i]) /\ checks[i].outcome = "failed"
                          /\ checks[i].at >= since}, limit)

GetConnectorsRequiringReauthentication ==
    {a \in Accounts : accounts[a].outcome = "reauthentication_required"}

GetLatestSubscriptionStates == {a \in Accounts : Exists(latest[a])}

\* Without the order by renewal date and its limit.
GetUpcomingRenewals == {a \in GetLatestSubscriptionStates : latest[a].plan \in UpcomingPlans}

\* The subscription that mapCheck attaches to a check: that of its snapshot, if any.
Attached(i) == snapshots[i]

----
(* Properties *)

RecordedOf(a) == {r \in recorded : r.account = a}
SuccessesOf(a) == {r \in RecordedOf(a) : r.outcome = "success"}

\* The newest of a set of recorded checks: the latest instant, and among checks of
\* one instant the one committed last.
Newest(r, set) ==
    /\ r \in set
    /\ \A q \in set : q.at < r.at \/ (q.at = r.at /\ q.seq <= r.seq)

\* The latest outcome of an account is that of its newest recorded check, although
\* checks are committed out of order and the history may have been pruned since.
LatestOutcomeIsNewest ==
    \A a \in Accounts :
        IF RecordedOf(a) = {} THEN accounts[a] = NoRow
        ELSE \E r \in RecordedOf(a) :
                /\ Newest(r, RecordedOf(a))
                /\ accounts[a] = [at |-> r.at, outcome |-> r.outcome]

\* Likewise the latest subscription is that of the newest successful check, also after
\* the check it was taken from was pruned.
LatestSubscriptionIsNewest ==
    \A a \in Accounts :
        IF SuccessesOf(a) = {} THEN latest[a] = NoRow
        ELSE \E r \in SuccessesOf(a) :
                /\ Newest(r, SuccessesOf(a))
                /\ Exists(latest[a])
                /\ latest[a].at = r.at /\ latest[a].plan = r.plan

\* Ids are reused after the newest rows were pruned, and still order the rows of
\* the history as they were committed, so that a query, which lists the checks of one
\* instant by their ids, lists first the one committed last.
HistoryInCommitOrder ==
    \A i, j \in Ids :
        Exists(checks[i]) /\ Exists(checks[j]) =>
            /\ i < j => checks[i].seq < checks[j].seq
            /\ checks[i].at = checks[j].at /\ Precedes(i, j) => checks[i].seq > checks[j].seq

\* The queries agree with each other, although they read three tables of which two
\* outlive the history.  The first check that is listed for an account decides whether
\* it requires reauthentication or is a recent failure, and the first of its successful
\* checks whether a renewal is upcoming, unless a newer check has been pruned and an
\* older one was recorded after that.
QueriesAgree ==
    \A a \in Accounts :
        /\ \A i \in GetCheckHistory(a, 1) :
              \/ checks[i].at < accounts[a].at
              \/ /\ accounts[a] = [at |-> checks[i].at, outcome |-> checks[i].outcome]
                 /\ a \in GetConnectorsRequiringReauthentication
                      => i \notin GetRecentFailedChecks(checks[i].at, MaxChecks)
        /\ \A i \in Listed({j \in ChecksOf(a) : checks[j].outcome = "success"}, 1) :
              /\ a \in GetLatestSubscriptionStates
              /\ \/ checks[i].at < latest[a].at
                 \/ /\ checks[i].at = latest[a].at
                    /\ a \in GetUpcomingRenewals <=> Attached(i) \in UpcomingPlans

\* The check that a latest subscription names as its source is the one it was
\* taken from, never another that got a reused id.
SourceIsFaithful ==
    \A a \in Accounts :
        Exists(latest[a]) /\ latest[a].source # 0 =>
            LET i == latest[a].source IN
            /\ Exists(checks[i])
            /\ checks[i].account = a /\ checks[i].at = latest[a].at
            /\ snapshots[i] = latest[a].plan
====
