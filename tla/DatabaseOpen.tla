---- MODULE DatabaseOpen ----
(***************************************************************************)
(* openSubscriptionHistory (subscription-history.ts) and applyMigrations   *)
(* (migrations.ts), called by several processes on one data directory.     *)
(* Each SQL statement outside a transaction and each file operation is a   *)
(* step of its own; a migration is one transaction and one step.  Openers  *)
(* may fail and try again, and may crash at any step.                      *)
(***************************************************************************)
EXTENDS Integers

CONSTANTS
    Openers,
    CURRENT_SCHEMA_VERSION,
    InitialVersions, \* the versions a database may have from earlier releases
    MaxFaults        \* bound: failures that come from outside, and crashes

ASSUME VersionAssumption == CURRENT_SCHEMA_VERSION \in Nat \ {0}
ASSUME InitialVersionsAssumption == InitialVersions \subseteq Nat
\* There is a newest release.
ASSUME NewestVersionAssumption ==
    \E v \in InitialVersions \cup {CURRENT_SCHEMA_VERSION} :
        \A w \in InitialVersions \cup {CURRENT_SCHEMA_VERSION} : w <= v
ASSUME MaxFaultsAssumption == MaxFaults \in Nat

VARIABLES
    exists,      \* the database file exists
    tables,      \* how many migrations' tables exist
    applied,     \* the versions in schema_migrations
    userVersion, \* PRAGMA user_version
    pc,
    readVersion, \* userVersion as an opener read it
    next,        \* the migration an opener comes to next
    answer,
    faults,      \* how many faults there were
    runs         \* ghost: how often each migration was committed

database == <<exists, tables, applied, userVersion>>
vars == <<database, pc, readVersion, next, answer, faults, runs>>

Versions == 1 .. CURRENT_SCHEMA_VERSION

\* The largest version that occurs.
MaxVersion ==
    CHOOSE v \in InitialVersions \cup {CURRENT_SCHEMA_VERSION} :
        \A w \in InitialVersions \cup {CURRENT_SCHEMA_VERSION} : w <= v

Steps == {"idle", "look", "create", "connect", "version", "applied", "migrate",
          "restrict", "done"}

OpenTypeOK ==
    /\ exists \in BOOLEAN
    /\ tables \in 0 .. MaxVersion
    /\ applied \subseteq 1 .. MaxVersion
    /\ userVersion \in 0 .. MaxVersion
    /\ pc \in [Openers -> Steps]
    /\ readVersion \in [Openers -> 0 .. MaxVersion]
    /\ next \in [Openers -> 1 .. MaxVersion + 1]
    /\ answer \in [Openers -> {"none", "opened", "DATABASE_OPEN_FAILED",
                               "DATABASE_MIGRATION_FAILED"}]
    /\ faults \in 0 .. MaxFaults
    /\ runs \in [1 .. MaxVersion -> Nat]

Init ==
    /\ \E v \in InitialVersions :
        /\ exists \in IF v = 0 THEN BOOLEAN ELSE {TRUE}
        /\ tables = v /\ applied = 1 .. v /\ userVersion = v
    /\ pc = [o \in Openers |-> "idle"]
    /\ readVersion = [o \in Openers |-> 0]
    /\ next = [o \in Openers |-> 1]
    /\ answer = [o \in Openers |-> "none"]
    /\ faults = 0
    /\ runs = [v \in 1 .. MaxVersion |-> 0]

----
Goto(o, step) == pc' = [pc EXCEPT ![o] = step] /\ UNCHANGED answer

Answer(o, a) ==
    /\ pc' = [pc EXCEPT ![o] = "done"]
    /\ answer' = [answer EXCEPT ![o] = a]

\* prepareDatabasePath up to the last look at the database file: the directory and
\* the files that exist are secured.
Prepare(o) ==
    /\ pc[o] = "idle" /\ Goto(o, "look")
    /\ UNCHANGED <<database, readVersion, next, faults, runs>>

Look(o) ==
    /\ pc[o] = "look"
    /\ Goto(o, IF exists THEN "connect" ELSE "create")
    /\ UNCHANGED <<database, readVersion, next, faults, runs>>

\* open with "wx": it fails if the file has come to exist meanwhile.
Create(o) ==
    /\ pc[o] = "create"
    /\ IF exists THEN Answer(o, "DATABASE_OPEN_FAILED") /\ UNCHANGED exists
       ELSE exists' = TRUE /\ Goto(o, "connect")
    /\ UNCHANGED <<tables, applied, userVersion, readVersion, next, faults, runs>>

\* new Database, the pragmas and CREATE TABLE IF NOT EXISTS schema_migrations
Connect(o) ==
    /\ pc[o] = "connect" /\ Goto(o, "version")
    /\ UNCHANGED <<database, readVersion, next, faults, runs>>

ReadVersion(o) ==
    /\ pc[o] = "version" /\ Goto(o, "applied")
    /\ readVersion' = [readVersion EXCEPT ![o] = userVersion]
    /\ UNCHANGED <<database, next, faults, runs>>

\* Mutant of Supported: a database of a later release is taken as migrated.
SupportedAlsoLater(o) ==
    \E v \in 0 .. MaxVersion : applied = 1 .. v /\ readVersion[o] = v

\* The applied migrations are the first of the known ones, and user_version, which
\* was read before, says the same.
Supported(o) ==
    \E v \in 0 .. CURRENT_SCHEMA_VERSION : applied = 1 .. v /\ readVersion[o] = v

\* Migrations are left to be run, from version v on, or none is.
Continue(o, v) ==
    /\ next' = [next EXCEPT ![o] = v]
    /\ Goto(o, IF v > CURRENT_SCHEMA_VERSION THEN "restrict" ELSE "migrate")

ReadApplied(o) ==
    /\ pc[o] = "applied"
    /\ IF Supported(o) THEN Continue(o, readVersion[o] + 1)
       ELSE Answer(o, "DATABASE_MIGRATION_FAILED") /\ UNCHANGED next
    /\ UNCHANGED <<database, readVersion, faults, runs>>

\* Mutant of Migrate: the tables are created only if they do not exist.
MigrateIfNeeded(o) ==
    /\ pc[o] = "migrate"
    /\ LET v == next[o] IN
        /\ tables' = IF tables >= v THEN tables ELSE v
        /\ applied' = applied \cup {v} /\ userVersion' = v
        /\ runs' = [runs EXCEPT ![v] = @ + 1]
        /\ Continue(o, v + 1)
    /\ UNCHANGED <<exists, readVersion, faults>>

\* Mutant of Migrate: the version is not set.
MigrateWithoutVersion(o) ==
    /\ pc[o] = "migrate"
    /\ LET v == next[o] IN
        \/ /\ tables < v
           /\ tables' = v /\ applied' = applied \cup {v}
           /\ runs' = [runs EXCEPT ![v] = @ + 1]
           /\ Continue(o, v + 1)
        \/ /\ tables >= v
           /\ Answer(o, "DATABASE_MIGRATION_FAILED")
           /\ UNCHANGED <<tables, applied, next, runs>>
    /\ UNCHANGED <<exists, userVersion, readVersion, faults>>

\* One migration.  Its SQL fails if its tables exist, and is rolled back.
Migrate(o) ==
    /\ pc[o] = "migrate"
    /\ LET v == next[o] IN
        \/ /\ tables < v
           /\ tables' = v /\ applied' = applied \cup {v} /\ userVersion' = v
           /\ runs' = [runs EXCEPT ![v] = @ + 1]
           /\ Continue(o, v + 1)
        \/ /\ tables >= v
           /\ Answer(o, "DATABASE_MIGRATION_FAILED")
           /\ UNCHANGED <<tables, applied, userVersion, next, runs>>
    /\ UNCHANGED <<exists, readVersion, faults>>

\* restrictDatabaseFiles, and the repository is returned.
Restrict(o) ==
    /\ pc[o] = "restrict" /\ Answer(o, "opened")
    /\ UNCHANGED <<database, readVersion, next, faults, runs>>

\* A file cannot be secured, or the database is busy or cannot be written.  Connect
\* is where the code of the failure changes.
Fault(o) ==
    /\ faults < MaxFaults /\ faults' = faults + 1
    /\ \/ pc[o] \in {"idle", "look", "create", "connect"}
            /\ Answer(o, "DATABASE_OPEN_FAILED")
       \/ pc[o] \in {"connect", "version", "applied", "migrate", "restrict"}
            /\ Answer(o, "DATABASE_MIGRATION_FAILED")
    /\ UNCHANGED <<database, readVersion, next, runs>>

\* The process ends in the middle of opening and is started again.
Crash(o) ==
    /\ faults < MaxFaults /\ faults' = faults + 1
    /\ pc[o] \notin {"idle", "done"} /\ Goto(o, "idle")
    /\ UNCHANGED <<database, readVersion, next, runs>>

\* The caller tries again.
Retry(o) ==
    /\ pc[o] = "done" /\ answer[o] # "opened"
    /\ pc' = [pc EXCEPT ![o] = "idle"]
    /\ answer' = [answer EXCEPT ![o] = "none"]
    /\ UNCHANGED <<database, readVersion, next, faults, runs>>

Step(o) ==
    \/ Prepare(o) \/ Look(o) \/ Create(o) \/ Connect(o) \/ ReadVersion(o)
    \/ ReadApplied(o) \/ Migrate(o) \/ Restrict(o)

Finished ==
    /\ \A o \in Openers : answer[o] = "opened"
    /\ UNCHANGED vars

Next ==
    \/ \E o \in Openers : Step(o) \/ Fault(o) \/ Crash(o) \/ Retry(o)
    \/ Finished

Spec == Init /\ [][Next]_vars

\* Openers go on, and try again when they failed.
FairSpec == Spec /\ \A o \in Openers : WF_vars(Step(o)) /\ WF_vars(Retry(o))

----
(* Properties *)

\* Migrations run once, however many processes open a new database at a time
\* (PERSISTENCE.md, "Schema and transactions").
MigrationsRunOnce == \A v \in 1 .. MaxVersion : runs[v] <= 1

\* A repository is only ever returned for a database of this release's version, even
\* if another process migrated it.
OpenedIsCurrent ==
    \A o \in Openers : answer[o] = "opened" => userVersion = CURRENT_SCHEMA_VERSION

\* Losing the race for a new database, a fault or a crash is never final: a caller
\* that tries again gets in, unless the database is of a later release.
EveryOpenerGetsIn ==
    userVersion <= CURRENT_SCHEMA_VERSION =>
        \A o \in Openers : <>(answer[o] = "opened")
====
