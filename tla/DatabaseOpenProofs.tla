---- MODULE DatabaseOpenProofs ----
(***************************************************************************)
(* Proofs about DatabaseOpen, for any openers, any versions of the         *)
(* database and any number of faults.  The versions only grow, one at a    *)
(* time: an opener that came too late has a migration to run whose tables  *)
(* exist, and fails.                                                       *)
(***************************************************************************)
EXTENDS DatabaseOpen, TLAPS

\* The three places that tell the version of a database agree.
VersionsAgree ==
    /\ tables = userVersion
    /\ applied = 1 .. userVersion

\* A migration that was run is below the version, and was run once.
RunsBelowVersion ==
    \A v \in 1 .. MaxVersion : runs[v] <= 1 /\ (runs[v] # 0 => v <= userVersion)

\* What an opener comes to next was left to it by a version that has only grown.
OpenerInv(o) ==
    /\ pc[o] = "migrate" =>
         next[o] <= CURRENT_SCHEMA_VERSION /\ next[o] <= userVersion + 1
    /\ pc[o] = "restrict" => userVersion = CURRENT_SCHEMA_VERSION
    /\ answer[o] = "opened" => userVersion = CURRENT_SCHEMA_VERSION

OpenInv ==
    /\ OpenTypeOK
    /\ VersionsAgree
    /\ RunsBelowVersion
    /\ \A o \in Openers : OpenerInv(o)

----
(* Lemmas about versions *)

\* The largest version that occurs bounds the others.
LEMMA MaxVersionBounds ==
    /\ MaxVersion \in Nat /\ CURRENT_SCHEMA_VERSION <= MaxVersion
    /\ CURRENT_SCHEMA_VERSION \in Nat
    /\ \A v \in InitialVersions : v \in Nat /\ v <= MaxVersion
  <1> DEFINE all == InitialVersions \cup {CURRENT_SCHEMA_VERSION}
  <1>1. MaxVersion \in all /\ \A w \in all : w <= MaxVersion
    BY NewestVersionAssumption DEF MaxVersion
  <1>2. all \subseteq Nat
    BY InitialVersionsAssumption, VersionAssumption
  <1> QED BY <1>1, <1>2

\* The applied migrations determine the version.
LEMMA IntervalsDiffer ==
    ASSUME NEW v \in Nat, NEW w \in Nat, 1 .. v = 1 .. w
    PROVE  v = w
  <1>1. v <= w
    <2>1. CASE v = 0
      BY <2>1
    <2>2. CASE v # 0
      <3>1. v \in 1 .. w
        BY <2>2
      <3> QED BY <3>1
    <2> QED BY <2>1, <2>2
  <1>2. w <= v
    <2>1. CASE w = 0
      BY <2>1
    <2>2. CASE w # 0
      <3>1. w \in 1 .. v
        BY <2>2
      <3> QED BY <3>1
    <2> QED BY <2>1, <2>2
  <1> QED BY <1>1, <1>2

----
(* The steps *)

\* Any of the earlier versions, and an absent database, satisfy the invariant.
LEMMA InitOpens == Init => OpenInv
  <1> SUFFICES ASSUME Init PROVE OpenInv
    OBVIOUS
  <1>1. PICK v \in InitialVersions :
          /\ exists \in IF v = 0 THEN BOOLEAN ELSE {TRUE}
          /\ tables = v /\ applied = 1 .. v /\ userVersion = v
    BY DEF Init
  <1>2. v \in Nat /\ v <= MaxVersion /\ MaxVersion \in Nat
    BY MaxVersionBounds
  <1>3. OpenTypeOK
    <2>1. exists \in BOOLEAN
      BY <1>1
    <2>2. tables \in 0 .. MaxVersion /\ userVersion \in 0 .. MaxVersion
          /\ applied \subseteq 1 .. MaxVersion
      BY <1>1, <1>2
    <2>3. runs \in [1 .. MaxVersion -> Nat] /\ faults \in 0 .. MaxFaults
      BY MaxFaultsAssumption DEF Init
    <2>4. readVersion \in [Openers -> 0 .. MaxVersion]
          /\ next \in [Openers -> 1 .. MaxVersion + 1]
      BY <1>2 DEF Init
    <2> QED BY <2>1, <2>2, <2>3, <2>4 DEF Init, OpenTypeOK, Steps
  <1>4. VersionsAgree
    BY <1>1 DEF VersionsAgree
  <1>5. RunsBelowVersion
    BY DEF RunsBelowVersion, Init
  <1>6. \A o \in Openers : OpenerInv(o)
    BY DEF OpenerInv, Init
  <1> QED BY <1>3, <1>4, <1>5, <1>6 DEF OpenInv

Answers == {"none", "opened", "DATABASE_OPEN_FAILED", "DATABASE_MIGRATION_FAILED"}

\* The variables of the openers, but for what they read.
PlacesTyped ==
    pc \in [Openers -> Steps] /\ answer \in [Openers -> Answers]

\* What going on and answering change.
LEMMA GotoTypes ==
    ASSUME PlacesTyped, NEW o \in Openers, NEW step \in Steps, Goto(o, step)
    PROVE  /\ PlacesTyped' /\ pc'[o] = step /\ answer' = answer
           /\ \A p \in Openers \ {o} : pc'[p] = pc[p]
  BY DEF PlacesTyped, Goto

\* An opener that answers is done.
LEMMA AnswerTypes ==
    ASSUME PlacesTyped, NEW o \in Openers, NEW a \in Answers, Answer(o, a)
    PROVE  /\ PlacesTyped' /\ pc'[o] = "done" /\ answer'[o] = a
           /\ \A p \in Openers \ {o} : pc'[p] = pc[p] /\ answer'[p] = answer[p]
  BY DEF PlacesTyped, Answer, Steps

\* What an opener does to the database's versions leaves the other openers' claims
\* about them intact, if it does nothing.
LEMMA QuietStep ==
    ASSUME OpenInv, NEW o \in Openers,
           tables' = tables, applied' = applied, userVersion' = userVersion, runs' = runs,
           \A p \in Openers \ {o} :
              pc'[p] = pc[p] /\ next'[p] = next[p] /\ answer'[p] = answer[p],
           OpenTypeOK', OpenerInv(o)'
    PROVE  OpenInv'
  <1>1. VersionsAgree' /\ RunsBelowVersion'
    BY DEF OpenInv, VersionsAgree, RunsBelowVersion
  <1>2. \A p \in Openers \ {o} : OpenerInv(p)'
    BY DEF OpenInv, OpenerInv
  <1> QED BY <1>1, <1>2 DEF OpenInv

\* Only an opener that was let through answers "opened"; the rest of the steps before
\* a migration claims nothing.
LEMMA EarlyStepHolds ==
    ASSUME OpenInv, NEW o \in Openers,
           \/ Prepare(o) \/ Look(o) \/ Create(o) \/ Connect(o) \/ ReadVersion(o)
           \/ Fault(o) \/ Crash(o) \/ Retry(o)
    PROVE  OpenInv'
  <1>0. PlacesTyped /\ OpenTypeOK /\ OpenerInv(o)
    BY DEF OpenInv, OpenTypeOK, PlacesTyped, Answers
  <1>1. /\ tables' = tables /\ applied' = applied /\ userVersion' = userVersion
        /\ runs' = runs /\ next' = next
    BY DEF Prepare, Look, Create, Connect, ReadVersion, Fault, Crash, Retry, database
  <1>2. exists' \in BOOLEAN /\ faults' \in 0 .. MaxFaults
        /\ readVersion' \in [Openers -> 0 .. MaxVersion]
    <2>1. exists' \in BOOLEAN
      BY <1>0 DEF OpenTypeOK, Prepare, Look, Create, Connect, ReadVersion, Fault, Crash,
                  Retry, database
    <2>2. faults' \in 0 .. MaxFaults
      BY <1>0, MaxFaultsAssumption DEF OpenTypeOK, Prepare, Look, Create, Connect,
                  ReadVersion, Fault, Crash, Retry
    <2>3. readVersion' \in [Openers -> 0 .. MaxVersion]
      BY <1>0 DEF OpenTypeOK, Prepare, Look, Create, Connect, ReadVersion, Fault, Crash,
                  Retry
    <2> QED BY <2>1, <2>2, <2>3
  <1>3. /\ PlacesTyped'
        /\ pc'[o] \notin {"migrate", "restrict"}
        /\ answer'[o] = "opened" => answer[o] = "opened"
        /\ \A p \in Openers \ {o} : pc'[p] = pc[p] /\ answer'[p] = answer[p]
    <2>1. ASSUME NEW step \in Steps \ {"migrate", "restrict"}, Goto(o, step)
          PROVE  <1>3!:
      BY <1>0, <2>1, GotoTypes
    <2>2. ASSUME NEW a \in Answers \ {"opened"}, Answer(o, a)
          PROVE  <1>3!:
      BY <1>0, <2>2, AnswerTypes
    <2>3. CASE Prepare(o) \/ Look(o) \/ Connect(o) \/ ReadVersion(o) \/ Crash(o)
      BY <2>1, <2>3 DEF Prepare, Look, Connect, ReadVersion, Crash, Steps
    <2>4. CASE Create(o)
      BY <2>1, <2>2, <2>4 DEF Create, Steps, Answers
    <2>5. CASE Fault(o)
      BY <2>2, <2>5 DEF Fault, Answers
    <2>6. CASE Retry(o)
      BY <1>0, <2>6 DEF Retry, PlacesTyped, Steps, Answers
    <2> QED BY <2>3, <2>4, <2>5, <2>6
  <1>4. OpenTypeOK'
    BY <1>0, <1>1, <1>2, <1>3 DEF OpenTypeOK, PlacesTyped, Answers
  <1>5. OpenerInv(o)'
    BY <1>0, <1>1, <1>3 DEF OpenerInv
  <1> QED BY <1>1, <1>3, <1>4, <1>5, QuietStep

\* A database is let through if it is of one of the known versions, and then the
\* migrations that are left begin with the next one.
LEMMA ReadAppliedHolds ==
    ASSUME OpenInv, NEW o \in Openers, ReadApplied(o)
    PROVE  OpenInv'
  <1>0. PlacesTyped /\ OpenTypeOK /\ OpenerInv(o) /\ VersionsAgree
    BY DEF OpenInv, OpenTypeOK, PlacesTyped, Answers
  <1>1. /\ tables' = tables /\ applied' = applied /\ userVersion' = userVersion
        /\ exists' = exists /\ runs' = runs /\ readVersion' = readVersion /\ faults' = faults
    BY DEF ReadApplied, database
  <1>2. CASE Supported(o)
    <2>1. readVersion[o] = userVersion /\ userVersion <= CURRENT_SCHEMA_VERSION
          /\ userVersion \in Nat
      <3>1. PICK v \in 0 .. CURRENT_SCHEMA_VERSION : applied = 1 .. v /\ readVersion[o] = v
        BY <1>2 DEF Supported
      <3>2. v \in Nat /\ userVersion \in Nat /\ v <= CURRENT_SCHEMA_VERSION
        BY <1>0, MaxVersionBounds DEF OpenTypeOK
      <3>3. v = userVersion
        BY <1>0, <3>1, <3>2, IntervalsDiffer DEF VersionsAgree
      <3> QED BY <3>1, <3>2, <3>3
    <2>2. Continue(o, userVersion + 1)
      BY <1>2, <2>1 DEF ReadApplied
    <2>3. next'[o] = userVersion + 1 /\ next' \in [Openers -> 1 .. MaxVersion + 1]
          /\ \A p \in Openers \ {o} : next'[p] = next[p]
      BY <1>0, <2>1, <2>2, MaxVersionBounds DEF Continue, OpenTypeOK
    <2>4. \E step \in Steps : /\ Goto(o, step) /\ step \in {"migrate", "restrict"}
                              /\ step = "restrict" <=> userVersion + 1 > CURRENT_SCHEMA_VERSION
      BY <2>2 DEF Continue, Steps
    <2>5. /\ PlacesTyped' /\ answer' = answer
          /\ pc'[o] \in {"migrate", "restrict"}
          /\ pc'[o] = "restrict" <=> userVersion + 1 > CURRENT_SCHEMA_VERSION
          /\ \A p \in Openers \ {o} : pc'[p] = pc[p]
      BY <1>0, <2>4, GotoTypes
    <2>6. OpenTypeOK'
      BY <1>0, <1>1, <2>3, <2>5 DEF OpenTypeOK, PlacesTyped, Answers
    <2>7. OpenerInv(o)'
      BY <1>0, <1>1, <2>1, <2>3, <2>5, MaxVersionBounds DEF OpenerInv
    <2> QED BY <1>1, <2>3, <2>5, <2>6, <2>7, QuietStep
  <1>3. CASE ~Supported(o)
    <2>1. Answer(o, "DATABASE_MIGRATION_FAILED") /\ next' = next
      BY <1>3 DEF ReadApplied
    <2>2. /\ PlacesTyped' /\ pc'[o] = "done" /\ answer'[o] = "DATABASE_MIGRATION_FAILED"
          /\ \A p \in Openers \ {o} : pc'[p] = pc[p] /\ answer'[p] = answer[p]
      BY <1>0, <2>1, AnswerTypes DEF Answers
    <2>3. OpenTypeOK'
      BY <1>0, <1>1, <2>1, <2>2 DEF OpenTypeOK, PlacesTyped, Answers
    <2>4. OpenerInv(o)'
      BY <2>2 DEF OpenerInv
    <2> QED BY <1>1, <2>1, <2>2, <2>3, <2>4, QuietStep
  <1> QED BY <1>2, <1>3

\* A migration is committed only as the next one of the database; the openers that
\* wait with the same migration still have one to run, in vain.
LEMMA MigrateHolds ==
    ASSUME OpenInv, NEW o \in Openers, Migrate(o)
    PROVE  OpenInv'
  <1>0. PlacesTyped /\ OpenTypeOK /\ OpenerInv(o) /\ VersionsAgree /\ RunsBelowVersion
    BY DEF OpenInv, OpenTypeOK, PlacesTyped, Answers
  <1>1. /\ exists' = exists /\ readVersion' = readVersion /\ faults' = faults
        /\ pc[o] = "migrate"
    BY DEF Migrate
  <1>2. CASE tables >= next[o] /\ Answer(o, "DATABASE_MIGRATION_FAILED")
             /\ UNCHANGED <<tables, applied, userVersion, next, runs>>
    <2>1. /\ PlacesTyped' /\ pc'[o] = "done" /\ answer'[o] = "DATABASE_MIGRATION_FAILED"
          /\ \A p \in Openers \ {o} : pc'[p] = pc[p] /\ answer'[p] = answer[p]
      BY <1>0, <1>2, AnswerTypes DEF Answers
    <2>2. OpenTypeOK'
      BY <1>0, <1>1, <1>2, <2>1 DEF OpenTypeOK, PlacesTyped, Answers
    <2>3. OpenerInv(o)'
      BY <2>1 DEF OpenerInv
    <2> QED BY <1>2, <2>1, <2>2, <2>3, QuietStep
  <1>3. CASE /\ tables < next[o] /\ tables' = next[o]
             /\ applied' = applied \cup {next[o]} /\ userVersion' = next[o]
             /\ runs' = [runs EXCEPT ![next[o]] = @ + 1]
             /\ Continue(o, next[o] + 1)
    <2>1. userVersion \in Nat /\ next[o] = userVersion + 1
          /\ next[o] <= CURRENT_SCHEMA_VERSION /\ next[o] <= MaxVersion
          /\ MaxVersion \in Nat /\ CURRENT_SCHEMA_VERSION \in Nat
      <3>1. userVersion \in 0 .. MaxVersion /\ next[o] \in 1 .. MaxVersion + 1
            /\ tables = userVersion
        BY <1>0 DEF OpenTypeOK, VersionsAgree
      <3>2. next[o] <= CURRENT_SCHEMA_VERSION /\ next[o] <= userVersion + 1
        BY <1>0, <1>1 DEF OpenerInv
      <3> QED BY <1>3, <3>1, <3>2, MaxVersionBounds
    <2>2. userVersion' = userVersion + 1 /\ tables' = userVersion + 1
          /\ applied' = applied \cup {userVersion + 1}
      BY <1>3, <2>1
    <2>3. next' = [next EXCEPT ![o] = userVersion + 2]
      BY <1>3, <2>1 DEF Continue
    <2>4. next'[o] = userVersion + 2 /\ next' \in [Openers -> 1 .. MaxVersion + 1]
          /\ \A p \in Openers \ {o} : next'[p] = next[p]
      BY <1>0, <2>1, <2>3 DEF OpenTypeOK
    <2>5. \E step \in Steps :
            /\ Goto(o, step) /\ step \in {"migrate", "restrict"}
            /\ step = "restrict" <=> userVersion + 2 > CURRENT_SCHEMA_VERSION
      BY <1>3, <2>1 DEF Continue, Steps
    <2>6. /\ PlacesTyped' /\ answer' = answer
          /\ pc'[o] \in {"migrate", "restrict"}
          /\ pc'[o] = "restrict" <=> userVersion + 2 > CURRENT_SCHEMA_VERSION
          /\ \A p \in Openers \ {o} : pc'[p] = pc[p]
      BY <1>0, <2>5, GotoTypes
    <2>7. VersionsAgree'
      <3>1. applied = 1 .. userVersion
        BY <1>0 DEF VersionsAgree
      <3>2. (1 .. userVersion) \cup {userVersion + 1} = 1 .. userVersion + 1
        BY <2>1
      <3> QED BY <2>2, <3>1, <3>2 DEF VersionsAgree
    <2>8. \A v \in 1 .. MaxVersion : runs[v] \in Nat /\ runs'[v] =
              IF v = userVersion + 1 THEN runs[v] + 1 ELSE runs[v]
      BY <1>0, <1>3, <2>1 DEF OpenTypeOK
    <2>9. RunsBelowVersion'
      <3> SUFFICES ASSUME NEW v \in 1 .. MaxVersion
                   PROVE  runs'[v] <= 1 /\ (runs'[v] # 0 => v <= userVersion')
        BY DEF RunsBelowVersion
      <3>1. runs[v] <= 1 /\ (runs[v] # 0 => v <= userVersion) /\ v \in Nat
        BY <1>0, <2>1 DEF RunsBelowVersion
      <3>2. CASE v = userVersion + 1
        <4>1. runs[v] = 0
          BY <2>1, <3>1, <3>2
        <4> QED BY <2>1, <2>2, <2>8, <3>2, <4>1
      <3>3. CASE v # userVersion + 1
        BY <2>1, <2>2, <2>8, <3>1, <3>3
      <3> QED BY <3>2, <3>3
    <2>10. OpenTypeOK'
      <3>1. tables' \in 0 .. MaxVersion /\ userVersion' \in 0 .. MaxVersion
        BY <2>1, <2>2
      <3>2. applied' \subseteq 1 .. MaxVersion
        BY <1>0, <2>1, <2>2 DEF OpenTypeOK
      <3>3. runs' \in [1 .. MaxVersion -> Nat]
        BY <1>0, <1>3, <2>1 DEF OpenTypeOK
      <3> QED BY <1>0, <1>1, <2>4, <2>6, <3>1, <3>2, <3>3 DEF OpenTypeOK, PlacesTyped, Answers
    <2>11. OpenerInv(o)'
      BY <1>0, <2>1, <2>2, <2>4, <2>6 DEF OpenerInv
    <2>12. \A p \in Openers \ {o} : OpenerInv(p)'
      <3> SUFFICES ASSUME NEW p \in Openers \ {o} PROVE OpenerInv(p)'
        OBVIOUS
      <3>1. OpenerInv(p) /\ next[p] \in Nat
        BY <2>1 DEF OpenInv, OpenTypeOK
      <3>2. pc'[p] = pc[p] /\ next'[p] = next[p] /\ answer'[p] = answer[p]
        BY <2>4, <2>6
      <3> QED BY <2>1, <2>2, <3>1, <3>2 DEF OpenerInv
    <2> QED BY <2>7, <2>9, <2>10, <2>11, <2>12 DEF OpenInv
  <1> QED BY <1>2, <1>3 DEF Migrate

\* The repository is returned as it was let through.
LEMMA RestrictHolds ==
    ASSUME OpenInv, NEW o \in Openers, Restrict(o)
    PROVE  OpenInv'
  <1>0. PlacesTyped /\ OpenTypeOK /\ OpenerInv(o)
    BY DEF OpenInv, OpenTypeOK, PlacesTyped, Answers
  <1>1. /\ tables' = tables /\ applied' = applied /\ userVersion' = userVersion
        /\ exists' = exists /\ runs' = runs /\ readVersion' = readVersion
        /\ faults' = faults /\ next' = next /\ pc[o] = "restrict"
    BY DEF Restrict, database
  <1>2. /\ PlacesTyped' /\ pc'[o] = "done" /\ answer'[o] = "opened"
        /\ \A p \in Openers \ {o} : pc'[p] = pc[p] /\ answer'[p] = answer[p]
    BY <1>0, AnswerTypes DEF Restrict, Answers
  <1>3. OpenTypeOK'
    BY <1>0, <1>1, <1>2 DEF OpenTypeOK, PlacesTyped, Answers
  <1>4. OpenerInv(o)'
    BY <1>0, <1>1, <1>2 DEF OpenerInv
  <1> QED BY <1>1, <1>2, <1>3, <1>4, QuietStep

----
(***************************************************************************)
(* The invariant holds however the openers are interleaved, and wherever   *)
(* they fail or crash.                                                     *)
(***************************************************************************)
THEOREM OpenInvariant == Spec => []OpenInv
<1>1. Init => OpenInv
  BY InitOpens
<1>2. OpenInv /\ [Next]_vars => OpenInv'
  <2> SUFFICES ASSUME OpenInv, [Next]_vars PROVE OpenInv'
    OBVIOUS
  <2>1. ASSUME NEW o \in Openers, Step(o) \/ Fault(o) \/ Crash(o) \/ Retry(o)
        PROVE  OpenInv'
    BY <2>1, EarlyStepHolds, ReadAppliedHolds, MigrateHolds, RestrictHolds DEF Step
  <2>2. CASE UNCHANGED vars
    BY <2>2 DEF vars, database, OpenInv, OpenTypeOK, VersionsAgree, RunsBelowVersion,
                OpenerInv
  <2> QED BY <2>1, <2>2 DEF Next, Finished
<1> QED BY <1>1, <1>2, PTL DEF Spec

\* The versions of a database, and what openers read of them, stay among those that
\* occur.
THEOREM OpenTypeCorrect == Spec => []OpenTypeOK
<1>1. OpenInv => OpenTypeOK
  BY DEF OpenInv
<1> QED BY <1>1, OpenInvariant, PTL

\* However many openers read the version of a database before any of them migrates it,
\* each migration is committed once.
THEOREM MigrationsOnce == Spec => []MigrationsRunOnce
<1>1. OpenInv => MigrationsRunOnce
  BY DEF OpenInv, RunsBelowVersion, MigrationsRunOnce
<1> QED BY <1>1, OpenInvariant, PTL

\* A repository is returned for a database of this release's version and never for an
\* older or newer one, and no opener that is still under way changes that.
THEOREM OpenedAtCurrent == Spec => []OpenedIsCurrent
<1>1. OpenInv => OpenedIsCurrent
  BY DEF OpenInv, OpenerInv, OpenedIsCurrent
<1> QED BY <1>1, OpenInvariant, PTL
====
