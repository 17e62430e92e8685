# VaultScout: models, checks and proofs

VaultScout lets an agent ask for the state of a subscription without giving it
the credentials. This directory holds TLA+ models of the parts of it that have
state and failures, the TLC configurations that check them on small instances,
and proofs, checked by TLAPS, that their safety properties hold for every value
of the constants.

Paths are relative to the repository's root; `broker/`, `core/` and
`persistence/` are the directories of that name under `src/`.

## 1. The system

One Node.js process serves the calls of an agent. Everything runs on one event
loop, so the code between two awaits is one step, and what can happen at an
await is where the difficulty is: a deadline, a page that navigates, a browser
or a child process that goes, another call, another VaultScout process on the
same data directory, a crash.

    agent -> DomainBoundCredentialBroker.checkSubscription
               -> executor (deadline, history row)
                    -> runControlledSyntheticBrowserCheck
                         -> SessionVault.load / save   -> key provider -> OS key store
                         -> Playwright browser, ExactOriginBrowserBoundary
                         -> bound context.usePassword  -> 1Password backend -> `op` process
                    -> SubscriptionHistoryRepository   -> SQLite
               <- one code of a fixed vocabulary

### Components

| component | state | operations | what is hard | what makes it correct |
|---|---|---|---|---|
| credential broker, `broker/credential-broker.ts` | bindings, the credential failure kept in a call's context | `checkSubscription`, `usePasswordForObservedUrl` | a failure takes one way to the agent and another to the history | the two tell the same story |
| check executor, `broker/synthetic-subscription-check.ts` | the `AbortController` of a call | `execute` | the deadline passes at any await, also after success | a late check is no success; a check gets one answer and at most one row |
| controlled browser, `broker/controlled-synthetic-browser.ts` | browser, page URL, boundary violation, loaded session | routes and listeners, reuse of a session, login, capture, save, extraction, clean-up | the page moves and the browser goes during every await | a violation is final; a check that hears its deadline ends, with its browser closed if it can be; only an authenticated page counts |
| session vault, `core/session-vault.ts` | one encrypted file per account | `load`, `save`, `requireReauthentication` | crash or loss of power inside an atomic write; overlapping calls | a file is whole; what was acknowledged stays, where the code flushes it; an unreadable file is not replaced |
| session key provider, `core/session-key-provider.ts` | the key in the OS key store, a shared promise per process | `getKey` | two requests that both find no key | one data directory, one key |
| subscription history, `persistence/subscription-history.ts` | four tables, an open connection | two `record...Check`, `pruneCheckHistory`, readers, `close` | checks committed out of order of their timestamps; a call suspended between its commit and its answer | the views show the newest check; an answer tells the effect |
| migrations, `persistence/migrations.ts` | `user_version`, `schema_migrations`, tables | `applyMigrations` | several processes open a new database at once | a migration runs once; no repository on a wrong version; a loser of the race can retry |
| 1Password backend, `broker/one-password-backend.ts` | the buffers of one read | `usePassword` | the process ends, the caller cancels and the callback fails in any order | only a clean, current read is delivered; buffers are cleared |
| 1Password process runner, `broker/one-password-process-runner.ts` | child process, two timers, an abort listener, captured output | `run` | timeout, cancellation, output limit, exit, `close`, signals race each other | the first reason is reported; nothing is left behind; a read is always answered |
| credential bindings, `broker/credential-binding.ts` | none | validation of bindings | four rules about URLs in four files | the rules agree on what was accepted; an account has one binding |
| interactive authentication, `core/interactive-authentication.ts` | a headed browser | `authenticateInteractively` | the user, another call or a crash at any await; three kinds of errors from one try block | the answer tells what became of the stored session |
| file permissions, `core/secure-filesystem.ts` | none | `secureFile`, `secureDirectory` | fails between other steps | part of the callers' steps |
| fixture harness, connector contracts, schema, command line, fake backend | none of their own | pure functions, test doubles | none | not modelled |

`PROJECT.json` lists the same components with their sources, and every hazard
at its line with the property that guards it.

## 2. Modules

| module | models | composed of |
|---|---|---|
| `FailureCodes` | the failure vocabularies and the tables that translate between them | |
| `SubscriptionCheck` | `checkSubscription` from request to answer: broker, executor, browser flow | extends `FailureCodes` |
| `SubscriptionCheckProofs` | proofs about it | |
| `BrowserBoundary` | the routes and listeners of the controlled browser, and the login that relies on them | |
| `BrowserBoundaryProofs` | proofs about it | |
| `CheckConfiguration` | validation of bindings, backends and configurations, the rules about URLs, the lookup of a request | |
| `CheckResult` | from the executor to the answer: the three schemas a subscription passes | extends `CheckConfiguration`, `FailureCodes` |
| `CheckResultProofs` | proofs about it and `CheckConfiguration` | |
| `CredentialRead` | abstract: what a credential backend promises of one `usePassword` | extends `FailureCodes` |
| `OnePasswordProcess` | one `usePassword` call with its child process | implements `CredentialRead` |
| `OnePasswordProcessProofs` | proofs about it | |
| `CheckWithOnePassword` | a check and the read it starts, on one event loop with one signal | joins `SubscriptionCheck` and `OnePasswordProcess`, implements `SubscriptionCheck` |
| `StoredSession` | abstract: the session of an account as a register | |
| `SessionVault` | the vault with its key provider, several processes, crashes | implements `StoredSession` |
| `InteractiveAuthentication` | a login by hand and what it does with the vault | extends `SessionVault` |
| `SessionVaultProofs` | proofs about the vault, its refinement of `StoredSession` and the login | extends `InteractiveAuthentication` |
| `HistoryTables` | the four tables, the three transactions and the queries | |
| `HistoryTablesProofs` | proofs about them | |
| `SubscriptionHistory` | calls on open repositories around the transactions | extends `HistoryTables` and takes its transactions as steps |
| `SubscriptionHistoryProofs` | proofs about the calls | extends `HistoryTablesProofs` |
| `DatabaseOpen` | `openSubscriptionHistory` and `applyMigrations` by several processes | |
| `DatabaseOpenProofs` | proofs about it | |
| `MC...` | constants for TLC only | |

Operators named "... Mutant of X" are wrong variants of X, kept in the modules
so that each property can be seen to fail on a plausible bug. No specification
uses them. The type predicates of the history, the opening and the vault
(`HistoryTypeOK`, `OpenTypeOK`, `VaultTypeOK`) are proved and not listed in a run.

### FailureCodes

The code sets are the TypeScript unions. An error is a record with its class
(`backend`, `browser` or `other`) and code, because the executor and the broker
dispatch on the class first. `MapBackendFailure` is the broker's table,
`PublicFailure` and `PersistenceOutcome` are the executor's, the second one with
the order of its tests (authentication, response, connection, the rest).

### SubscriptionCheck

`pc[c]` is the await at which check `c` is suspended. Each action is the code
from the resumption of that await to the next one, including the catch blocks
it passes: `Stop` puts an error through the outer catch of
`runControlledSyntheticBrowserCheck`, `BackendFailed` and `ConsumerFailed` put it
through the broker's and the callback's. The steps are, in order, `load`,
`launch`, `setup`, then either `reuseNav`, `reuseProbe`, `reuseExtract` or the
login (`loginNav`, `detect`, `form`, `backend`, `fill`, `submit`, `postDetect`,
`postProbe`, `capture`, `save`, `extract`), then `cleanup`, `record`, `done`.

Around the steps, `Deadline`, `BrowserExits`, `CloseFails`, `PageMoves` and
`VaultChanges` may happen at any time they can in the program. A browser told to
close is `closing` until it is gone; a call on it may still settle until then.
A close that fails is ignored, at the deadline (`controlled-synthetic-browser.ts:364`)
as at clean-up (`:491`): the browser is then `stuck`, and may outlive its check.

URLs are abstracted to what the code tells apart: the billing page and the login
page of the allowed origin, a page of another origin, and the blank page. The
stored session is abstracted to the state that `load` reports. The password, the
subscription and the storage state do not occur: no decision depends on them.
The `saved` variable is a ghost.

The consumer's fills and the checks between them (`fill`) are one step with
every outcome they can have; the boundary's request handlers are one flag that
page movements set. That a step sees at once what the page did during its await
is what `BrowserBoundary` justifies.

### BrowserBoundary

The page acts in the browser and the flow in the program. Requests, navigations,
frames, other pages, sockets and service workers travel through `pipe`, one
channel that keeps the order, as do the answers of the flow's own calls; the
handlers that `install` and `attach` register run one per event (`On...`), and
the flow looks at what it knows when one of its calls is answered (`OnAnswer`,
`OnFormAction`, `OnPassword`). `trespassed` is the ghost of what really happened,
`witnessed` its value at the last answer. A redirected request is announced and
not routed, which is what the `request` listener next to the route is for.

### CheckConfiguration and CheckResult

`CheckConfiguration` starts from any small configuration, right or wrong, of a
broker or of a synthetic check, and takes it through the validations in the
order of the code to the two maps of the broker and to one request's bound
context. URLs are records of the parts that the rules look at. The four rules
`ExactAllowedOrigin`, `OriginMatchesBinding`, `AssertExactOrigin` and
`IsPermittedInteractiveLoginUrl` are translated from four files one by one,
brackets of IPv6 addresses included.

`CheckResult` goes on: `connector.extract` returns anything,
`reconstructSubscription` takes it or not, the history normalizes and stores it,
the broker parses the result once more. A text is empty, blank, plain, padded or
too long before or after trimming, because `z.string().min(1)` and
`z.string().trim().min(1)` differ on exactly these. The fields that all schemas
restrict alike are one field. A database may fail before the transaction of a
record call or after it (`Fault`): the call rejects either way, and in the second
case its row is there.

### HistoryTables and SubscriptionHistory

A transaction is `BEGIN IMMEDIATE ... COMMIT` and hence one step; SQLite rolls
back whatever fails inside. An id is the largest one in use plus one, as SQLite
gives to an `INTEGER PRIMARY KEY` without `AUTOINCREMENT`, so ids are reused
after the newest rows are pruned. The upserts have the `WHERE` of the SQL, the
prune has the delete rules of the schema (`CASCADE` for snapshots, `SET NULL` for
the source of the latest subscription). `recorded`, `commits` and the `seq` of a
row are ghosts against which the views are compared. The queries are operators
on the tables with the `WHERE`, `ORDER BY` and `LIMIT` of their SQL.

`SubscriptionHistory` takes these transactions as the SQL of a call. After it, a
call walks over the database file and its two WAL files (`lstat`, `chmod`, one
await each) before it answers, and other calls, also `close`, come in between.
A closing last connection removes the WAL files. The ghost `faults` has the calls
whose checkpoint or file failed by itself.

### DatabaseOpen

Each opener goes through the checks of the path, the exclusive creation of the
file, the connection, the reading of `user_version`, the reading of
`schema_migrations`, one transaction for each missing migration, and the file
modes. Openers may meet a fault or crash, and try again. The database may be
new, of an earlier release, of this one or of a later one.

### StoredSession, SessionVault and InteractiveAuthentication

`StoredSession` is the promise: every call reads the register once, writes it at
most once and in one step, and is answered for what it did. A loss of power may
take back writes. On a medium that `flushes` and is `rooted` it takes none that was
acknowledged and nothing that was acknowledged before; on one that does not flush
it may take those too, and on one that is not rooted yet everything. A register
that holds garbage is never written. It also
says what the code does *not* promise: `requireReauthentication` marks the
session it has read, so that a session saved meanwhile is lost to it.

In `SessionVault` a call is split at its file operations: the preparation of the
directory, the look at the file and its reading, the wait for the key,
decryption, and the steps of `atomicWrite` (create, write and flush, rename, mode
and flush of the directory, removal of the temporary file on failure).
Encryption is abstracted to the key a content was written under. The key
provider is modelled with the promise that calls of one process share; the key
store is external and may fail before or after it has stored the key.
`processOf` says which process makes a call; it is chosen among `Assignments`
once and for all.

A process may crash, which loses its calls and its promise. A loss of power
stops every process and leaves in the directory either what was there at the
last flush or something renamed since; the file is torn if its content was not
flushed. Two things limit what the flush is worth, and both are in the model.
On win32 the code skips it and acknowledges the write all the same
(`session-vault.ts:266`, `platform`). And the directories that a first save makes
(`secureDirectory`, `:338-345`) are not flushed to the ones above them:
`directory` is `new` from then on, and a loss of power takes it away with the file
in it or leaves it, for good then. In these two cases (`Exposed`) the ghost
`acked` starts again after a loss of power. The clock behind expiry, `createdAt` and `updatedAt` are left out: a
stored session may be found valid or expired.

`Register` is the refinement mapping: the register holds what the file holds, a
call has written from its rename on, what the call has read is the content it
keeps, and what a loss of power may bring up is what is durable or renamed since.
The medium flushes if the platform is not win32, and is rooted if the directory is
`durable`.
`ImplementsRegister` is `StoredSession`'s specification under that mapping.

`InteractiveAuthentication` adds a login: the URL is checked, the browser is
launched, the user logs in or closes the window, the state is captured and saved
by the call `Login` of the vault, and the browser is told to close on every way
out; a close that fails is ignored (`interactive-authentication.ts:94`), and the
browser may stay. `AnswerTellsSession` speaks of the stored session only.
Its errors are of three kinds, the vault's being rethrown. The other call, the
key store and the crashes of `SessionVault` go on around it; `loginPc = "none"`
are the behaviours of the vault alone.

### OnePasswordProcess

Each action is one callback of the event loop: the timeout, the abort listener,
a chunk on stdout or stderr, `close`, the second signal, and the resumption of
the two awaits of `usePassword`; `Exit` is the child's own. `Terminate` and
`Settle` are the closures of that name in `run` (with `cleanup` and
`clearCapturedOutput`). A signal that cannot be sent makes `kill` emit `error`
synchronously, which fails the call *inside* `terminate`; the second timer is
armed after that, as in the code. The error listener hears one event only.
`EventLoopIsFree` says that the continuation of a settled promise runs before
the next event.

### CredentialRead and CheckWithOnePassword

`CredentialRead` is what the interface in `broker/credential-backend.ts`
promises the broker: the call is answered, hands the password over at most once,
never after it was cancelled, and reports a cancellation only if there was one.
The variables of the same names in `OnePasswordProcess` are the mapping;
`KeepsContract` is the specification with its fairness.

`CheckWithOnePassword` puts the process where `SubscriptionCheck` has one step.
The two share the signal, whose event is heard by the browser flow and by the
process runner in one turn (`JointDeadline`), and the password callback of the
read is the form filling of the check (`Callback...`). `ImplementsCheck` says
that the pair does only what `SubscriptionCheck` does, and is as fair: the
coarse step, for which `SubscriptionCheck` assumes that it ends of itself, does
end. Its premise is that the process runner has not ended the program by an
error that nobody hears (section 3).

## 3. Runs

| run | instance | asks | answer |
|---|---|---|---|
| `subscription_check` | one check, all landings, all backend failures, the 1Password backend | does a check keep its promises through every await, failure, deadline and page movement? | holds: `OutcomeAgreement`, `ReauthenticationMeansNoNewSession`, `SuccessIsAuthenticated`, `CancelledMeansTimedOut`, `ViolationIsFatal`, `LateCheckIsNoSuccess`, `HeardDeadlineAnswers` |
| `check_with_one_password` | one check, two landings, limit of one byte | is the check with its 1Password process a check as `SubscriptionCheck` describes it? | holds: `ImplementsCheck` |
| `one_password_read` | one read, limit of two bytes, a callback that fails in three ways | is only a clean read delivered, the first reason reported, nothing left, and does the read keep the contract of a backend? | holds: `OnlyCleanReadsAreDelivered`, `TerminationIsReported`, `NoOutputIsKept`, `TimersAreReleased`, `NoProcessIsLeft`, `KeepsContract` |
| `browser_boundary` | a page with two acts of its own | does the login stop once the page has trespassed, however briefly? | holds: `SafeMeansUntouched` |
| `check_result` | two accounts, configurations of up to two bindings, any request, any extracted subscription | do the rules about URLs agree, is a check of one account throughout, and do the three schemas agree? | holds: `OriginRulesAgree`, `OneAccountThroughout`, `StoredIsNormalized`, `AnswerIsStored` |
| `vault` | two calls in one process or in two, one of them perhaps of a login, on a platform that flushes directories and on win32, in a directory that is there or is made, one crash or loss of power | is the vault the register, is an acknowledged session kept where the code flushes it, are temporary files removed, has a process one key, is every call answered, and does a login tell the truth? | holds: `ImplementsRegister`, `AcknowledgedWriteSurvives`, `TemporariesAreRemoved`, `ProcessHasOneKey`, `EveryVaultCallAnswers`, `AnswerTellsSession` |
| `history_tables` | two accounts (symmetric), two plans, two instants, four checks, prunes anywhere | do the views, the history, the snapshots and the queries agree with each other and with what was recorded? | holds: `LatestOutcomeIsNewest`, `LatestSubscriptionIsNewest`, `HistoryInCommitOrder`, `QueriesAgree`, `SourceIsFaithful` |
| `history_calls` | two repositories, two calls, two checks | do answers tell effects, does no closing turn a committed call into a failure while a connection is open, does each call answer? | holds: `AnswerTellsEffect`, `CommittedCallFailsForReason`, `EveryCallAnswers` |
| `database_open` | three openers, two migrations, one fault or crash, initial versions 0 to 3 | do migrations run once and does everybody get in? | holds: `MigrationsRunOnce`, `OpenedIsCurrent`, `EveryOpenerGetsIn` |
| `deadline_closes_browser` | as `subscription_check` | what the test "cancels a hanging login and closes the browser" says, for a deadline at any time | violated |
| `verified_session_is_reused` | as `subscription_check` | what `docs/SYNTHETIC_CHECK.md` says of a verified session | violated |
| `vault_key_race` | two calls in two processes, without crashes | one key per data directory (`docs/SESSION_VAULT.md`) | violated |

### Where the documents say more than the code does

Three runs show it:

1. The abort listener is attached after launch, context, routing and page
   creation, and a listener added to an aborted signal never fires. A deadline
   in that window leaves the browser open and the check running.
   `LateCheckIsNoSuccess` still holds: such a check never records a success. And
   `HeardDeadlineAnswers` holds of the deadlines that are heard.
2. An exception of `connector.extract` on a reused session whose billing marker
   was found falls through to the login and calls the credential backend.
3. Two processes on a new data directory both find no key; the second replaces
   the key under which the first has stored a session. Within one process this
   cannot happen (`ProcessHasOneKey`).

Five more are behaviours of the models, without a run of their own:

4. A write is answered with `DATABASE_WRITE_FAILED` although it was committed,
   if the last connection is closed while the write walks over the WAL files
   (`docs/PERSISTENCE.md` has every failure roll back). What does hold: "ok" means
   committed (`AnswerTellsEffect`), and a committed call fails only for a fault of
   its own or once the last connection is closed (`CommittedCallFailsForReason`).
   For the same reason a check may end as `PERSISTENCE_FAILED` and have its row
   (`AnswerIsStored`).
5. If neither signal can be sent to the child, the second `error` event finds no
   listener and is thrown out of a timer (`uncaught` in `OnePasswordProcess`;
   `docs/ONE_PASSWORD.md` has the escalation fail closed).
6. A successful check that was started before another of its account and is
   recorded after it does not become the current outcome
   (`docs/PERSISTENCE.md` says it of every successful check).
   `LatestOutcomeIsNewest` has the rule that the code follows.
7. A plan name of white space only passes the browser flow and the broker and is
   refused by the history: the check ends as `PERSISTENCE_FAILED` with no row at
   all (`docs/SYNTHETIC_CHECK.md` has one of the two rows persisted). The last
   conjunct of `AnswerIsStored` says that this is the only such case besides a
   database that fails.
8. An acknowledged session may be lost with the power, on win32 and in a directory
   that was just made, as section 2 says. `docs/SESSION_VAULT.md:57-58` has the
   parent directory flushed "where supported" and is silent on the directories
   above it. `AcknowledgedWriteSurvives` and `ImplementsRegister` have what is left
   of the promise there.

### Bounds

* One check: the calls of one account share only the stored session, and
  `VaultChanges` does to it, at any time, what another call could. The proofs
  are for any set of checks.
* Two instants in `history_tables` give the three cases that the SQL tells
  apart (older, equal, newer); prunes take each instant and the one after it, so
  nothing, some or all rows go. Four checks are enough for an id to be reused
  twice and for two accounts to have two checks each.
* Two calls on two repositories: a hazard of `SubscriptionHistory` needs one
  call that is suspended and one that closes.
* Three openers: two race, the third sees the result of the race. Two migrations
  make a database that is partly migrated possible. `InitialVersions` has one
  version above the current one.
* Two vault calls: one that writes between another's read and write. One crash:
  after it the calls that had not begun are made by a new process. Two processes
  are as many as there are calls. A directory is absent or durable at the start; an
  absent one is the only way to a `new` one.
* `browser_boundary`: two acts of the page are a trespass and its reversal (a
  frame that comes and goes, a page that leaves and returns), at every pair of
  places in the flow.
* `check_with_one_password`: landings inside and outside the origin, since
  `subscription_check` has the others; one byte of output or too many.
* `check_result`: two bindings can clash, two backends can repeat. A binding has
  any origin, or any mistake in its other parts.
* The output limit of two bytes with chunks of one and of three: below, at and
  above the limit, in one chunk or in several.
* `MaxChecks`, `MaxFaults`, `MaxCrashes` and `MaxIncidents` appear in the guards
  of `Commit`, of `Fault` and `Crash`, of `Stop` and of `Incident`; `MaxBindings`
  in the configurations. Symmetry is used only in
  `history_tables`, on accounts, in a run without liveness.

Deadlock is checked in every run; a system
that is through stutters in a step that is enabled only when every call has been
answered (`Finished`, `LoginFinished`, `JointFinished`, and the last disjunct of `HistoryNext`).

## 4. Fairness

Fairness is weak and is stated per actor on the steps the event loop or the
operating system is bound to take.

* `SubscriptionCheck`: vault and database operations and `browser.close()`
  settle; a Playwright call on a browser that is gone rejects; a browser that
  was told to close goes, unless its close fails (`CloseFails`, which is not fair).
  A call on a live page may hang for ever, and the
  deadline itself is not fair: `HeardDeadlineAnswers` starts from one that was
  heard.
* `SubscriptionHistory`, `SessionVault`: file operations and the key store
  settle, well or badly. No caller is obliged to call, and no process to crash.
  In `SubscriptionHistory` a failing file operation is the separate, unfair
  action `FileFails`, so that the answer does not come about by failing; in
  `SessionVault` success and failure of an operation are both steps towards an
  answer, and nothing obliges either to be the one. `FairLoginSpec` is the same
  with a login around it, of whose user nothing is assumed.
* `DatabaseOpen`: openers go on, and retry when they failed. Faults are bounded.
* `OnePasswordProcess`: timers fire, awaits resume, the callback returns. Nothing
  is assumed of the child: it may run on, ignore the first signal and never
  close its output. That every read is answered, which `KeepsContract` includes,
  rests on the second timer. `CredentialRead` itself assumes what it promises: a
  read that was started fails or delivers, and the callback returns.
* `CheckWithOnePassword`: the fairness of the two, less what it is to show. That
  the step `backend` of the check ends is not assumed but follows from the timers
  and awaits of the read.

## 5. Proofs

Every invariant and every safety action property that a passing run checks is
also proved, for every value of the constants. Two refinements are proved as
well. The theorems cite these named assumptions:

| module | assumed | because |
|---|---|---|
| `SubscriptionCheck` | landings are URLs, explored backend failures are backend failures, the backend is one of two kinds | the TypeScript unions |
| `OnePasswordProcess` | the output limit is positive, the callback fails with codes of the vocabulary | the validation of the configuration, the types |
| `SessionVault` | the assignments give each call a process, finitely many calls, names of calls differ from the three other names in use | a run of the program makes finitely many calls; the rest fixes the encoding |
| `InteractiveAuthentication` | the login's call is a call | the encoding |
| `HistoryTables` | instants are integers, `MaxChecks` is a number, "none" is no plan and upcoming plans are plans | the encoding |
| `DatabaseOpen` | versions are numbers and the current one is positive; there is a newest version among those a database may have | `CURRENT_SCHEMA_VERSION` in `migrations.ts`; the releases are finitely many |

`CheckResult`, `CheckConfiguration` and `BrowserBoundary` need none. Bounds
(`MaxChecks`, `MaxFaults`, `MaxCrashes`, `MaxIncidents`, `MaxBindings`) are
parameters: the theorems hold for each of their values.

The inductive invariants were checked by TLC on the instances of the runs before
they were proved. Each proof has the same three parts: the initial states satisfy
the invariant, every action keeps it (one step or lemma per action), and it
implies the property.

### SubscriptionCheckProofs

For any set of checks, any landings and any backend: `TypeCorrect`,
`AnswersAgreeWithHistory` (`OutcomeAgreement`), `NoReauthenticationAfterSave`,
`SuccessHadSession`, `CancelledWasTimedOut`,
`LateCheckFails` and `ViolationsAreFatal`.

`OutcomeAgreement` speaks only of a check that is done, so it is not inductive.
`IInv` adds what the code keeps up on the way: nothing is answered or recorded
before the end (`Unanswered`), no credential failure is kept while a check goes
on (`NoFailureYet`), a kept failure belongs to the error that is on its way out,
errors of the authentication kind come only before a save, and so on, per
check (`CheckInv`). The argument has three layers: lemmas about the tables (for
each code, the row agrees with the answer), lemmas about the ways an error takes
(`StopInv`, `BackendFailedInv`, `ConsumerFailedInv`), and one lemma per group of
steps. The code of every check touches only its own state and the stored
session; `SameState` and `OtherChecks` are that frame argument, from one lemma
per way in which a check stops (`StopElsewhere`, `FailureElsewhere`) and one for
the rest of the flow (`OtherFlows`).

Three properties are about a check's past. `CancelledInv` says that a
cancellation that is kept or answered has a deadline behind it: only `CANCELLED`
maps to `REQUEST_CANCELLED` (`OnlyCancelled`), and a signal that timed out stays
so. `LateCheckIsNoSuccess` and `ViolationIsFatal` have the form
`[](P => []Q)`: from a state with P on, `LateInv` (`ViolatedInv`) holds and is
kept by every step. The first rests on the look at the signal that ends the
browser flow (`CleanUp`), the second on every page step before the capture
looking at the boundary (`ViolatedGoesOn`).

### OnePasswordProcessProofs

For any output limit and any failures of the callback: `TypeCorrect`,
`DeliveryIsClean` (`OnlyCleanReadsAreDelivered`), `FirstReasonIsReported`
(`TerminationIsReported`), `OutputIsCleared` (`NoOutputIsKept`),
`CleanupIsComplete` (`TimersAreReleased`), `ProcessIsOver` (`NoProcessIsLeft`)
and `ContractIsKept`.

The invariant `Inductive` joins the properties with what makes them inductive:
a call that has not begun has no process, timer or listener (`NotBegun`); only a
call that waits for its process has one that is not settled
(`WaitsForProcess`); a second timer or output above the limit implies a reason
for termination, and a settled call that was terminated has that reason as its
result as long as no signal failed (`EndedForReason`); and a resolved call has
a closed process, no reason for termination and an exit without a signal
(`ResolvedCleanly`).

`ContractIsKept` is `Spec => Contract!Spec`, the safety of `KeepsContract`: the
events of the process are stutters of `CredentialRead`, and spawning, delivery,
failure and return are its steps. It needs that a result `CANCELLED` has an
aborted signal behind it (`CancelledForReason`).

### HistoryTablesProofs and SubscriptionHistoryProofs

For any accounts, plans and instants and any number of checks:
`LatestOutcome`, `LatestSubscription`, `CommitOrder`, `Source` and
`QueriesTellOneStory`, for the properties `LatestOutcomeIsNewest`,
`LatestSubscriptionIsNewest`, `HistoryInCommitOrder`, `SourceIsFaithful` and
`QueriesAgree`.

The views must be right after rows are pruned and their ids used again. So
`HistoryInv` relates the tables to the ghost `recorded`, which forgets nothing:
every row is a recorded check (`RowsAreRecorded`), snapshots are exactly those of
successes, ids order the rows as they were committed, and pruning goes by age:
while a row remains, so do the checks that are as old or newer and were
recorded after it (`NewerChecksRemain`). The last part is what makes
`SourceIsFaithful` inductive, since an id is free again only after all later
rows are gone; and it gives `QueriesAgree`, which compares the newest row of the
history with the view.

A step of `SubscriptionHistory` is a transaction or leaves the tables alone, so
it keeps `HistoryInv`; `CallInv` adds what a call has committed where it is
suspended. `AnswersTellEffects` follows from both: a recorded check is no newer
than the newest of its account, and that is what `connector_accounts` shows.
`FailuresHaveReasons` (`CommittedCallFailsForReason`) rests on two facts more: the
WAL files are there as long as a connection is open (`FilesOfConnections`), so that
a file found by `lstat` is gone at `chmod` only if there is none; and no call is at
the `chmod` of a rollback journal, which does not exist in WAL mode.

### DatabaseOpenProofs

For any openers, initial versions and faults: `MigrationsOnce`
(`MigrationsRunOnce`) and `OpenedAtCurrent` (`OpenedIsCurrent`). `OpenInv` has
the three places that tell a version agree (`VersionsAgree`) and bounds what an
opener does next by the version, which only grows: an opener that
comes too late has a migration to run whose tables exist, and its transaction
fails.

### SessionVaultProofs

For any calls, processes, crashes and losses of power: `AcknowledgedSurvive`
(`AcknowledgedWriteSurvives`), `TemporariesRemoved` (`TemporariesAreRemoved`),
`OneKeyPerProcess` (`ProcessHasOneKey`), `VaultImplementsRegister`
(`ImplementsRegister`) and, of the login, `LoginAnswer` (`AnswerTellsSession`).

`VaultInv` has one part per layer. `DiskInv` is about all a loss of power may
bring up, not only the file: it was flushed before it was renamed, and its
login is one that was written. `AckInv` says that the file is at least as new as
the newest acknowledged write and, except on win32, all that a loss of power may
bring up with it; the flush of the directory, on which `unflushed` becomes empty,
establishes it. On win32, and where the directory itself is not durable, a loss of
power takes `AckInv` down to nothing acknowledged (`Exposed`). `ReadInv`, `TmpInv` and `PlaceInv`
say of each call what it has read, what its temporary file is and what its
answer means;
`ReadInv` has a file that is garbage stay away from every call that may still
replace it. `OneKey` is conditional: if all calls are of one process, a key is
generated only if there is none, because the request is shared.

The refinement proof has a lemma per action: the rename is the register's write,
the reading of the file its read, the flush of the directory its
acknowledgement, a crash its crash, and keys and temporary files do not show. `LoginNextIsNext` shows that
the login only takes steps of the vault, so that `VaultInv` holds around it, and
`LoginInv` relates the login to its call.

### BrowserBoundaryProofs

For any number of incidents: `SafeIsUntouched` (`SafeMeansUntouched`).
The property holds because `pipe` keeps the order, so the invariant is about
what is in the pipe: a trespass is known or will be told by a message in it, and
before every answer that was given after a trespass there is a message whose
handler registers a violation (`PipeInv`). `Telling` names these messages; the
redirected request, which is announced but not routed, is among them.

### CheckResultProofs

For any accounts and any number of bindings: `AccountThroughout`
(`OneAccountThroughout`), `RulesAgree` (`OriginRulesAgree`),
`NormalizedIsStored` (`StoredIsNormalized`), `StoredIsAnswered`
(`AnswerIsStored`).

`Accepted` says what the maps of the broker hold of a configuration that passed
the validation; that no account has two bindings is used there. `StageInv` says
for each stage what the check, the extraction, the row and the result have in
common. The lemma `ExactOriginsAgree` compares the four rules about URLs on the
exact origins that validation lets pass, and `NormalizedExtraction` the schemas
of the browser flow and the history. `AnswerIsStored` is about the database too:
a check that could not be confirmed (`Unconfirmed`) has no row or the row it was
to have, and the second only after a fault.

### Only model-checked

* Liveness: `HeardDeadlineAnswers`, `EveryCallAnswers`, `EveryOpenerGetsIn`,
  `EveryVaultCallAnswers`, and the fairness in `KeepsContract`. It needs
  reasoning about ENABLED, which TLAPS does not offer here.
* `ImplementsCheck`: the joint specification of `CheckWithOnePassword` with its
  fairness. That its fairness carries over is liveness; the simulation of its
  steps is not proved.
* The three expected violations, which are counterexamples.


## 6. Hazards

`PROJECT.json` lists them with their lines and the properties that guard them, and
in a note what the properties leave to be: a committed call that fails all the
same, a connection that stays after a close whose checkpoint threw, an acknowledged
session that is lost on win32 or with a new directory. A save that an overlapping
`requireReauthentication` undoes is allowed by `StoredSession`, as no lock is
taken and no document says which call should win, and is there the only way of
losing a saved session besides another save.

## 7. Plan

All modules of the plan are there and their safety is proved, except for one
refinement: the steps of `CheckWithOnePassword` as steps of `SubscriptionCheck`
(the safety of `ImplementsCheck`). Its argument is the one of `ContractIsKept`,
with the state of the read tied to the step `backend` or `fill` of the check: a
joint step keeps the invariant of the read, and each result that the read can
have is one that `UsePassword` and `FillForm` allow.


## 8. Not modelled

* Pure data: the schema of the 1Password backend's configuration, names, time
  limits and lifetimes in a check's configuration (one field, right or wrong),
  the format of dates and references, the mapping of rows, the environment of
  the child, the classification of error output (a choice among its results in
  the model).
* Cryptography: a content is readable under its key and under no other.
* Modes and access control lists, except that setting them may fail.
* SQLite's own guarantees (atomic transactions, locking, WAL recovery) and the
  key store, Playwright and Node's child processes, which are modelled from how
  the code uses them.
* Several checks at once against one vault and one history in one model: the
  product is out of TLC's reach, and what they share is modelled on either side
  (`VaultChanges`, overlapping calls, commits in any order).
* The fixture harness, the connector contracts, the command line and test
  doubles, which have neither concurrency nor state that lasts.

## 9. Running it

    tlc -workers 2 -config MCSubscriptionCheck.cfg MCSubscriptionCheck
    tlapm SubscriptionCheckProofs.tla

`PROJECT.json` names the module and the configuration of every run, for every
property a mutant that violates it, and for every definition the lines of the
code it stands for.
