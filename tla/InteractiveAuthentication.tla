---- MODULE InteractiveAuthentication ----
(***************************************************************************)
(* authenticateInteractively (interactive-authentication.ts) with the      *)
(* session vault: the user logs in by hand in a headed browser, and the    *)
(* state of the browser is saved as the account's session while other      *)
(* calls use the vault.                                                    *)
(***************************************************************************)
EXTENDS SessionVault

CONSTANT Login  \* the call of save that an interactive login makes, if there is one

ASSUME LoginAssumption == Login \in Calls

VARIABLES
    loginPc,  \* "none" if no one logs in; the call Login is then anybody's
    browser,
    result    \* what the caller of authenticateInteractively gets

login == <<loginPc, browser, result>>
loginVars == <<vars, login>>

InteractiveAuthenticationError == "INTERACTIVE_AUTHENTICATION_FAILED"

LoginInit ==
    /\ Init
    /\ loginPc \in {"none", "call"} /\ browser = "none" /\ result = None

----
\* The finally block closes the browser before the caller gets the result.
Leave(r) == loginPc' = "close" /\ result' = r

\* The URL is refused before a browser is launched.
CheckLoginUrl ==
    /\ loginPc = "call"
    /\ \/ loginPc' = "launch" /\ UNCHANGED result
       \/ Leave(InteractiveAuthenticationError)
    /\ UNCHANGED <<vars, browser>>

Launch ==
    /\ loginPc = "launch"
    /\ \/ loginPc' = "login" /\ browser' = "open" /\ UNCHANGED result
       \/ Leave(InteractiveAuthenticationError) /\ UNCHANGED browser
    /\ UNCHANGED vars

\* newContext, newPage and goto; then the user logs in, or closes the window.
WaitForAuthenticated ==
    /\ loginPc = "login"
    /\ \/ browser = "open" /\ loginPc' = "capture" /\ UNCHANGED result
       \/ Leave(InteractiveAuthenticationError)
    /\ UNCHANGED <<vars, browser>>

\* context.storageState
CaptureState ==
    /\ loginPc = "capture"
    /\ \/ browser = "open" /\ loginPc' = "save" /\ UNCHANGED result
       \/ Leave(InteractiveAuthenticationError)
    /\ UNCHANGED <<vars, browser>>

Save ==
    /\ loginPc = "save" /\ loginPc' = "saving"
    /\ Begin(Login) /\ op'[Login] = "save"
    /\ UNCHANGED <<browser, result>>

\* Mutant of Saved: the vault's errors are redacted like all the others.
SavedRedacted ==
    /\ loginPc = "saving" /\ pc[Login] = "done"
    /\ Leave(IF answer[Login] = "saved" THEN "authenticated"
             ELSE InteractiveAuthenticationError)
    /\ UNCHANGED <<vars, browser>>

\* The vault's own errors are rethrown as they are.
Saved ==
    /\ loginPc = "saving" /\ pc[Login] = "done"
    /\ Leave(IF answer[Login] = "saved" THEN "authenticated" ELSE answer[Login])
    /\ UNCHANGED <<vars, browser>>

\* A failure of close is ignored, and the browser may then stay.
Close ==
    /\ loginPc = "close" /\ loginPc' = "done"
    /\ browser' \in IF browser = "open" THEN {"open", "closed"} ELSE {browser}
    /\ UNCHANGED <<vars, result>>

LoginStep ==
    \/ CheckLoginUrl \/ Launch \/ WaitForAuthenticated \/ CaptureState \/ Save \/ Saved
    \/ Close

----
UserClosesBrowser ==
    browser = "open" /\ browser' = "closed" /\ UNCHANGED <<vars, loginPc, result>>

\* The calls of others; the vault goes on with all.
OtherBegins(k) == (k # Login \/ loginPc = "none") /\ Begin(k) /\ UNCHANGED login
VaultStep(k) == Step(k) /\ UNCHANGED login
VaultKeyStep(k) == KeyStep(k) /\ UNCHANGED login

\* The login and its call of the vault are of one process.
LoginStops(stopped) ==
    /\ loginPc' = IF loginPc \notin {"none", "done"} /\ processOf[Login] \in stopped
                  THEN "crashed" ELSE loginPc
    /\ UNCHANGED <<browser, result>>

ProcessEnds(p) == ProcessCrash(p) /\ LoginStops({p})
PowerIsLost == PowerLoss /\ LoginStops(Processes)

LoginFinished ==
    /\ loginPc \in {"none", "done", "crashed"}
    /\ \A k \in Calls : ~InFlight(k) /\ request[k] = None
    /\ \A k \in Calls : pc[k] = "idle" => k = Login /\ loginPc # "none"
    /\ UNCHANGED loginVars

LoginNext ==
    \/ LoginStep \/ UserClosesBrowser
    \/ \E k \in Calls : OtherBegins(k) \/ VaultStep(k) \/ VaultKeyStep(k)
    \/ \E p \in Processes : ProcessEnds(p)
    \/ PowerIsLost
    \/ LoginFinished

LoginSpec == LoginInit /\ [][LoginNext]_loginVars

\* The fairness of SessionVault, and none of the user.
FairLoginSpec ==
    LoginSpec /\ \A k \in Calls : WF_loginVars(VaultStep(k)) /\ WF_loginVars(VaultKeyStep(k))

----
(* Properties *)

\* What is stored, or may be after a loss of power
Stored == {ValueOf(f) : f \in {file, durable} \cup unflushed}

\* The caller is not told of a failure when a session was stored: whatever error it gets,
\* other than the vault's failed write, no state of this login is in the vault or can
\* come up there.
FailureStoresNothing ==
    result \notin {None, "authenticated", "SESSION_WRITE_FAILED"} =>
        \A v \in Stored : v.kind = "session" => v.login # Login

\* After a success the session that the login was to replace does not come back, by a
\* call that had read it (which may put it back marked) or after a loss of power that the
\* write was to survive; where the directory is flushed, it is not even left on the disk.
SuccessReplaces ==
    result = "authenticated" /\ place[Login] <= acked =>
        /\ ValueOf(file) # ValueOf(EarlierSession)
        /\ platform # "win32" => ValueOf(EarlierSession) \notin Stored

\* An answered login tells what became of the stored session, although errors of three
\* kinds come out of one try block, one of them after the write.
AnswerTellsSession ==
    loginPc = "done" => FailureStoresNothing /\ SuccessReplaces
====
