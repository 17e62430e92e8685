---- MODULE BrowserBoundary ----
(***************************************************************************)
(* ExactOriginBrowserBoundary (controlled-synthetic-browser.ts): how the   *)
(* flow of a login learns of what the page does.  The page runs in the     *)
(* browser and the flow in the program; what happens in the one reaches    *)
(* the other as events and answers, in the order in which it happened, and *)
(* the flow looks at what it knows when one of its calls is answered.      *)
(* SubscriptionCheck, where a step sees at once what happened during its   *)
(* await, rests on what is checked here.                                   *)
(***************************************************************************)
EXTENDS Naturals, Sequences

CONSTANT MaxIncidents  \* bound on what the page does of its own

\* "session" is the action of the login form, "origin" any other page of the origin.
Urls == {"blank", "session", "origin", "outside"}

VARIABLES
    \* in the browser
    incidents,  \* how often the page did something of its own
    children,   \* frames of the page besides the main one
    trespassed, \* ghost: the page has done what the boundary is there to notice
    pending,    \* the call of the flow that the browser works on, or "none"
    pipe,       \* events and answers on their way to the program
    \* in the program
    step,        \* where the flow is
    url, frames, \* page.url() and page.frames().length
    violation,
    loginSubmissionUrl,
    witnessed    \* ghost: whether the page had trespassed at the last answer

page == <<incidents, children, trespassed, pending>>
known == <<url, frames, violation>>
program == <<step, known, loginSubmissionUrl, witnessed>>
vars == <<page, pipe, program>>

Init ==
    /\ incidents = 0 /\ children = 0 /\ trespassed = FALSE
    /\ pending = "goto" /\ pipe = <<>>
    /\ step = "goto" /\ url = "blank" /\ frames = 1
    /\ violation = FALSE /\ loginSubmissionUrl = "none" /\ witnessed = FALSE

\* assertExactOrigin on the abstract addresses
ExactOrigin(u) == u \in {"session", "origin"}

----
(* The browser *)

Request(u, method, routed) ==
    [event |-> "request", url |-> u, method |-> method, routed |-> routed]
Navigated(u, main) == [event |-> "framenavigated", url |-> u, main |-> main]
Answered(ok, trespass) == [event |-> "answer", ok |-> ok, trespassed |-> trespass]

\* The page does something of its own, which may be a trespass.
Incident(trespass, message) ==
    /\ incidents < MaxIncidents /\ incidents' = incidents + 1
    /\ trespassed' = (trespassed \/ trespass)
    /\ pipe' = Append(pipe, message)
    /\ UNCHANGED <<pending, program>>

\* A script, a resource or a redirect asks for an address.  A redirected request is
\* announced and not routed.
PageRequests ==
    /\ \E u \in Urls \ {"blank"}, method \in {"GET", "POST"}, routed \in BOOLEAN :
          Incident(u = "outside" \/ (routed /\ method = "POST" /\ u # "session"),
                   Request(u, method, routed))
    /\ UNCHANGED children

PageNavigates ==
    /\ \E u \in Urls : Incident(u = "outside", Navigated(u, TRUE))
    /\ UNCHANGED children

\* A socket, a service worker, another page
PageOpens ==
    /\ \E event \in {"websocket", "serviceworker", "page"} : Incident(TRUE, [event |-> event])
    /\ UNCHANGED children

FrameComes == Incident(TRUE, [event |-> "frameattached"]) /\ children' = children + 1

FrameGoes ==
    children > 0 /\ Incident(FALSE, [event |-> "framedetached"]) /\ children' = children - 1

ChildNavigates ==
    /\ children > 0
    /\ \E u \in Urls : Incident(TRUE, Navigated(u, FALSE))
    /\ UNCHANGED children

\* goto and the submission make a request and navigate; the other calls only look.
BrowserAnswers ==
    /\ pending # "none" /\ pending' = "none"
    /\ \/ /\ pending \in {"goto", "submit"}
          /\ \E u \in Urls :
                /\ trespassed' = (trespassed \/ u = "outside")
                /\ pipe' = pipe \o
                      <<IF pending = "goto" THEN Request("origin", "GET", TRUE)
                        ELSE Request("session", "POST", TRUE),
                        Navigated(u, TRUE), Answered(TRUE, trespassed')>>
       \/ /\ \E ok \in BOOLEAN : /\ pending \in {"goto", "submit"} => ~ok
                                 /\ pipe' = Append(pipe, Answered(ok, trespassed))
          /\ UNCHANGED trespassed
    /\ UNCHANGED <<incidents, children, program>>

----
(* The handlers that install and attach register *)

Handle(event) == pipe # <<>> /\ Head(pipe).event = event /\ pipe' = Tail(pipe)

Refused(request) ==
    \/ ~ExactOrigin(request.url)
    \/ request.method = "POST" /\ loginSubmissionUrl # request.url

\* Mutant of OnRequest: there is no listener besides the route.
OnRoutedRequest ==
    /\ Handle("request")
    /\ violation' = (violation \/ (Head(pipe).routed /\ Refused(Head(pipe))))
    /\ UNCHANGED <<page, step, url, frames, loginSubmissionUrl, witnessed>>

\* The listener sees every request, the route those that are no redirects.
OnRequest ==
    /\ Handle("request")
    /\ violation' = (\/ violation \/ ~ExactOrigin(Head(pipe).url)
                     \/ Head(pipe).routed /\ Refused(Head(pipe)))
    /\ UNCHANGED <<page, step, url, frames, loginSubmissionUrl, witnessed>>

OnFrameNavigated ==
    /\ Handle("framenavigated")
    /\ url' = IF Head(pipe).main THEN Head(pipe).url ELSE url
    /\ violation' = (\/ violation \/ ~Head(pipe).main
                     \/ Head(pipe).url # "blank" /\ ~ExactOrigin(Head(pipe).url))
    /\ UNCHANGED <<page, step, frames, loginSubmissionUrl, witnessed>>

OnFrames ==
    /\ \/ Handle("frameattached") /\ frames' = frames + 1 /\ violation' = TRUE
       \/ Handle("framedetached") /\ frames' = frames - 1 /\ UNCHANGED violation
    /\ UNCHANGED <<page, step, url, loginSubmissionUrl, witnessed>>

OnOpened ==
    /\ Handle("websocket") \/ Handle("serviceworker") \/ Handle("page")
    /\ violation' = TRUE
    /\ UNCHANGED <<page, step, url, frames, loginSubmissionUrl, witnessed>>

----
(* The flow of a login *)

\* assertSafe does not throw.
Safe == ~violation /\ frames = 1 /\ ExactOrigin(url)

Fail == step' = "failed" /\ UNCHANGED pending

\* The answers of navigate, detectInteractiveBoundary and the fills, each followed by
\* assertSafe; submit also closes the exception that it has opened for its request.
OnAnswer(from, to) ==
    /\ step = from /\ Handle("answer")
    /\ witnessed' = Head(pipe).trespassed
    /\ IF Head(pipe).ok /\ Safe
       THEN step' = to /\ pending' = (IF to = "save" THEN "none" ELSE to)
       ELSE Fail
    /\ loginSubmissionUrl' = IF step' = "submit" THEN "session" ELSE "none"
    /\ UNCHANGED <<incidents, children, trespassed, known>>

\* formAction ends without another look; the broker compares the address and reads the
\* password, which takes its time.
OnFormAction ==
    /\ step = "form" /\ Handle("answer")
    /\ witnessed' = Head(pipe).trespassed
    /\ step' = IF Head(pipe).ok /\ ExactOrigin(url) THEN "backend" ELSE "failed"
    /\ UNCHANGED <<page, known, loginSubmissionUrl>>

\* The callback with the password begins with assertSafe.
OnPassword ==
    /\ step = "backend"
    /\ IF Safe THEN step' = "fill" /\ pending' = "fill" ELSE Fail
    /\ UNCHANGED <<incidents, children, trespassed, pipe, known, loginSubmissionUrl, witnessed>>

Flow ==
    \/ OnAnswer("goto", "detect") \/ OnAnswer("detect", "form") \/ OnFormAction \/ OnPassword
    \/ OnAnswer("fill", "submit") \/ OnAnswer("submit", "capture") \/ OnAnswer("capture", "save")

Handlers == OnRequest \/ OnFrameNavigated \/ OnFrames \/ OnOpened

Page ==
    PageRequests \/ PageNavigates \/ PageOpens \/ FrameComes \/ FrameGoes \/ ChildNavigates

Finished == step \in {"save", "failed"} /\ UNCHANGED vars

Next == Page \/ BrowserAnswers \/ Handlers \/ Flow \/ Finished

Spec == Init /\ [][Next]_vars

----
(* Properties *)

\* Each time the flow goes on from assertSafe, the page had not trespassed up to the
\* answer that the flow goes on from: no request, socket, page, frame or navigation of
\* the time before has gone unnoticed, however short it was and even if all looks as it
\* should again.  In particular the password is not filled in, and no session captured
\* or saved, on a page that had.
SafeMeansUntouched ==
    step \in {"detect", "form", "fill", "submit", "capture", "save"} => ~witnessed
====
