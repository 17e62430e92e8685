---- MODULE BrowserBoundaryProofs ----
(***************************************************************************)
(* Proofs about BrowserBoundary: what the page does reaches the program    *)
(* before the answer that the flow goes on from, however much it does.     *)
(***************************************************************************)
EXTENDS BrowserBoundary, TLAPS

Messages ==
    [event : {"request"}, url : Urls, method : {"GET", "POST"}, routed : BOOLEAN]
    \cup [event : {"framenavigated"}, url : Urls, main : BOOLEAN]
    \cup [event : {"answer"}, ok : BOOLEAN, trespassed : BOOLEAN]
    \cup [event : {"websocket", "serviceworker", "page", "frameattached", "framedetached"}]

\* The events whose handlers register a violation, whatever else they find.
Telling(m) ==
    \/ m.event = "request" /\ \/ m.url = "outside"
                              \/ m.routed /\ m.method = "POST" /\ m.url # "session"
    \/ m.event = "framenavigated" /\ (~m.main \/ m.url = "outside")
    \/ m.event \in {"websocket", "serviceworker", "page", "frameattached"}

\* The program knows of a trespass, or will before it has handled message n.
Told(n) == violation \/ \E i \in 1 .. Len(pipe) : i < n /\ Telling(pipe[i])

TypeInv ==
    /\ pipe \in Seq(Messages)
    /\ trespassed \in BOOLEAN /\ violation \in BOOLEAN /\ witnessed \in BOOLEAN
    /\ loginSubmissionUrl \in {"none", "session"}

\* No answer overtakes the events of what happened before it.
PipeInv ==
    /\ trespassed => Told(Len(pipe) + 1)
    /\ \A n \in 1 .. Len(pipe) :
          pipe[n].event = "answer" /\ pipe[n].trespassed => Told(n)

\* Between formAction and the password the flow may have gone on without a look.
FlowInv ==
    /\ step = "backend" /\ witnessed => violation
    /\ SafeMeansUntouched

BoundaryInv == TypeInv /\ PipeInv /\ FlowInv

----
\* The browser sends one more message: an answer that tells of a trespass comes after
\* the trespass, and a trespass of now is told by the message.
LEMMA Sends ==
    ASSUME TypeInv, PipeInv, NEW m \in Messages, pipe' = Append(pipe, m),
           violation' = violation, trespassed' \in BOOLEAN,
           trespassed' => trespassed \/ Telling(m),
           m.event = "answer" /\ m.trespassed => trespassed
    PROVE  PipeInv' /\ pipe' \in Seq(Messages)
  <1>1. /\ pipe' \in Seq(Messages) /\ Len(pipe') = Len(pipe) + 1 /\ Len(pipe) \in Nat
        /\ pipe'[Len(pipe) + 1] = m
        /\ \A i \in 1 .. Len(pipe) : pipe'[i] = pipe[i]
    BY DEF TypeInv
  <1>2. ASSUME NEW n \in 1 .. Len(pipe) + 1, Told(n)
        PROVE  \A k \in Nat : k >= n => violation' \/ \E i \in 1 .. Len(pipe') : i < k /\ Telling(pipe'[i])
    BY <1>1, <1>2 DEF Told
  <1>3. trespassed' => Told(Len(pipe) + 1)'
    <2> SUFFICES ASSUME trespassed'
                 PROVE  violation' \/ \E i \in 1 .. Len(pipe') : i < Len(pipe') + 1 /\ Telling(pipe'[i])
      BY DEF Told
    <2>1. CASE trespassed
      <3>1. Told(Len(pipe) + 1)
        BY <2>1 DEF PipeInv
      <3>2. Len(pipe) + 1 \in 1 .. Len(pipe) + 1 /\ Len(pipe') + 1 \in Nat
            /\ Len(pipe') + 1 >= Len(pipe) + 1
        BY <1>1
      <3> QED BY <1>2, <3>1, <3>2
    <2>2. CASE Telling(m)
      BY <1>1, <2>2
    <2> QED BY <2>1, <2>2
  <1>4. ASSUME NEW n \in 1 .. Len(pipe'), pipe'[n].event = "answer", pipe'[n].trespassed
        PROVE  violation' \/ \E i \in 1 .. Len(pipe') : i < n /\ Telling(pipe'[i])
    <2>1. CASE n \in 1 .. Len(pipe)
      BY <1>1, <1>2, <1>4, <2>1 DEF PipeInv
    <2>2. CASE n = Len(pipe) + 1
      BY <1>1, <1>2, <1>4, <2>2 DEF PipeInv
    <2> QED BY <1>1, <2>1, <2>2
  <1> QED BY <1>1, <1>3, <1>4 DEF PipeInv, Told

\* The program handles the first message: who relied on it to tell of a trespass now
\* has the violation.
LEMMA Handles ==
    ASSUME TypeInv, PipeInv, pipe # <<>>, pipe' = Tail(pipe), trespassed' = trespassed,
           violation => violation', Telling(Head(pipe)) => violation'
    PROVE  PipeInv' /\ pipe' \in Seq(Messages)
  <1>1. /\ pipe' \in Seq(Messages) /\ Len(pipe) \in Nat /\ Len(pipe) > 0
        /\ Len(pipe') = Len(pipe) - 1 /\ Head(pipe) = pipe[1]
        /\ \A i \in 1 .. Len(pipe') : pipe'[i] = pipe[i + 1]
    BY DEF TypeInv
  <1>2. ASSUME NEW n \in 1 .. Len(pipe) + 1, Told(n)
        PROVE  violation' \/ \E i \in 1 .. Len(pipe') : i < n - 1 /\ Telling(pipe'[i])
    <2>1. CASE violation
      BY <2>1
    <2>2. ASSUME NEW i \in 1 .. Len(pipe), i < n, Telling(pipe[i])
          PROVE  violation' \/ \E j \in 1 .. Len(pipe') : j < n - 1 /\ Telling(pipe'[j])
      <3>1. CASE i = 1
        BY <1>1, <2>2, <3>1
      <3>2. CASE i > 1
        <4>1. i - 1 \in 1 .. Len(pipe') /\ i - 1 < n - 1 /\ pipe'[i - 1] = pipe[i]
          BY <1>1, <2>2, <3>2
        <4> QED BY <2>2, <4>1
      <3> QED BY <2>2, <3>1, <3>2
    <2> QED BY <1>2, <2>1, <2>2 DEF Told
  <1>3. trespassed' => violation' \/ \E i \in 1 .. Len(pipe') : i < Len(pipe') + 1 /\ Telling(pipe'[i])
    <2> SUFFICES ASSUME trespassed'
                 PROVE  violation' \/ \E i \in 1 .. Len(pipe') : i < Len(pipe') + 1 /\ Telling(pipe'[i])
      OBVIOUS
    <2>1. Told(Len(pipe) + 1) /\ Len(pipe) + 1 \in 1 .. Len(pipe) + 1
      BY <1>1 DEF PipeInv
    <2>2. violation' \/ \E i \in 1 .. Len(pipe') : i < (Len(pipe) + 1) - 1 /\ Telling(pipe'[i])
      BY <1>2, <2>1
    <2> QED BY <1>1, <2>2
  <1>4. ASSUME NEW n \in 1 .. Len(pipe'), pipe'[n].event = "answer", pipe'[n].trespassed
        PROVE  violation' \/ \E i \in 1 .. Len(pipe') : i < n /\ Telling(pipe'[i])
    <2>1. n + 1 \in 1 .. Len(pipe) /\ pipe[n + 1] = pipe'[n]
      BY <1>1
    <2>2. Told(n + 1)
      BY <1>4, <2>1 DEF PipeInv
    <2> QED BY <1>2, <2>1, <2>2
  <1> QED BY <1>1, <1>3, <1>4 DEF PipeInv, Told

\* An answer that tells of a trespass is not handled before the violation is known.
LEMMA FirstAnswer ==
    ASSUME TypeInv, PipeInv, Handle("answer"), Head(pipe).trespassed
    PROVE  violation
  <1>1. pipe # <<>> /\ Head(pipe) = pipe[1] /\ Len(pipe) \in Nat /\ 1 \in 1 .. Len(pipe)
    BY DEF TypeInv, Handle
  <1>2. Told(1)
    BY <1>1 DEF PipeInv, Handle
  <1> QED BY <1>1, <1>2 DEF Told

\* What the page does of its own is told by the event of it.
LEMMA PageHolds ==
    ASSUME BoundaryInv, Page
    PROVE  BoundaryInv'
  <1>1. PICK trespass \in BOOLEAN, m \in Messages :
          /\ Incident(trespass, m)
          /\ trespass => Telling(m)
          /\ m.event # "answer"
    <2>1. CASE PageRequests
      <3>1. PICK u \in Urls \ {"blank"}, method \in {"GET", "POST"}, routed \in BOOLEAN :
              Incident(u = "outside" \/ (routed /\ method = "POST" /\ u # "session"),
                       Request(u, method, routed))
        BY <2>1 DEF PageRequests
      <3> DEFINE m == Request(u, method, routed)
                 t == u = "outside" \/ (routed /\ method = "POST" /\ u # "session")
      <3>2. m \in Messages /\ m.event = "request" /\ (t => Telling(m)) /\ t \in BOOLEAN
        BY DEF Messages, Request, Telling
      <3> HIDE DEF m, t
      <3> QED BY <3>1, <3>2 DEF m, t
    <2>2. CASE PageNavigates \/ ChildNavigates
      <3>1. PICK u \in Urls, main \in BOOLEAN, t \in BOOLEAN :
              Incident(t, Navigated(u, main)) /\ (t => ~main \/ u = "outside")
        BY <2>2 DEF PageNavigates, ChildNavigates
      <3> DEFINE m == Navigated(u, main)
      <3>2. m \in Messages /\ m.event = "framenavigated" /\ (t => Telling(m))
        BY <3>1 DEF Messages, Navigated, Telling
      <3> QED BY <3>1, <3>2
    <2>3. CASE PageOpens \/ FrameComes \/ FrameGoes
      <3>1. PICK e \in {"websocket", "serviceworker", "page", "frameattached", "framedetached"},
                 t \in BOOLEAN :
              Incident(t, [event |-> e]) /\ (t => e # "framedetached")
        BY <2>3 DEF PageOpens, FrameComes, FrameGoes
      <3> DEFINE m == [event |-> e]
      <3>2. m \in Messages /\ m.event # "answer" /\ (t => Telling(m))
        BY <3>1 DEF Messages, Telling
      <3> QED BY <3>1, <3>2
    <2> QED BY <2>1, <2>2, <2>3 DEF Page
  <1>2. /\ pipe' = Append(pipe, m) /\ trespassed' = (trespassed \/ trespass)
        /\ violation' = violation /\ witnessed' = witnessed /\ step' = step
        /\ loginSubmissionUrl' = loginSubmissionUrl
    BY <1>1 DEF Incident, program, known
  <1>3. TypeInv /\ PipeInv /\ FlowInv
    BY DEF BoundaryInv
  <1>4. trespassed' \in BOOLEAN /\ (trespassed' => trespassed \/ Telling(m))
    BY <1>1, <1>2
  <1>5. PipeInv' /\ pipe' \in Seq(Messages)
    BY <1>1, <1>2, <1>3, <1>4, Sends
  <1>6. FlowInv'
    BY <1>2, <1>3 DEF FlowInv, SafeMeansUntouched
  <1> QED BY <1>2, <1>3, <1>4, <1>5, <1>6 DEF BoundaryInv, TypeInv

\* The browser works on one call after the other, and answers it last.
LEMMA BrowserAnswersHolds ==
    ASSUME BoundaryInv, BrowserAnswers
    PROVE  BoundaryInv'
  <1>1. TypeInv /\ PipeInv /\ FlowInv
    BY DEF BoundaryInv
  <1>2. /\ violation' = violation /\ witnessed' = witnessed /\ step' = step
        /\ loginSubmissionUrl' = loginSubmissionUrl
    BY DEF BrowserAnswers, program, known
  <1>3. FlowInv'
    BY <1>1, <1>2 DEF FlowInv, SafeMeansUntouched
  <1>4. CASE \E ok \in BOOLEAN : pipe' = Append(pipe, Answered(ok, trespassed)) /\ trespassed' = trespassed
    <2>1. PICK ok \in BOOLEAN : pipe' = Append(pipe, Answered(ok, trespassed)) /\ trespassed' = trespassed
      BY <1>4
    <2> DEFINE m == Answered(ok, trespassed)
    <2>2. m \in Messages /\ m.trespassed = trespassed
      BY <1>1 DEF Answered, Messages, TypeInv
    <2> HIDE DEF m
    <2>3. PipeInv' /\ pipe' \in Seq(Messages)
      <3>1. trespassed' \in BOOLEAN /\ (trespassed' => trespassed) /\ (m.trespassed => trespassed)
        BY <1>1, <2>1, <2>2 DEF TypeInv
      <3>2. pipe' = Append(pipe, m)
        BY <2>1 DEF m
      <3> QED BY <1>1, <1>2, <2>2, <3>1, <3>2, Sends
    <2> QED BY <1>1, <1>2, <1>3, <2>1, <2>3 DEF BoundaryInv, TypeInv
  <1>5. ASSUME NEW r \in Messages, NEW u \in Urls, r.event = "request",
               trespassed' = (trespassed \/ u = "outside"),
               pipe' = pipe \o <<r, Navigated(u, TRUE), Answered(TRUE, trespassed')>>
        PROVE  BoundaryInv'
    <2> DEFINE n == Navigated(u, TRUE)
               a == Answered(TRUE, trespassed')
    <2>0. trespassed' \in BOOLEAN
      BY <1>5
    <2>1. n \in Messages /\ n.event = "framenavigated" /\ (u = "outside" => Telling(n))
      BY DEF Navigated, Messages, Telling
    <2>2. a \in Messages /\ a.event = "answer" /\ a.trespassed = trespassed'
      BY <2>0 DEF Answered, Messages
    <2>10. pipe' = pipe \o <<r, n, a>>
      BY <1>5
    <2> HIDE DEF n, a
    <2>3. /\ pipe \in Seq(Messages) /\ Len(pipe) \in Nat
          /\ pipe' \in Seq(Messages) /\ Len(pipe') = Len(pipe) + 3
          /\ pipe'[Len(pipe) + 1] = r /\ pipe'[Len(pipe) + 2] = n /\ pipe'[Len(pipe) + 3] = a
          /\ \A i \in 1 .. Len(pipe) : pipe'[i] = pipe[i]
      <3>1. pipe \in Seq(Messages)
        BY <1>1 DEF TypeInv
      <3> QED BY <2>1, <2>2, <2>10, <3>1
    <2>4. ASSUME NEW k \in 1 .. Len(pipe) + 1, Told(k)
          PROVE  \A l \in Nat : l >= k => violation' \/ \E i \in 1 .. Len(pipe') : i < l /\ Telling(pipe'[i])
      BY <1>2, <2>3, <2>4 DEF Told
    <2>5. trespassed' => violation' \/ \E i \in 1 .. Len(pipe') : i < Len(pipe) + 3 /\ Telling(pipe'[i])
      <3>1. CASE trespassed
        <4>1. Told(Len(pipe) + 1) /\ Len(pipe) + 1 \in 1 .. Len(pipe) + 1
          BY <1>1, <2>3, <3>1 DEF PipeInv
        <4>2. Len(pipe) + 3 \in Nat /\ Len(pipe) + 3 >= Len(pipe) + 1
          BY <2>3
        <4> QED BY <2>4, <4>1, <4>2
      <3>2. CASE u = "outside"
        <4>1. Len(pipe) + 2 \in 1 .. Len(pipe') /\ Len(pipe) + 2 < Len(pipe) + 3
          BY <2>3
        <4> QED BY <2>1, <2>3, <3>2, <4>1
      <3> QED BY <1>5, <3>1, <3>2
    <2>6. ASSUME NEW k \in 1 .. Len(pipe'), pipe'[k].event = "answer", pipe'[k].trespassed
          PROVE  violation' \/ \E i \in 1 .. Len(pipe') : i < k /\ Telling(pipe'[i])
      <3>1. CASE k \in 1 .. Len(pipe)
        <4>1. Told(k)
          BY <1>1, <2>3, <2>6, <3>1 DEF PipeInv
        <4> QED BY <2>3, <2>4, <3>1, <4>1
      <3>2. CASE k = Len(pipe) + 3
        BY <2>2, <2>3, <2>5, <2>6, <3>2
      <3>3. CASE k = Len(pipe) + 1 \/ k = Len(pipe) + 2
        BY <1>5, <2>1, <2>3, <2>6, <3>3
      <3> QED BY <2>3, <3>1, <3>2, <3>3
    <2>7. trespassed' => violation' \/ \E i \in 1 .. Len(pipe') : i < Len(pipe') + 1 /\ Telling(pipe'[i])
      BY <2>3, <2>5
    <2>8. PipeInv'
      BY <2>6, <2>7 DEF PipeInv, Told
    <2>9. trespassed' \in BOOLEAN
      BY <1>5
    <2> QED BY <1>1, <1>2, <1>3, <2>3, <2>8, <2>9 DEF BoundaryInv, TypeInv
  <1>6. CASE \E u \in Urls :
                /\ trespassed' = (trespassed \/ u = "outside")
                /\ pipe' = pipe \o
                      <<IF pending = "goto" THEN Request("origin", "GET", TRUE)
                        ELSE Request("session", "POST", TRUE),
                        Navigated(u, TRUE), Answered(TRUE, trespassed')>>
    <2> DEFINE r == IF pending = "goto" THEN Request("origin", "GET", TRUE)
                    ELSE Request("session", "POST", TRUE)
    <2>1. r \in Messages /\ r.event = "request"
      BY DEF Request, Messages, Urls
    <2>2. PICK u \in Urls :
            /\ trespassed' = (trespassed \/ u = "outside")
            /\ pipe' = pipe \o <<r, Navigated(u, TRUE), Answered(TRUE, trespassed')>>
      BY <1>6
    <2> HIDE DEF r
    <2> QED BY <1>5, <2>1, <2>2
  <1> QED BY <1>4, <1>6 DEF BrowserAnswers

\* The handlers register what they are told.
LEMMA HandlersHold ==
    ASSUME BoundaryInv, Handlers
    PROVE  BoundaryInv'
  <1>1. TypeInv /\ PipeInv /\ FlowInv
    BY DEF BoundaryInv
  <1>2. /\ trespassed' = trespassed /\ witnessed' = witnessed /\ step' = step
        /\ loginSubmissionUrl' = loginSubmissionUrl
        /\ pipe # <<>> /\ pipe' = Tail(pipe)
    BY DEF Handlers, OnRequest, OnFrameNavigated, OnFrames, OnOpened, Handle, page
  <1>3. violation' \in BOOLEAN /\ (violation => violation') /\ (Telling(Head(pipe)) => violation')
    <2>1. CASE OnRequest
      <3>1. Head(pipe).event = "request" /\ loginSubmissionUrl \in {"none", "session"}
        BY <1>1, <2>1 DEF OnRequest, Handle, TypeInv
      <3>2. Telling(Head(pipe)) => \/ ~ExactOrigin(Head(pipe).url)
                                   \/ Head(pipe).routed /\ Refused(Head(pipe))
        BY <3>1 DEF Telling, ExactOrigin, Refused
      <3> QED BY <2>1, <3>2 DEF OnRequest
    <2>2. CASE OnFrameNavigated
      <3>1. Head(pipe).event = "framenavigated"
        BY <2>2 DEF OnFrameNavigated, Handle
      <3>2. Telling(Head(pipe)) => \/ ~Head(pipe).main
                                   \/ Head(pipe).url # "blank" /\ ~ExactOrigin(Head(pipe).url)
        BY <3>1 DEF Telling, ExactOrigin
      <3> QED BY <2>2, <3>2 DEF OnFrameNavigated
    <2>3. CASE OnFrames
      BY <1>1, <2>3 DEF OnFrames, Handle, Telling, TypeInv
    <2>4. CASE OnOpened
      BY <2>4 DEF OnOpened
    <2> QED BY <2>1, <2>2, <2>3, <2>4 DEF Handlers
  <1>4. PipeInv' /\ pipe' \in Seq(Messages)
    BY <1>1, <1>2, <1>3, Handles
  <1>5. FlowInv'
    BY <1>1, <1>2, <1>3 DEF FlowInv, SafeMeansUntouched
  <1> QED BY <1>1, <1>2, <1>3, <1>4, <1>5 DEF BoundaryInv, TypeInv

\* The answer of a call: the flow goes on only if nothing is known.
LEMMA OnAnswerHolds ==
    ASSUME BoundaryInv, NEW from,
           NEW to \in {"detect", "form", "submit", "capture", "save"}, OnAnswer(from, to)
    PROVE  BoundaryInv'
  <1>1. TypeInv /\ PipeInv /\ FlowInv
    BY DEF BoundaryInv
  <1>2. /\ trespassed' = trespassed /\ violation' = violation
        /\ Handle("answer") /\ pipe # <<>> /\ pipe' = Tail(pipe) /\ Head(pipe).event = "answer"
        /\ witnessed' = Head(pipe).trespassed
        /\ loginSubmissionUrl' \in {"none", "session"}
    BY DEF OnAnswer, Handle, known
  <1>3. step' = "failed" \/ (step' = to /\ ~violation)
    BY DEF OnAnswer, Fail, Safe
  <1>4. ~Telling(Head(pipe))
    BY <1>2 DEF Telling
  <1>5. PipeInv' /\ pipe' \in Seq(Messages)
    BY <1>1, <1>2, <1>4, Handles
  <1>6. witnessed' \in BOOLEAN
    <2>1. Head(pipe) \in Messages
      BY <1>1, <1>2 DEF TypeInv
    <2> QED BY <1>2, <2>1 DEF Messages
  <1>7. ~violation => ~witnessed'
    BY <1>1, <1>2, FirstAnswer
  <1>8. FlowInv'
    BY <1>3, <1>7 DEF FlowInv, SafeMeansUntouched
  <1> QED BY <1>1, <1>2, <1>5, <1>6, <1>8 DEF BoundaryInv, TypeInv

\* formAction's answer lets the flow go on without a look, but not without the facts.
LEMMA OnFormActionHolds ==
    ASSUME BoundaryInv, OnFormAction
    PROVE  BoundaryInv'
  <1>1. TypeInv /\ PipeInv /\ FlowInv
    BY DEF BoundaryInv
  <1>2. /\ trespassed' = trespassed /\ violation' = violation
        /\ Handle("answer") /\ pipe # <<>> /\ pipe' = Tail(pipe) /\ Head(pipe).event = "answer"
        /\ witnessed' = Head(pipe).trespassed
        /\ loginSubmissionUrl' = loginSubmissionUrl
        /\ step' \in {"backend", "failed"}
    BY DEF OnFormAction, Handle, known, page
  <1>3. ~Telling(Head(pipe))
    BY <1>2 DEF Telling
  <1>4. PipeInv' /\ pipe' \in Seq(Messages)
    BY <1>1, <1>2, <1>3, Handles
  <1>5. witnessed' \in BOOLEAN
    <2>1. Head(pipe) \in Messages
      BY <1>1, <1>2 DEF TypeInv
    <2> QED BY <1>2, <2>1 DEF Messages
  <1>6. witnessed' => violation
    BY <1>1, <1>2, FirstAnswer
  <1>7. FlowInv'
    BY <1>2, <1>6 DEF FlowInv, SafeMeansUntouched
  <1> QED BY <1>1, <1>2, <1>4, <1>5, <1>7 DEF BoundaryInv, TypeInv

\* The steps in which nothing is handled.
LEMMA OthersHold ==
    ASSUME BoundaryInv, OnPassword \/ UNCHANGED vars
    PROVE  BoundaryInv'
  <1>1. TypeInv /\ PipeInv /\ FlowInv
    BY DEF BoundaryInv
  <1>2. /\ trespassed' = trespassed /\ violation' = violation /\ pipe' = pipe
        /\ witnessed' = witnessed /\ loginSubmissionUrl' = loginSubmissionUrl
    BY DEF OnPassword, vars, page, program, known
  <1>3. TypeInv' /\ PipeInv'
    BY <1>1, <1>2 DEF TypeInv, PipeInv, Told
  <1>4. FlowInv'
    <2>1. CASE OnPassword
      <3>1. step = "backend" /\ (step' = "failed" \/ (step' = "fill" /\ ~violation))
        BY <2>1 DEF OnPassword, Fail, Safe
      <3> QED BY <1>1, <1>2, <3>1 DEF FlowInv, SafeMeansUntouched
    <2>2. CASE UNCHANGED vars
      BY <1>1, <2>2 DEF FlowInv, SafeMeansUntouched, vars, program, known
    <2> QED BY <2>1, <2>2
  <1> QED BY <1>3, <1>4 DEF BoundaryInv

\* The inductive invariant holds in every state of the boundary.
THEOREM BoundaryInvariant == Spec => []BoundaryInv
  <1>1. Init => BoundaryInv
    <2> SUFFICES ASSUME Init PROVE BoundaryInv
      OBVIOUS
    <2>1. pipe = <<>> /\ pipe \in Seq(Messages) /\ Len(pipe) = 0
      BY DEF Init
    <2>2. TypeInv
      BY <2>1 DEF Init, TypeInv
    <2>3. PipeInv
      BY <2>1 DEF Init, PipeInv
    <2>4. FlowInv
      BY DEF Init, FlowInv, SafeMeansUntouched
    <2> QED BY <2>2, <2>3, <2>4 DEF BoundaryInv
  <1>2. BoundaryInv /\ [Next]_vars => BoundaryInv'
    <2> SUFFICES ASSUME BoundaryInv, [Next]_vars PROVE BoundaryInv'
      OBVIOUS
    <2>1. CASE Flow
      <3>1. ASSUME NEW from, NEW to \in {"detect", "form", "submit", "capture", "save"},
                   OnAnswer(from, to)
            PROVE  BoundaryInv'
        BY <3>1, OnAnswerHolds
      <3>3. CASE OnAnswer("goto", "detect") \/ OnAnswer("detect", "form")
        BY <3>1, <3>3
      <3>4. CASE \/ OnAnswer("fill", "submit") \/ OnAnswer("submit", "capture")
                 \/ OnAnswer("capture", "save")
        BY <3>1, <3>4
      <3> QED BY <2>1, <3>3, <3>4, OnFormActionHolds, OthersHold DEF Flow
    <2> QED BY <2>1, PageHolds, BrowserAnswersHolds, HandlersHold, OthersHold DEF Next, Finished
  <1> QED BY <1>1, <1>2, PTL DEF Spec

\* The flow never goes on from assertSafe when the page had trespassed before the answer
\* that it goes on from: no event is overtaken by a later answer.
THEOREM SafeIsUntouched == Spec => []SafeMeansUntouched
  <1>1. BoundaryInv => SafeMeansUntouched
    BY DEF BoundaryInv, FlowInv
  <1> QED BY <1>1, BoundaryInvariant, PTL
====
