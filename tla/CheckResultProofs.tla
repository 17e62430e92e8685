---- MODULE CheckResultProofs ----
(***************************************************************************)
(* The inductive invariant of CheckResult and the four properties that     *)
(* follow from it, for any accounts and any number of bindings.            *)
(***************************************************************************)
EXTENDS CheckResult, TLAPS

(***************************************************************************)
(* The inductive invariant                                                 *)
(***************************************************************************)

\* What the broker and the executor keep of a configuration that they took: one entry
\* of #bindings for each binding, and for a synthetic check its only binding, whose
\* account is the executor's and whose backend is there.
Accepted ==
    /\ ValidBindings(configuration.bindings)
    /\ DOMAIN bindings = {b.account : b \in ToSet(configuration.bindings)}
    /\ \A i \in DOMAIN configuration.bindings :
          bindings[configuration.bindings[i].account] =
              [kind |-> configuration.bindings[i].kind,
               origin |-> Origin(configuration.bindings[i].origin.url)]
    /\ configuration.by = "synthetic" =>
          /\ DOMAIN configuration.bindings = {1}
          /\ recorder = configuration.bindings[1].account
          /\ recorder = configuration.target
          /\ configuration.bindings[1].kind \in backends

ConfigurationInv ==
    /\ configuration \in SyntheticConfigurations \cup BrokerConfigurations
    /\ stage \in {"create", "refused"} => bindings = <<>>
    /\ stage \notin {"create", "refused"} => Accepted

\* Nothing of a check: none has begun.
Idle == check = NoCheck /\ row = None

\* The context of the check that runs is that of the account asked for.
Bound ==
    /\ request.account \in DOMAIN bindings /\ request.account # Unknown
    /\ check = [account |-> request.account, kind |-> bindings[request.account].kind,
                 origin |-> bindings[request.account].origin]

Synthetic == Bound /\ configuration.by = "synthetic"

\* What a raw result is that reconstructSubscription let pass, and what it made of it.
ExtractionPassed ==
    /\ raw \in RawResults
    /\ ~raw.unknownFields /\ StrictSchema(raw)
    /\ raw.provider = "target" /\ raw.checkedAt = "given"
    /\ subscription = [planName |-> raw.planName, providerName |-> configuration.name,
                       provider |-> raw.provider, rest |-> raw.rest]

FlowFailures == {BrowserError("ORIGIN_MISMATCH"), BrowserError("EXTRACTION_FAILED")}

\* The rows of a success and of a failure of the flow.
SuccessRecorded ==
    /\ ExtractionPassed /\ raw.planName # "blank"
    /\ row = [account |-> recorder, outcome |-> "success",
              entry |-> [outcome |-> "success",
                         subscription |-> NormalizedSubscription(subscription)]]

FailureRecorded(error) ==
    row = [account |-> recorder, outcome |-> PersistenceOutcome(error).outcome,
           entry |-> PersistenceOutcome(error)]

\* The three ends of an executor: a success is in the history and returned, a failure
\* is, or the history did not confirm what it was given.
Stored ==
    /\ SuccessRecorded
    /\ result = [outcome |-> "completed", subscription |-> subscription]
Failed ==
    \E error \in FlowFailures :
        FailureRecorded(error) /\ result = Failure(PublicFailure(error))
Unconfirmed ==
    /\ result = Failure("PERSISTENCE_FAILED")
    /\ \/ row = None /\ (fault \/ raw.planName = "blank")
       \/ fault /\ SuccessRecorded
       \/ fault /\ \E error \in FlowFailures : FailureRecorded(error)

Executed == Synthetic /\ (Stored \/ Failed \/ Unconfirmed)

\* The refusals of checkSubscription: no check has begun.
Denied ==
    /\ Idle
    /\ \/ answer = Failure("REQUEST_DENIED")
       \/ answer = Failure("BINDING_NOT_FOUND") /\ request.account \notin DOMAIN bindings
       \/ /\ answer = Failure("BACKEND_UNAVAILABLE")
          /\ request.account \in DOMAIN bindings
          /\ bindings[request.account].kind \notin backends

\* The broker's answer is the executor's result.
Answered ==
    /\ Executed
    /\ answer = IF result.outcome = "failed" THEN result ELSE CompletedAnswer

\* Where a check is, and what holds there.
StageInv ==
    \/ stage \in {"create", "refused", "serving"} /\ Idle /\ answer = None
    \/ stage = "started" /\ Bound /\ row = None /\ answer = None
    \/ stage = "extract" /\ Synthetic /\ row = None /\ answer = None
    \/ stage = "record" /\ Synthetic /\ ExtractionPassed /\ row = None /\ answer = None
    \/ /\ stage = "persistFailure" /\ Synthetic /\ failure \in FlowFailures
       /\ row = None /\ answer = None
    \/ stage = "answer" /\ Executed /\ answer = None
    \/ stage = "answered" /\ (Denied \/ Answered)

ResultInv == ConfigurationInv /\ StageInv

\* A configured binding is one of those the model enumerates.
LEMMA ConfigurationBindings ==
    ASSUME configuration \in SyntheticConfigurations \cup BrokerConfigurations
    PROVE  \A i \in DOMAIN configuration.bindings :
               configuration.bindings[i] \in BindingsByOrigin \cup BindingsByProvider
  <1>1. CASE configuration \in SyntheticConfigurations
    <2>1. PICK b \in BindingsByOrigin \cup BindingsByProvider : configuration.bindings = <<b>>
      BY <1>1 DEF SyntheticConfigurations
    <2> QED BY <2>1
  <1>2. CASE configuration \in BrokerConfigurations
    <2>1. configuration.bindings \in BoundedSeq(BindingsByProvider, MaxBindings)
      BY <1>2 DEF BrokerConfigurations
    <2>2. PICK m \in 0 .. MaxBindings : configuration.bindings \in [1 .. m -> BindingsByProvider]
      BY <2>1 DEF BoundedSeq, SeqOf
    <2> QED BY <2>2
  <1> QED BY <1>1, <1>2
----
(***************************************************************************)
(* Origins                                                                 *)
(***************************************************************************)

\* The four rules for URLs at one origin: what OriginRulesAgree says of each binding.
RulesAgreeAt(allowed) ==
    /\ \A path \in {"/login", "/billing"} :
          /\ AssertExactOrigin(UrlAt(allowed, path), allowed)
          /\ OriginMatchesBinding(UrlAt(allowed, path), allowed)
    /\ \A url \in Urls :
          /\ AssertExactOrigin(url, allowed) => OriginMatchesBinding(url, allowed)
          /\ OriginMatchesBinding(url, allowed) => IsPermittedInteractiveLoginUrl(url)

\* The rule for configured origins is at least as strict as the three others: at an
\* origin that passed exactAllowedOrigin they agree.
LEMMA ExactOriginsAgree ==
    ASSUME NEW text \in OriginTexts, ExactAllowedOrigin(text)
    PROVE  RulesAgreeAt(Origin(text.url))
  <1> DEFINE u == text.url
  <1>1. u \in Urls
    BY DEF OriginTexts
  <1>2. /\ ~Wildcard(u)
        /\ \/ u.scheme = "https"
           \/ u.scheme = "http" /\ u.host \in {"localhost", "127.0.0.1", "[::1]"}
    BY <1>1 DEF ExactAllowedOrigin, NormalizedHostname, Urls, Hosts
  <1>3. Origin(u) = [scheme |-> u.scheme, host |-> u.host, port |-> u.port]
    BY <1>2 DEF Origin
  <1> HIDE DEF u
  <1>4. ASSUME NEW path \in {"/login", "/billing"}
        PROVE  /\ AssertExactOrigin(UrlAt(Origin(u), path), Origin(u))
               /\ OriginMatchesBinding(UrlAt(Origin(u), path), Origin(u))
    <2> DEFINE page == UrlAt(Origin(u), path)
    <2>1. page = [scheme |-> u.scheme, host |-> u.host, port |-> u.port,
                  userinfo |-> FALSE, path |-> path]
      BY <1>3 DEF UrlAt
    <2> HIDE DEF page
    <2>2. ~page.userinfo /\ page.scheme = u.scheme /\ page.host = u.host /\ page.port = u.port
      BY <2>1
    <2>3. Origin(page) = Origin(u)
      BY <2>2 DEF Origin
    <2>4. AssertExactOrigin(page, Origin(u)) /\ OriginMatchesBinding(page, Origin(u))
      BY <1>2, <2>2, <2>3 DEF AssertExactOrigin, OriginMatchesBinding, Wildcard
    <2> QED BY <2>4 DEF page
  <1>5. ASSUME NEW url \in Urls, Origin(url) = Origin(u)
        PROVE  url.scheme = u.scheme /\ url.host = u.host
    <2>1. url.scheme # "other"
      BY <1>2, <1>3, <1>5 DEF Origin, NoOrigin
    <2>2. [scheme |-> url.scheme, host |-> url.host, port |-> url.port] =
          [scheme |-> u.scheme, host |-> u.host, port |-> u.port]
      BY <1>3, <1>5, <2>1 DEF Origin
    <2> QED BY <2>2
  <1>6. ASSUME NEW url \in Urls
        PROVE  /\ AssertExactOrigin(url, Origin(u)) => OriginMatchesBinding(url, Origin(u))
               /\ OriginMatchesBinding(url, Origin(u)) => IsPermittedInteractiveLoginUrl(url)
    BY <1>2, <1>5, <1>6
       DEF AssertExactOrigin, OriginMatchesBinding, IsPermittedInteractiveLoginUrl, Wildcard
  <1> QED BY <1>4, <1>6 DEF RulesAgreeAt, u

\* The origin of each configured binding is a text of the model's, whether it passes
\* exactAllowedOrigin or not.
LEMMA ConfiguredOrigins ==
    ASSUME configuration \in SyntheticConfigurations \cup BrokerConfigurations,
           NEW i \in DOMAIN configuration.bindings
    PROVE  configuration.bindings[i].origin \in OriginTexts
  <1>1. Provider("http") \in OriginTexts /\ Provider("https") \in OriginTexts
    BY DEF Provider, OriginTexts, Urls, Hosts
  <1>2. configuration.bindings[i] \in BindingsByOrigin \cup BindingsByProvider
    BY ConfigurationBindings
  <1> QED BY <1>1, <1>2 DEF BindingsByOrigin, BindingsByProvider

----
(***************************************************************************)
(* Creation                                                                *)
(***************************************************************************)

\* The constructor of the broker finds each binding of a list that was accepted: the
\* last entry of an account is its only one.
LEMMA BindingFound ==
    ASSUME NEW bs, DOMAIN bs \subseteq Nat, ValidBindings(bs), NEW i \in DOMAIN bs
    PROVE  BindingOf(bs, bs[i].account) = bs[i]
  <1> DEFINE LastOf(j) == /\ bs[j].account = bs[i].account
                          /\ \A k \in DOMAIN bs : bs[k].account = bs[i].account => k <= j
  <1>1. \A j \in DOMAIN bs : bs[j].account = bs[i].account => j = i
    BY DEF ValidBindings
  <1>2. i <= i
    OBVIOUS
  <1>3. LastOf(i)
    BY <1>1, <1>2
  <1>4. \A j \in DOMAIN bs : LastOf(j) => j = i
    BY <1>1
  <1>5. BindingOf(bs, bs[i].account) = bs[CHOOSE j \in DOMAIN bs : LastOf(j)]
    BY DEF BindingOf
  <1> HIDE DEF LastOf
  <1>6. (CHOOSE j \in DOMAIN bs : LastOf(j)) = i
    BY <1>3, <1>4
  <1> QED BY <1>5, <1>6

\* The bindings of a configuration are a sequence.
LEMMA ConfigurationIndices ==
    ASSUME configuration \in SyntheticConfigurations \cup BrokerConfigurations
    PROVE  /\ DOMAIN configuration.bindings \subseteq Nat
           /\ configuration.by = "synthetic" => DOMAIN configuration.bindings = {1}
           /\ configuration.by = "synthetic" => DOMAIN configuration.backends = {1}
  <1>1. CASE configuration \in SyntheticConfigurations
    <2>1. PICK b \in BindingsByOrigin \cup BindingsByProvider : configuration.bindings = <<b>>
      BY <1>1 DEF SyntheticConfigurations
    <2>2. PICK kind \in Kinds : configuration.backends = <<kind>>
      BY <1>1 DEF SyntheticConfigurations
    <2>3. DOMAIN <<configuration.bindings[1]>> = {1} /\ DOMAIN <<configuration.backends[1]>> = {1}
      OBVIOUS
    <2>4. DOMAIN configuration.bindings = {1} /\ DOMAIN configuration.backends = {1}
      BY <2>1, <2>2, <2>3
    <2> QED BY <2>4
  <1>2. CASE configuration \in BrokerConfigurations
    <2>1. configuration.by = "broker"
      BY <1>2 DEF BrokerConfigurations
    <2>2. configuration.bindings \in BoundedSeq(BindingsByProvider, MaxBindings)
      BY <1>2 DEF BrokerConfigurations
    <2>3. PICK m \in 0 .. MaxBindings : configuration.bindings \in [1 .. m -> BindingsByProvider]
      BY <2>2 DEF BoundedSeq, SeqOf
    <2>4. DOMAIN configuration.bindings = 1 .. m
      BY <2>3
    <2>5. 1 .. m \subseteq Nat
      OBVIOUS
    <2> QED BY <2>1, <2>4, <2>5
  <1> QED BY <1>1, <1>2

\* A broker that is constructed with bindings that passed the validation keeps them.
LEMMA ConstructKeeps ==
    ASSUME configuration \in SyntheticConfigurations \cup BrokerConfigurations,
           ValidBindings(configuration.bindings), Construct
    PROVE  /\ DOMAIN bindings' = {b.account : b \in ToSet(configuration.bindings)}
           /\ \A i \in DOMAIN configuration.bindings :
                 bindings'[configuration.bindings[i].account] =
                     [kind |-> configuration.bindings[i].kind,
                      origin |-> Origin(configuration.bindings[i].origin.url)]
           /\ backends' = ToSet(configuration.backends)
  <1> DEFINE bs == configuration.bindings
             Kept(b) == [kind |-> b.kind, origin |-> Origin(b.origin.url)]
             names == {b.account : b \in ToSet(bs)}
  <1>1. bindings' = [account \in names |-> Kept(BindingOf(bs, account))]
    BY DEF Construct
  <1>2. DOMAIN bs \subseteq Nat
    BY ConfigurationIndices
  <1> HIDE DEF Kept
  <1>3. ASSUME NEW i \in DOMAIN bs
        PROVE  bindings'[bs[i].account] = Kept(bs[i])
    <2>1. bs[i] \in ToSet(bs)
      BY DEF ToSet
    <2>2. bs[i].account \in names
      BY <2>1
    <2> HIDE DEF names
    <2>3. bindings'[bs[i].account] = Kept(BindingOf(bs, bs[i].account))
      BY <1>1, <2>2
    <2>4. BindingOf(bs, bs[i].account) = bs[i]
      BY <1>2, BindingFound
    <2> QED BY <2>3, <2>4
  <1>4. DOMAIN bindings' = names
    BY <1>1
  <1>5. backends' = ToSet(configuration.backends)
    BY DEF Construct
  <1> QED BY <1>3, <1>4, <1>5 DEF Kept

\* Either kind of creation leaves a configuration that it accepted, or nothing.
LEMMA Creation ==
    ASSUME ResultInv, CreateCredentialBroker \/ CreateSyntheticCheck
    PROVE  /\ \/ stage' = "refused" /\ bindings' = bindings
              \/ stage' = "serving" /\ Accepted'
           /\ stage = "create"
           /\ UNCHANGED <<configuration, check, answer>>
  <1> USE DEF ResultInv
  <1>1. CASE CreateCredentialBroker
    <2>1. /\ stage = "create" /\ configuration.by # "synthetic"
          /\ UNCHANGED <<configuration, check, answer>>
          /\ Refuse \/ (Construct /\ ValidBindings(configuration.bindings))
      BY <1>1 DEF CreateCredentialBroker
    <2>2. CASE Refuse
      BY <2>1, <2>2 DEF Refuse
    <2>3. CASE Construct /\ ValidBindings(configuration.bindings)
      <3>1. /\ DOMAIN bindings' = {b.account : b \in ToSet(configuration.bindings)}
            /\ \A i \in DOMAIN configuration.bindings :
                  bindings'[configuration.bindings[i].account] =
                      [kind |-> configuration.bindings[i].kind,
                       origin |-> Origin(configuration.bindings[i].origin.url)]
        BY <2>3, ConstructKeeps DEF ConfigurationInv
      <3>2. stage' = "serving"
        BY <2>3 DEF Construct
      <3>3. Accepted'
        BY <2>1, <2>3, <3>1 DEF Accepted
      <3> QED BY <2>1, <3>2, <3>3
    <2> QED BY <2>1, <2>2, <2>3
  <1>2. CASE CreateSyntheticCheck
    <2>1. /\ stage = "create" /\ configuration.by = "synthetic"
          /\ UNCHANGED <<configuration, check, answer>>
          /\ \/ Refuse
             \/ /\ ValidConfiguration /\ ValidBindings(configuration.bindings)
                /\ recorder' = configuration.bindings[1].account /\ Construct
      BY <1>2 DEF CreateSyntheticCheck
    <2>2. CASE Refuse
      BY <2>1, <2>2 DEF Refuse
    <2>3. CASE /\ ValidConfiguration /\ ValidBindings(configuration.bindings)
               /\ recorder' = configuration.bindings[1].account /\ Construct
      <3>1. /\ DOMAIN bindings' = {b.account : b \in ToSet(configuration.bindings)}
            /\ \A i \in DOMAIN configuration.bindings :
                  bindings'[configuration.bindings[i].account] =
                      [kind |-> configuration.bindings[i].kind,
                       origin |-> Origin(configuration.bindings[i].origin.url)]
            /\ backends' = ToSet(configuration.backends)
        BY <2>3, ConstructKeeps DEF ConfigurationInv
      <3>2. stage' = "serving"
        BY <2>3 DEF Construct
      <3>3. DOMAIN configuration.bindings = {1} /\ DOMAIN configuration.backends = {1}
        BY <2>1, ConfigurationIndices DEF ConfigurationInv
      <3>4. /\ recorder' = configuration.bindings[1].account
            /\ recorder' = configuration.target
            /\ configuration.backends[1] = configuration.bindings[1].kind
        BY <2>3 DEF ValidConfiguration
      <3>5. configuration.bindings[1].kind \in backends'
        BY <3>1, <3>3, <3>4 DEF ToSet
      <3>6. Accepted'
        BY <2>1, <2>3, <3>1, <3>3, <3>4, <3>5 DEF Accepted
      <3> QED BY <2>1, <3>2, <3>6
    <2> QED BY <2>1, <2>2, <2>3
  <1> QED BY <1>1, <1>2

----
(***************************************************************************)
(* Schemas                                                                 *)
(***************************************************************************)

\* The name of the provider that a check runs for is not blank.
LEMMA ProviderIsNamed ==
    ASSUME configuration \in SyntheticConfigurations \cup BrokerConfigurations
    PROVE  configuration.name \in {"plain", "padded"}
  BY DEF SyntheticConfigurations, BrokerConfigurations, ProviderNames

\* A subscription that the history's schema lets pass is stored with its names trimmed.
LEMMA TrimmedFields ==
    ASSUME NEW p, NEW n, NEW q, NEW s,
           s = [planName |-> p, providerName |-> n, provider |-> q, rest |-> "valid"],
           IsTrimmedText(p), IsTrimmedText(n)
    PROVE  NormalizedSubscription(s) =
           [planName |-> Trim(p), providerName |-> Trim(n), provider |-> q, rest |-> "valid"]
  <1>1. s.planName = p /\ s.providerName = n /\ s.rest = "valid"
    OBVIOUS
  <1>2. NormalizedSubscription(s) =
            [s EXCEPT !.planName = Trim(@), !.providerName = Trim(@)]
    BY <1>1 DEF NormalizedSubscription
  <1>3. \A a, b : [s EXCEPT !.planName = a, !.providerName = b] =
                  [[s EXCEPT !.planName = a] EXCEPT !.providerName = b]
    BY Zenon
  <1>4. \A a : [s EXCEPT !.planName = a] =
               [planName |-> a, providerName |-> n, provider |-> q, rest |-> "valid"]
    OBVIOUS
  <1>5. \A a, b : [[planName |-> a, providerName |-> n, provider |-> q, rest |-> "valid"]
                      EXCEPT !.providerName = b] =
                  [planName |-> a, providerName |-> b, provider |-> q, rest |-> "valid"]
    OBVIOUS
  <1> QED BY <1>1, <1>2, <1>3, <1>4, <1>5

\* What the history's schema makes of a subscription that the browser flow let pass: it
\* refuses a plan name of white space, and trims the two names otherwise.
LEMMA NormalizedExtraction ==
    ASSUME ConfigurationInv, ExtractionPassed
    PROVE  /\ raw.planName = "blank" => NormalizedSubscription(subscription) = None
           /\ raw.planName # "blank" =>
                 /\ NormalizedSubscription(subscription) =
                        [planName |-> "plain", providerName |-> "plain",
                         provider |-> "target", rest |-> "valid"]
                 /\ Trim(raw.planName) = "plain"
           /\ Trim(configuration.name) = "plain"
           /\ StrictSchema(subscription)
  <1>1. configuration.name \in {"plain", "padded"}
    BY ProviderIsNamed DEF ConfigurationInv
  <1>2. subscription = [planName |-> raw.planName, providerName |-> configuration.name,
                        provider |-> "target", rest |-> "valid"]
    BY DEF ExtractionPassed, StrictSchema
  <1>3. raw.planName \in {"blank", "plain", "padded"}
    BY DEF ExtractionPassed, StrictSchema, IsText, WithinLimit, RawResults, Texts
  <1>4. /\ subscription.planName = raw.planName
        /\ subscription.providerName = configuration.name
        /\ subscription.rest = "valid"
    BY <1>2
  <1>5. Trim(configuration.name) = "plain"
    BY <1>1 DEF Trim
  <1>6. CASE raw.planName = "blank"
    <2>1. ~IsTrimmedText(subscription.planName)
      BY <1>4, <1>6 DEF IsTrimmedText, IsText, Trim
    <2>2. NormalizedSubscription(subscription) = None
      BY <2>1 DEF NormalizedSubscription
    <2>3. StrictSchema(subscription)
      BY <1>4, <1>6 DEF StrictSchema, IsText, WithinLimit
    <2> QED BY <1>5, <1>6, <2>2, <2>3
  <1>7. CASE raw.planName # "blank"
    <2>1. Trim(raw.planName) = "plain"
      BY <1>3, <1>7 DEF Trim
    <2>2. IsTrimmedText(raw.planName) /\ IsTrimmedText(configuration.name)
      BY <1>5, <2>1 DEF IsTrimmedText, IsText, WithinLimit
    <2>3. NormalizedSubscription(subscription) =
              [planName |-> Trim(raw.planName), providerName |-> Trim(configuration.name),
               provider |-> "target", rest |-> "valid"]
      BY <1>2, <2>2, TrimmedFields
    <2>4. StrictSchema(subscription)
      BY <1>3, <1>4 DEF StrictSchema, IsText, WithinLimit
    <2> QED BY <1>5, <1>7, <2>1, <2>3, <2>4
  <1> QED BY <1>6, <1>7

----
(***************************************************************************)
(* The invariant is kept                                                   *)
(***************************************************************************)

\* What was configured stays as long as the check goes on.
LEMMA ConfigurationKept ==
    ASSUME ConfigurationInv, UNCHANGED <<configuration, bindings, backends, recorder>>,
           stage \notin {"create", "refused"}, stage' \notin {"create", "refused"}
    PROVE  ConfigurationInv'
  <1>1. Accepted
    BY DEF ConfigurationInv
  <1>2. Accepted'
    BY <1>1 DEF Accepted
  <1> QED BY <1>2 DEF ConfigurationInv

\* So does the context of the check, as long as the request does.
LEMMA ContextKept ==
    ASSUME Synthetic, UNCHANGED configured
    PROVE  Synthetic'
  BY DEF configured, Bound, Synthetic

\* The two ways of creation.
LEMMA CreationKeeps ==
    ASSUME ResultInv, CreateCredentialBroker \/ CreateSyntheticCheck, UNCHANGED row
    PROVE  ResultInv'
  <1>1. /\ \/ stage' = "refused" /\ bindings' = bindings
           \/ stage' = "serving" /\ Accepted'
        /\ stage = "create"
        /\ UNCHANGED <<configuration, check, answer>>
    BY Creation
  <1>2. Idle /\ answer = None
    BY <1>1 DEF ResultInv, StageInv
  <1>3. bindings = <<>>
    BY <1>1 DEF ResultInv, ConfigurationInv
  <1>4. stage' \in {"refused", "serving"} /\ Idle' /\ answer' = None
    BY <1>1, <1>2 DEF Idle
  <1>5. StageInv'
    BY <1>4 DEF StageInv
  <1>6. ConfigurationInv'
    BY <1>1, <1>3 DEF ResultInv, ConfigurationInv
  <1> QED BY <1>5, <1>6 DEF ResultInv

\* checkSubscription up to the executor: refused, or begun in the context of its binding.
LEMMA CheckSubscriptionKeeps ==
    ASSUME ResultInv, CheckSubscription, UNCHANGED row
    PROVE  ResultInv'
  <1>1. /\ stage = "serving" /\ UNCHANGED <<configuration, bindings, backends, recorder>>
    BY DEF CheckSubscription
  <1>2. Idle /\ answer = None /\ ConfigurationInv
    BY <1>1 DEF ResultInv, StageInv
  <1>3. \/ UNCHANGED check /\ stage' = "answered" /\ answer' = Failure("REQUEST_DENIED")
        \/ /\ UNCHANGED check /\ stage' = "answered" /\ answer' = Failure("BINDING_NOT_FOUND")
           /\ request'.account \notin DOMAIN bindings
        \/ /\ UNCHANGED check /\ stage' = "answered"
           /\ answer' = Failure("BACKEND_UNAVAILABLE")
           /\ request'.account \in DOMAIN bindings
           /\ bindings[request'.account].kind \notin backends
        \/ /\ stage' = "started" /\ UNCHANGED answer
           /\ request'.account \in DOMAIN bindings /\ request'.account # Unknown
           /\ check' = [account |-> request'.account,
                         kind |-> bindings[request'.account].kind,
                         origin |-> bindings[request'.account].origin]
    BY DEF CheckSubscription, Deny, Answer
  <1>4. CASE stage' = "started"
    <2>1. Bound' /\ row' = None /\ answer' = None
      BY <1>1, <1>2, <1>3, <1>4 DEF Bound, Idle
    <2>2. StageInv'
      BY <1>4, <2>1 DEF StageInv
    <2>3. ConfigurationInv'
      BY <1>1, <1>2, <1>4, ConfigurationKept
    <2> QED BY <2>2, <2>3 DEF ResultInv
  <1>5. CASE stage' = "answered"
    <2>1. Denied'
      BY <1>1, <1>2, <1>3, <1>5 DEF Denied, Idle
    <2>2. StageInv'
      BY <1>5, <2>1 DEF StageInv
    <2>3. ConfigurationInv'
      BY <1>1, <1>2, <1>5, ConfigurationKept
    <2> QED BY <2>2, <2>3 DEF ResultInv
  <1> QED BY <1>3, <1>4, <1>5

\* The flow begins, with the URLs it will visit: its own rule lets them pass, for the
\* origin was accepted, but the invariant does not need that.
LEMMA BeginKeeps ==
    ASSUME ResultInv, BeginBrowserCheck
    PROVE  ResultInv'
  <1>1. /\ stage = "started" /\ configuration.by = "synthetic" /\ UNCHANGED configured
        /\ UNCHANGED <<row, answer>>
        /\ \/ stage' = "extract"
           \/ stage' = "persistFailure" /\ failure' = BrowserError("ORIGIN_MISMATCH")
    BY DEF BeginBrowserCheck, Raise
  <1>2. Synthetic /\ row = None /\ answer = None /\ ConfigurationInv
    BY <1>1 DEF ResultInv, StageInv, Synthetic
  <1>a. UNCHANGED configured
    BY <1>1
  <1>3. Synthetic'
    <2>1. Synthetic
      BY <1>2
    <2> QED BY <1>a, <2>1, ContextKept
  <1>4. stage' = "persistFailure" => failure' \in FlowFailures
    BY <1>1 DEF FlowFailures
  <1>5. StageInv'
    BY <1>1, <1>2, <1>3, <1>4 DEF StageInv
  <1>6. ConfigurationInv'
    BY <1>1, <1>2, ConfigurationKept DEF configured
  <1> QED BY <1>5, <1>6 DEF ResultInv

\* What connector.extract returned passes reconstructSubscription or not.
LEMMA ReconstructKeeps ==
    ASSUME ResultInv, ReconstructSubscription
    PROVE  ResultInv'
  <1>1. /\ stage = "extract" /\ UNCHANGED configured /\ UNCHANGED <<row, answer>>
        /\ raw' \in RawResults
        /\ \/ /\ stage' = "record" /\ subscription' = Extracted
              /\ ~raw'.unknownFields /\ StrictSchema(raw')
              /\ raw'.provider = "target" /\ raw'.checkedAt = "given"
           \/ stage' = "persistFailure" /\ failure' = BrowserError("EXTRACTION_FAILED")
    BY DEF ReconstructSubscription, Raise
  <1>2. Synthetic /\ row = None /\ answer = None /\ ConfigurationInv
    BY <1>1 DEF ResultInv, StageInv
  <1>a. UNCHANGED configured
    BY <1>1
  <1>3. Synthetic'
    <2>1. Synthetic
      BY <1>2
    <2> QED BY <1>a, <2>1, ContextKept
  <1>c. configuration' = configuration
    BY <1>a DEF configured
  <1>4. stage' = "persistFailure" => failure' \in FlowFailures
    BY <1>1 DEF FlowFailures
  <1>5. ASSUME stage' = "record" PROVE ExtractionPassed'
    <2>1. subscription' = [planName |-> raw'.planName, providerName |-> configuration.name,
                           provider |-> raw'.provider, rest |-> raw'.rest]
      BY <1>1, <1>5 DEF Extracted
    <2>2. IsText(raw'.planName) /\ raw'.rest = "valid"
      BY <1>1, <1>5 DEF StrictSchema
    <2> QED BY <1>1, <1>c, <1>5, <2>1, <2>2 DEF ExtractionPassed, StrictSchema, IsText, WithinLimit
  <1>6. StageInv'
    BY <1>1, <1>2, <1>3, <1>4, <1>5 DEF StageInv
  <1>7. ConfigurationInv'
    BY <1>1, <1>2, ConfigurationKept DEF configured
  <1> QED BY <1>6, <1>7 DEF ResultInv

\* recordSuccessfulCheck stores what the flow handed on, normalized, or the executor
\* answers that it was not confirmed.
LEMMA RecordKeeps ==
    ASSUME ResultInv, RecordSuccess
    PROVE  ResultInv'
  <1> DEFINE stored == NormalizedSubscription(subscription)
  <1>1. /\ stage = "record" /\ stage' = "answer" /\ UNCHANGED configured
        /\ UNCHANGED <<answer, raw, subscription, failure>>
    BY DEF RecordSuccess, Fault, Return
  <1>2. /\ Synthetic /\ row = None /\ answer = None /\ ConfigurationInv /\ ExtractionPassed
    BY <1>1 DEF ResultInv, StageInv
  <1>a. UNCHANGED configured
    BY <1>1
  <1>3. Synthetic'
    <2>1. Synthetic
      BY <1>2
    <2> QED BY <1>a, <2>1, ContextKept
  <1>c. configuration' = configuration /\ recorder' = recorder
    BY <1>a DEF configured
  <1>4. /\ raw.planName = "blank" => stored = None
        /\ raw.planName # "blank" =>
              stored = [planName |-> "plain", providerName |-> "plain",
                        provider |-> "target", rest |-> "valid"]
    BY <1>2, NormalizedExtraction
  <1>5. ExtractionPassed'
    BY <1>1, <1>2, <1>c DEF ExtractionPassed, StrictSchema, IsText, WithinLimit
  <1>6. \/ /\ stored = None /\ row' = row
           /\ result' = Failure("PERSISTENCE_FAILED")
        \/ /\ stored # None
           /\ \/ /\ row' = [account |-> recorder, outcome |-> "success",
                            entry |-> [outcome |-> "success", subscription |-> stored]]
                 /\ \/ result' = [outcome |-> "completed", subscription |-> subscription]
                    \/ fault' = TRUE /\ result' = Failure("PERSISTENCE_FAILED")
              \/ fault' = TRUE /\ row' = row /\ result' = Failure("PERSISTENCE_FAILED")
    BY DEF RecordSuccess, Fault, Write, Return
  <1>7. stored' = stored
    BY <1>1 DEF NormalizedSubscription, IsTrimmedText, IsText, WithinLimit, Trim
  <1> HIDE DEF stored
  <1>8. Stored' \/ Unconfirmed'
    <2>1. CASE /\ stored # None
               /\ row' = [account |-> recorder, outcome |-> "success",
                          entry |-> [outcome |-> "success", subscription |-> stored]]
               /\ \/ result' = [outcome |-> "completed", subscription |-> subscription]
                  \/ fault' = TRUE /\ result' = Failure("PERSISTENCE_FAILED")
      <3>1. raw'.planName # "blank"
        BY <1>1, <1>4, <2>1
      <3>2. row' = [account |-> recorder', outcome |-> "success",
                    entry |-> [outcome |-> "success", subscription |-> stored']]
        BY <1>c, <1>7, <2>1
      <3>3. SuccessRecorded'
        BY <1>5, <3>1, <3>2 DEF SuccessRecorded, stored
      <3>4. CASE result' = [outcome |-> "completed", subscription |-> subscription]
        BY <1>1, <3>3, <3>4 DEF Stored
      <3>5. CASE fault' = TRUE /\ result' = Failure("PERSISTENCE_FAILED")
        BY <3>3, <3>5 DEF Unconfirmed, Failure
      <3> QED BY <2>1, <3>4, <3>5
    <2>2. CASE /\ fault' = TRUE /\ row' = row
               /\ result' = Failure("PERSISTENCE_FAILED")
      BY <1>2, <2>2 DEF Unconfirmed, None, Failure
    <2>3. CASE /\ stored = None /\ row' = row
               /\ result' = Failure("PERSISTENCE_FAILED")
      <3>1. raw'.planName = "blank"
        <4> SUFFICES ASSUME stored = None, raw.planName # "blank" PROVE FALSE
          BY <1>1, <2>3
        <4>1. None = [planName |-> "plain", providerName |-> "plain",
                      provider |-> "target", rest |-> "valid"]
          BY <1>4
        <4>2. DOMAIN None = {"planName", "providerName", "provider", "rest"}
          BY <4>1
        <4> QED BY <4>2 DEF None
      <3> QED BY <1>2, <2>3, <3>1 DEF Unconfirmed, None, Failure
    <2> QED BY <1>6, <2>1, <2>2, <2>3
  <1>9. StageInv'
    BY <1>1, <1>2, <1>3, <1>8 DEF StageInv, Executed
  <1>10. ConfigurationInv'
    BY <1>1, <1>2, ConfigurationKept DEF configured
  <1> QED BY <1>9, <1>10 DEF ResultInv

\* #persistFailure writes the failure of the flow, or the executor answers that it was
\* not confirmed.
LEMMA PersistKeeps ==
    ASSUME ResultInv, PersistFailure
    PROVE  ResultInv'
  <1>1. /\ stage = "persistFailure" /\ stage' = "answer" /\ UNCHANGED configured
        /\ UNCHANGED <<answer, raw, subscription, failure>>
    BY DEF PersistFailure, Fault, Return
  <1>2. Synthetic /\ failure \in FlowFailures /\ row = None /\ answer = None /\ ConfigurationInv
    BY <1>1 DEF ResultInv, StageInv
  <1>a. UNCHANGED configured
    BY <1>1
  <1>3. Synthetic'
    <2>1. Synthetic
      BY <1>2
    <2> QED BY <1>a, <2>1, ContextKept
  <1>4. recorder' = recorder
    BY <1>a DEF configured
  <1>5. \/ /\ row' = [account |-> recorder, outcome |-> PersistenceOutcome(failure).outcome,
                      entry |-> PersistenceOutcome(failure)]
           /\ \/ result' = Failure(PublicFailure(failure))
              \/ fault' = TRUE /\ result' = Failure("PERSISTENCE_FAILED")
        \/ fault' = TRUE /\ row' = row /\ result' = Failure("PERSISTENCE_FAILED")
    BY DEF PersistFailure, Fault, Write, Return
  <1>6. Failed' \/ Unconfirmed'
    <2>1. CASE row' = [account |-> recorder, outcome |-> PersistenceOutcome(failure).outcome,
                       entry |-> PersistenceOutcome(failure)]
      <3>1. FailureRecorded(failure)'
        BY <1>1, <1>2, <1>4, <2>1 DEF FailureRecorded, FlowFailures, BrowserError,
           PersistenceOutcome, IsAuthenticationError, IsResponseError, IsConnectionError,
           FailedRow, ReauthenticationRow
      <3>2. (failure \in FlowFailures)' /\ failure' = failure
        BY <1>1, <1>2 DEF FlowFailures, BrowserError
      <3>3. CASE result' = Failure(PublicFailure(failure))
        <4>1. (result = Failure(PublicFailure(failure)))'
          BY <3>2, <3>3 DEF Failure, PublicFailure
        <4> QED BY <3>1, <3>2, <4>1 DEF Failed
      <3>4. CASE fault' = TRUE /\ result' = Failure("PERSISTENCE_FAILED")
        BY <3>1, <3>2, <3>4 DEF Unconfirmed, Failure
      <3> QED BY <1>5, <2>1, <3>3, <3>4 DEF Unconfirmed
    <2>2. CASE fault' = TRUE /\ row' = row /\ result' = Failure("PERSISTENCE_FAILED")
      BY <1>2, <2>2 DEF Unconfirmed, None, Failure
    <2> QED BY <1>5, <2>1, <2>2
  <1>7. StageInv'
    BY <1>1, <1>2, <1>3, <1>6 DEF StageInv, Executed
  <1>8. ConfigurationInv'
    BY <1>1, <1>2, ConfigurationKept DEF configured
  <1> QED BY <1>7, <1>8 DEF ResultInv

\* What an executor leaves behind stays when nothing of it is written.
LEMMA ExecutedKept ==
    ASSUME Executed, UNCHANGED configured,
           UNCHANGED <<raw, subscription, failure, row, result, fault>>
    PROVE  Executed'
  <1>1. Synthetic'
    BY ContextKept DEF Executed
  <1>2. configuration' = configuration /\ recorder' = recorder
    BY DEF configured
  <1>a. SuccessRecorded => SuccessRecorded'
    BY <1>2 DEF SuccessRecorded, ExtractionPassed, StrictSchema, IsText, WithinLimit,
       NormalizedSubscription, IsTrimmedText, Trim, None
  <1>b. \A error \in FlowFailures : FailureRecorded(error) => FailureRecorded(error)'
    BY <1>2 DEF FailureRecorded, FlowFailures, BrowserError, PersistenceOutcome,
       IsAuthenticationError, IsResponseError, IsConnectionError, FailedRow,
       ReauthenticationRow
  <1>3. Stored => Stored'
    BY <1>a DEF Stored
  <1>4. Failed => Failed'
    BY <1>b DEF Failed, FlowFailures, BrowserError, Failure, PublicFailure
  <1>5. Unconfirmed => Unconfirmed'
    BY <1>a, <1>b DEF Unconfirmed, None, Failure, FlowFailures, BrowserError
  <1> QED BY <1>1, <1>3, <1>4, <1>5 DEF Executed

\* The subscription of a success passes the broker's schema, so that its answer is what
\* the executor returned.
LEMMA ParseKeeps ==
    ASSUME ResultInv, ParseResult
    PROVE  ResultInv'
  <1>1. /\ stage = "answer" /\ stage' = "answered" /\ UNCHANGED configured
        /\ UNCHANGED <<raw, subscription, failure, row, result, fault>>
        /\ answer' = IF result.outcome = "failed" THEN result
                     ELSE IF StrictSchema(result.subscription)
                     THEN CompletedAnswer ELSE Failure("CHECK_FAILED")
    BY DEF ParseResult, Answer
  <1>2. Executed /\ ConfigurationInv
    BY <1>1 DEF ResultInv, StageInv
  <1>3. Executed'
    BY <1>1, <1>2, ExecutedKept
  <1>4. ASSUME result.outcome # "failed" PROVE StrictSchema(result.subscription)
    <2>1. Stored
      BY <1>2, <1>4 DEF Executed, Failed, Unconfirmed, Failure
    <2>2. StrictSchema(subscription)
      BY <1>2, <2>1, NormalizedExtraction DEF Stored, SuccessRecorded
    <2> QED BY <2>1, <2>2 DEF Stored
  <1>5. answer' = IF result'.outcome = "failed" THEN result' ELSE CompletedAnswer
    BY <1>1, <1>4
  <1>6. CompletedAnswer' = CompletedAnswer
    BY <1>1 DEF CompletedAnswer, configured
  <1>7. Answered'
    BY <1>3, <1>5, <1>6 DEF Answered
  <1>8. StageInv'
    BY <1>1, <1>7 DEF StageInv
  <1>9. ConfigurationInv'
    BY <1>1, <1>2, ConfigurationKept DEF configured
  <1> QED BY <1>8, <1>9 DEF ResultInv

\* A step that changes nothing.
LEMMA StutteringKeeps ==
    ASSUME ResultInv, UNCHANGED vars
    PROVE  ResultInv'
  <1>1. UNCHANGED configured /\ UNCHANGED <<stage, answer, failure, row>>
    BY DEF vars
  <1>a. UNCHANGED configured
    BY <1>1
  <1>b. UNCHANGED <<configuration, bindings, backends, recorder, request, check>>
    BY <1>a DEF configured
  <1>c. UNCHANGED <<raw, subscription, failure, row, result, fault>>
    BY DEF vars
  <1>2. ConfigurationInv'
    BY <1>1, <1>b DEF ResultInv, ConfigurationInv, Accepted
  <1>3. Idle => Idle'
    BY <1>1, <1>b DEF Idle, None, NoCheck
  <1>4. Bound => Bound'
    BY <1>b DEF Bound
  <1>5. Synthetic => Synthetic'
    BY <1>a, ContextKept
  <1>6. ExtractionPassed => ExtractionPassed'
    BY <1>b, <1>c DEF ExtractionPassed, StrictSchema, IsText, WithinLimit
  <1>7. Executed => Executed'
    BY <1>a, <1>c, ExecutedKept
  <1>8. Denied => Denied'
    BY <1>1, <1>b, <1>3 DEF Denied, Failure
  <1>9. Answered => Answered'
    BY <1>1, <1>b, <1>c, <1>7 DEF Answered, CompletedAnswer
  <1>10. StageInv'
    BY <1>1, <1>3, <1>4, <1>5, <1>6, <1>7, <1>8, <1>9 DEF StageInv, ResultInv
  <1> QED BY <1>2, <1>10 DEF ResultInv

\* The invariant holds of every behaviour.
THEOREM ResultInvariant == Spec => []ResultInv
  <1>1. ResultInit => ResultInv
    BY DEF ResultInit, Init, ResultInv, ConfigurationInv, StageInv, Idle
  <1>2. ResultInv /\ [Next]_vars => ResultInv'
    <2> SUFFICES ASSUME ResultInv, [Next]_vars PROVE ResultInv'
      OBVIOUS
    <2>1. ASSUME ConfigurationNext, UNCHANGED <<raw, subscription, failure, row, result, fault>>
          PROVE  ResultInv'
      BY <2>1, CreationKeeps, CheckSubscriptionKeeps DEF ConfigurationNext
    <2>2. CASE BeginBrowserCheck
      BY <2>2, BeginKeeps
    <2>3. CASE ReconstructSubscription
      BY <2>3, ReconstructKeeps
    <2>4. CASE RecordSuccess
      BY <2>4, RecordKeeps
    <2>5. CASE PersistFailure
      BY <2>5, PersistKeeps
    <2>6. CASE ParseResult
      BY <2>6, ParseKeeps
    <2>7. CASE UNCHANGED vars
      BY <2>7, StutteringKeeps
    <2> QED BY <2>1, <2>2, <2>3, <2>4, <2>5, <2>6, <2>7 DEF Next, Finished
  <1> QED BY <1>1, <1>2, PTL DEF Spec

----
(***************************************************************************)
(* What follows from it                                                    *)
(***************************************************************************)

\* Once a broker serves, its accounts are the configured ones, each of one binding.
LEMMA OneBinding ==
    ASSUME ConfigurationInv, stage \notin {"create", "refused"}, NEW account
    PROVE  /\ account \in DOMAIN bindings =>
                \E i \in Configured(account) :
                   /\ Configured(account) = {i}
                   /\ bindings[account] = [kind |-> configuration.bindings[i].kind,
                                           origin |-> Origin(configuration.bindings[i].origin.url)]
           /\ account \notin DOMAIN bindings => Configured(account) = {}
  <1> DEFINE bs == configuration.bindings
  <1>1. Accepted
    BY DEF ConfigurationInv
  <1>2. DOMAIN bindings = {b.account : b \in ToSet(bs)} /\ ValidBindings(bs)
    BY <1>1 DEF Accepted
  <1>3. \A i \in DOMAIN bs : bs[i].account \in DOMAIN bindings
    BY <1>2 DEF ToSet
  <1>4. ASSUME account \in DOMAIN bindings
        PROVE  \E i \in Configured(account) :
                  /\ Configured(account) = {i}
                  /\ bindings[account] = [kind |-> bs[i].kind, origin |-> Origin(bs[i].origin.url)]
    <2>1. PICK i \in DOMAIN bs : bs[i].account = account
      BY <1>2, <1>4 DEF ToSet
    <2>2. i \in Configured(account)
      BY <2>1 DEF Configured
    <2>3. Configured(account) = {i}
      BY <1>2, <2>1 DEF Configured, ValidBindings
    <2>4. bindings[account] = [kind |-> bs[i].kind, origin |-> Origin(bs[i].origin.url)]
      BY <1>1, <2>1 DEF Accepted
    <2> QED BY <2>2, <2>3, <2>4
  <1>5. account \notin DOMAIN bindings => Configured(account) = {}
    BY <1>3 DEF Configured
  <1> QED BY <1>4, <1>5

\* The executor of a synthetic check is the account's that it runs for, and its backend
\* is configured.
LEMMA SyntheticAccount ==
    ASSUME ConfigurationInv, stage \notin {"create", "refused"},
           configuration.by = "synthetic", NEW account \in DOMAIN bindings
    PROVE  /\ account = recorder /\ account = configuration.target
           /\ bindings[account].kind \in backends
  <1>1. Accepted
    BY DEF ConfigurationInv
  <1>2. /\ DOMAIN configuration.bindings = {1}
        /\ recorder = configuration.bindings[1].account /\ recorder = configuration.target
        /\ configuration.bindings[1].kind \in backends
    BY <1>1 DEF Accepted
  <1>3. account = configuration.bindings[1].account
    BY <1>1, <1>2 DEF Accepted, ToSet
  <1>4. bindings[account].kind = configuration.bindings[1].kind
    BY <1>1, <1>2, <1>3 DEF Accepted
  <1> QED BY <1>2, <1>3, <1>4

\* OneAccountThroughout follows.
LEMMA AccountOfInvariant == ResultInv => OneAccountThroughout
  <1> SUFFICES ASSUME ResultInv PROVE OneAccountThroughout
    OBVIOUS
  <1>0. ConfigurationInv
    BY DEF ResultInv
  <1>1. ASSUME check # NoCheck
        PROVE  \E i \in Configured(request.account) :
                  /\ Configured(request.account) = {i}
                  /\ check = [account |-> request.account,
                               kind |-> configuration.bindings[i].kind,
                               origin |-> Origin(configuration.bindings[i].origin.url)]
                  /\ configuration.by = "synthetic" => configuration.target = request.account
    <2>1. Bound /\ stage \notin {"create", "refused"}
      BY <1>1 DEF ResultInv, StageInv, Idle, Denied, Answered, Executed, Synthetic
    <2>2. request.account \in DOMAIN bindings
      BY <2>1 DEF Bound
    <2>3. PICK i \in Configured(request.account) :
              /\ Configured(request.account) = {i}
              /\ bindings[request.account] =
                     [kind |-> configuration.bindings[i].kind,
                      origin |-> Origin(configuration.bindings[i].origin.url)]
      BY <1>0, <2>1, <2>2, OneBinding
    <2>4. check = [account |-> request.account,
                   kind |-> configuration.bindings[i].kind,
                   origin |-> Origin(configuration.bindings[i].origin.url)]
      BY <2>1, <2>3 DEF Bound
    <2>5. configuration.by = "synthetic" => configuration.target = request.account
      BY <1>0, <2>1, <2>2, SyntheticAccount
    <2> QED BY <2>3, <2>4, <2>5
  <1>2. ASSUME row # None
        PROVE  row.account = request.account
    <2>1. /\ Synthetic /\ stage \notin {"create", "refused"}
          /\ SuccessRecorded \/ \E error \in FlowFailures : FailureRecorded(error)
      BY <1>2 DEF ResultInv, StageInv, Idle, Denied, Answered, Executed, Stored, Failed,
                  Unconfirmed
    <2>2. row.account = recorder
      BY <2>1 DEF SuccessRecorded, FailureRecorded
    <2>3. request.account \in DOMAIN bindings /\ configuration.by = "synthetic"
      BY <2>1 DEF Synthetic, Bound
    <2> QED BY <1>0, <2>1, <2>2, <2>3, SyntheticAccount
  <1>3. ASSUME answer.outcome = "completed"
        PROVE  answer.account = request.account
    <2>1. Answered
      BY <1>3 DEF ResultInv, StageInv, Denied, None, Failure
    <2>2. answer = CompletedAnswer /\ Bound
      BY <1>3, <2>1 DEF Answered, Executed, Synthetic
    <2>3. answer.account = check.account
      BY <2>2 DEF CompletedAnswer
    <2> QED BY <2>2, <2>3 DEF Bound
  <1>4. ASSUME Answered
        PROVE  /\ answer # Failure("BINDING_NOT_FOUND")
               /\ answer # Failure("BACKEND_UNAVAILABLE")
    <2>1. CASE result.outcome = "failed"
      <3>1. Failed \/ Unconfirmed
        BY <1>4, <2>1 DEF Answered, Executed, Stored
      <3>2. result.code \in {"ORIGIN_MISMATCH", "EXTRACTION_FAILED", "PERSISTENCE_FAILED"}
        BY <3>1 DEF Failed, Unconfirmed, Failure, FlowFailures, BrowserError, PublicFailure
      <3>3. answer.code = result.code
        BY <1>4, <2>1 DEF Answered
      <3> QED BY <3>2, <3>3 DEF Failure
    <2>2. CASE result.outcome # "failed"
      <3>1. answer.outcome = "completed"
        BY <1>4, <2>2 DEF Answered, CompletedAnswer
      <3> QED BY <3>1 DEF Failure
    <2> QED BY <2>1, <2>2
  <1>5. ASSUME answer.outcome = "failed", ~Answered
        PROVE  Denied /\ stage = "answered"
    BY <1>5 DEF ResultInv, StageInv, None
  <1>6. ASSUME answer = Failure("BINDING_NOT_FOUND")
        PROVE  Configured(request.account) = {}
    <2>1. Denied /\ stage = "answered"
      BY <1>4, <1>5, <1>6 DEF Failure
    <2>2. request.account \notin DOMAIN bindings
      BY <1>6, <2>1 DEF Denied, Failure
    <2> QED BY <1>0, <2>1, <2>2, OneBinding
  <1>7. ASSUME answer = Failure("BACKEND_UNAVAILABLE")
        PROVE  configuration.by = "broker"
    <2>1. Denied /\ stage = "answered"
      BY <1>4, <1>5, <1>7 DEF Failure
    <2>2. /\ request.account \in DOMAIN bindings
          /\ bindings[request.account].kind \notin backends
      BY <1>7, <2>1 DEF Denied, Failure
    <2>3. configuration.by # "synthetic"
      BY <1>0, <2>1, <2>2, SyntheticAccount
    <2> QED BY <1>0, <2>3
            DEF ConfigurationInv, SyntheticConfigurations, BrokerConfigurations
  <1> QED BY <1>1, <1>2, <1>3, <1>6, <1>7 DEF OneAccountThroughout

\* A check runs for the account that was asked for, under its only binding: the context,
\* the row that the executor writes for its own account and the answer agree, whatever
\* was configured.
THEOREM AccountThroughout == Spec => []OneAccountThroughout
  BY ResultInvariant, AccountOfInvariant, PTL

\* The rules for URLs of the broker, the browser and the interactive login agree at each
\* origin that the validation of bindings let pass.
THEOREM RulesAgree == Spec => []OriginRulesAgree
  <1>1. ResultInv => OriginRulesAgree
    <2> SUFFICES ASSUME ResultInv, NEW account \in DOMAIN bindings
                 PROVE  RulesAgreeAt(bindings[account].origin)
      BY DEF OriginRulesAgree, RulesAgreeAt
    <2>1. ConfigurationInv
      BY DEF ResultInv
    <2>2. stage \notin {"create", "refused"}
      <3>1. DOMAIN <<>> = {}
        OBVIOUS
      <3> QED BY <2>1, <3>1 DEF ConfigurationInv
    <2>a. PICK i \in Configured(account) :
              /\ Configured(account) = {i}
              /\ bindings[account] = [kind |-> configuration.bindings[i].kind,
                                      origin |-> Origin(configuration.bindings[i].origin.url)]
      BY <2>1, <2>2, OneBinding
    <2>3. bindings[account].origin = Origin(configuration.bindings[i].origin.url)
      BY <2>a
    <2>4. i \in DOMAIN configuration.bindings
      BY DEF Configured
    <2>5. configuration.bindings[i].origin \in OriginTexts
      BY <2>1, <2>4, ConfiguredOrigins DEF ConfigurationInv
    <2>6. ExactAllowedOrigin(configuration.bindings[i].origin)
      BY <2>1, <2>2, <2>4 DEF ConfigurationInv, Accepted, ValidBindings, ValidBinding
    <2> QED BY <2>3, <2>5, <2>6, ExactOriginsAgree
  <1> QED BY <1>1, ResultInvariant, PTL

\* A row of a success is of a raw result that the browser flow let pass, with the texts
\* that the history's schema trimmed.
THEOREM NormalizedIsStored == Spec => []StoredIsNormalized
  <1>1. ResultInv => StoredIsNormalized
    <2> SUFFICES ASSUME ResultInv, row.outcome = "success" PROVE StoredIsNormalized
      BY DEF StoredIsNormalized
    <2>1. ASSUME NEW error \in FlowFailures, FailureRecorded(error) PROVE FALSE
      BY <2>1 DEF FailureRecorded, FlowFailures, BrowserError, PersistenceOutcome,
         IsAuthenticationError, IsResponseError, IsConnectionError, FailedRow
    <2>2. SuccessRecorded
      BY <2>1 DEF ResultInv, StageInv, Idle, Denied, Answered, Executed, Stored, Failed,
                  Unconfirmed, None
    <2>3. StoredIsNormalized
      <3>1. ConfigurationInv /\ ExtractionPassed /\ raw.planName # "blank"
        BY <2>2 DEF ResultInv, SuccessRecorded
      <3>2. NormalizedSubscription(subscription) =
                [planName |-> "plain", providerName |-> "plain",
                 provider |-> "target", rest |-> "valid"]
        BY <3>1, NormalizedExtraction
      <3>3. row.entry.subscription = NormalizedSubscription(subscription)
        BY <2>2 DEF SuccessRecorded
      <3> QED BY <3>1, <3>2, <3>3 DEF StoredIsNormalized, ExtractionPassed
    <2> QED BY <2>3
  <1> QED BY <1>1, ResultInvariant, PTL

\* A subscription with its two names trimmed, as AnswerIsStored has it.
Trimmed(s) == [s EXCEPT !.planName = Trim(@), !.providerName = Trim(@)]

\* The answer of a success has the subscription that was extracted; trimmed, it is the
\* stored one.
LEMMA TrimmedAnswer ==
    ASSUME NEW p, NEW n, NEW s,
           s = [planName |-> p, providerName |-> n, provider |-> "target", rest |-> "valid"],
           Trim(p) = "plain", Trim(n) = "plain"
    PROVE  Trimmed(s) =
           [planName |-> "plain", providerName |-> "plain",
            provider |-> "target", rest |-> "valid"]
  <1>1. s.planName = p /\ s.providerName = n /\ s.rest = "valid"
    OBVIOUS
  <1>2. IsTrimmedText(p) /\ IsTrimmedText(n)
    BY DEF IsTrimmedText, IsText, WithinLimit
  <1>3. NormalizedSubscription(s) = Trimmed(s)
    BY <1>1, <1>2 DEF NormalizedSubscription, Trimmed
  <1>4. NormalizedSubscription(s) =
            [planName |-> Trim(p), providerName |-> Trim(n),
             provider |-> "target", rest |-> "valid"]
    BY <1>2, TrimmedFields
  <1> QED BY <1>3, <1>4

\* A success that the agent is told of is in the history, of the same subscription; one
\* in the history is told to the agent unless the database failed after it; and a check
\* without a row is answered as one that was not stored.
THEOREM StoredIsAnswered == Spec => []AnswerIsStored
  <1>1. ResultInv => AnswerIsStored
    <2> SUFFICES ASSUME ResultInv, stage = "answered", check # NoCheck
                 PROVE  /\ answer.outcome = "completed" =>
                              /\ row.outcome = "success"
                              /\ row.entry.subscription =
                                    [answer.subscription EXCEPT
                                       !.planName = Trim(@), !.providerName = Trim(@)]
                        /\ row.outcome = "success" =>
                              \/ answer.outcome = "completed"
                              \/ fault /\ answer = Failure("PERSISTENCE_FAILED")
                        /\ row = None => answer = Failure("PERSISTENCE_FAILED")
                        /\ answer = Failure("PERSISTENCE_FAILED") =>
                              fault \/ raw.planName = "blank"
      BY DEF AnswerIsStored
    <2>1. Answered /\ ConfigurationInv
      BY DEF ResultInv, StageInv, Denied, Idle
    <2>2. CASE Stored
      <3>1. /\ row.outcome = "success" /\ result.outcome = "completed"
            /\ row.entry.subscription = NormalizedSubscription(subscription)
            /\ result.subscription = subscription
        BY <2>2 DEF Stored, SuccessRecorded
      <3>2. answer = CompletedAnswer
        BY <2>1, <3>1 DEF Answered
      <3>3. answer.outcome = "completed" /\ answer.subscription = subscription
        BY <3>1, <3>2 DEF CompletedAnswer
      <3>4. ExtractionPassed /\ raw.planName # "blank"
        BY <2>2 DEF Stored, SuccessRecorded
      <3>5. /\ NormalizedSubscription(subscription) =
                   [planName |-> "plain", providerName |-> "plain",
                    provider |-> "target", rest |-> "valid"]
            /\ Trim(raw.planName) = "plain" /\ Trim(configuration.name) = "plain"
        BY <2>1, <3>4, NormalizedExtraction
      <3>6. subscription = [planName |-> raw.planName, providerName |-> configuration.name,
                            provider |-> "target", rest |-> "valid"]
        BY <3>4 DEF ExtractionPassed, StrictSchema
      <3>7. Trimmed(subscription) =
                [planName |-> "plain", providerName |-> "plain",
                 provider |-> "target", rest |-> "valid"]
        BY <3>5, <3>6, TrimmedAnswer
      <3>8. row.entry.subscription = Trimmed(answer.subscription)
        BY <3>1, <3>3, <3>5, <3>7
      <3>9. row # None /\ answer # Failure("PERSISTENCE_FAILED")
        BY <3>1, <3>3 DEF None, Failure
      <3> QED BY <3>1, <3>3, <3>8, <3>9 DEF Trimmed
    <2>3. CASE Failed
      <3>1. PICK error \in FlowFailures :
                FailureRecorded(error) /\ result = Failure(PublicFailure(error))
        BY <2>3 DEF Failed
      <3>2. row.outcome = "failed"
        BY <3>1 DEF FailureRecorded, FlowFailures, BrowserError, PersistenceOutcome,
           IsAuthenticationError, IsResponseError, IsConnectionError, FailedRow
      <3>3. /\ result.outcome = "failed"
            /\ result.code \in {"ORIGIN_MISMATCH", "EXTRACTION_FAILED"}
        BY <3>1 DEF Failure, FlowFailures, BrowserError, PublicFailure
      <3>4. answer = result
        BY <2>1, <3>3 DEF Answered
      <3>5. answer # Failure("PERSISTENCE_FAILED")
        BY <3>3, <3>4 DEF Failure
      <3> QED BY <3>2, <3>3, <3>4, <3>5 DEF None
    <2>4. CASE Unconfirmed
      <3>1. result.outcome = "failed"
        BY <2>4 DEF Unconfirmed, Failure
      <3>2. answer = Failure("PERSISTENCE_FAILED") /\ answer.outcome = "failed"
        BY <2>1, <2>4, <3>1 DEF Answered, Unconfirmed, Failure
      <3>3. row.outcome = "success" => fault
        BY <2>4 DEF Unconfirmed, None
      <3>4. fault \/ raw.planName = "blank"
        BY <2>4 DEF Unconfirmed
      <3> QED BY <3>2, <3>3, <3>4
    <2> QED BY <2>1, <2>2, <2>3, <2>4 DEF Answered, Executed
  <1> QED BY <1>1, ResultInvariant, PTL
====
