---- MODULE CheckConfiguration ----
(***************************************************************************)
(* From a configuration to the executor of a check: the validation of the  *)
(* credential bindings (credential-binding.ts), of a broker's backends     *)
(* (credential-broker.ts) and of a synthetic check                         *)
(* (synthetic-subscription-check.ts), and the lookup of a request.         *)
(* CheckResult goes on from there.                                         *)
(*                                                                         *)
(* Which URLs a check may be at is decided in four places that share no    *)
(* code: when a binding is validated, by the browser at each of its steps, *)
(* by the broker before it reads a password, and before an interactive     *)
(* login.  They are the four operators on URLs below.                      *)
(***************************************************************************)
EXTENDS Sequences, SequencesExt

CONSTANTS
    Accounts,   \* well-formed account references
    MaxBindings \* bound on the bindings of a configuration

Kinds == {"one_password", "synthetic_fake"}

Unknown == "unknown"  \* in place of a well-formed reference or kind

----
(* URLs, as new URL(...) takes them apart *)

Hosts == {"provider", "*.provider", "localhost", "127.0.0.1", "[::1]"}

\* "other" stands for the schemes without an origin, such as about: and file:.
Urls ==
    [scheme : {"https", "http", "other"}, host : Hosts, port : {"default", "other"},
     userinfo : BOOLEAN, path : {"/", "/login", "/billing"}]

NoOrigin == [scheme |-> "null"]

\* url.origin
Origin(url) ==
    IF url.scheme = "other" THEN NoOrigin
    ELSE [scheme |-> url.scheme, host |-> url.host, port |-> url.port]

UrlAt(origin, path) ==
    [scheme |-> origin.scheme, host |-> origin.host, port |-> origin.port,
     userinfo |-> FALSE, path |-> path]

\* What a configuration may have for an origin: the text of a URL, which may be that
\* of its origin or not (a path, a query, a default port, letters in upper case).
OriginTexts ==
    {text \in [url : Urls, exact : BOOLEAN] :
        text.exact => text.url.path = "/" /\ ~text.url.userinfo /\ text.url.scheme # "other"}

Wildcard(url) == url.host = "*.provider"

\* normalizedHostname takes the brackets of an IPv6 address away.
NormalizedHostname(host) == IF host = "[::1]" THEN "::1" ELSE host

\* exactAllowedOrigin
ExactAllowedOrigin(text) ==
    LET url == text.url
        loopbackHttp ==
            /\ url.scheme = "http"
            /\ NormalizedHostname(url.host) \in {"localhost", "127.0.0.1", "::1"}
    IN  /\ url.scheme = "https" \/ loopbackHttp
        /\ ~url.userinfo /\ ~Wildcard(url) /\ url.path = "/"
        /\ text.exact

\* The broker's rule for the page that a password is asked for.
OriginMatchesBinding(url, allowed) ==
    ~url.userinfo /\ ~Wildcard(url) /\ Origin(url) = allowed

\* Mutant of AssertExactOrigin: the host name is compared without its brackets.
AssertUnbracketedOrigin(url, allowed) ==
    /\ ~url.userinfo /\ Origin(url) = allowed
    /\ \/ url.scheme = "https"
       \/ url.scheme = "http" /\ url.host \in {"localhost", "127.0.0.1", "::1"}

\* The browser's rule for its pages, requests and form actions.
AssertExactOrigin(url, allowed) ==
    /\ ~url.userinfo /\ Origin(url) = allowed
    /\ \/ url.scheme = "https"
       \/ url.scheme = "http" /\ url.host \in {"localhost", "127.0.0.1", "[::1]"}

\* The rule for an interactive login.
IsPermittedInteractiveLoginUrl(url) ==
    /\ ~url.userinfo
    /\ \/ url.scheme = "https"
       \/ url.scheme = "http" /\ url.host \in {"localhost", "127.0.0.1", "[::1]"}

----
VARIABLES
    stage,         \* "create", "refused", "serving", "started", those of CheckResult, "answered"
    configuration, \* what the program was configured with
    bindings,      \* DomainBoundCredentialBroker.#bindings, from accounts to bindings
    backends,      \* the kinds in its #backends
    recorder,      \* SyntheticSubscriptionCheckExecutor.#accountReference
    request,       \* the request of an agent
    check,         \* the bound context of the check that has begun
    answer         \* what the agent is told

configured == <<configuration, bindings, backends, recorder, request, check>>

Provider(scheme) ==
    [url |-> [scheme |-> scheme, host |-> "provider", port |-> "default",
              userinfo |-> FALSE, path |-> "/"],
     exact |-> TRUE]

\* Bindings with any origin, and bindings with any mistake in the rest.
BindingsByOrigin ==
    [account : Accounts, kind : Kinds, item : {"item"}, origin : OriginTexts]
BindingsByProvider ==
    [account : Accounts \cup {Unknown}, kind : Kinds \cup {Unknown},
     item : {"item", Unknown}, origin : {Provider("http"), Provider("https")}]

\* The name of the provider, with white space around it or not; it is never blank, for
\* it has the word synthetic in it.
ProviderNames == {"plain", "padded"}

\* The options of createBrokeredSyntheticSubscriptionCheck and of
\* createCredentialBroker, whose executor is the caller's.  settings are the parts
\* that are looked at for themselves: names, lifetimes, limits, functions.
SyntheticConfigurations ==
    [by : {"synthetic"},
     bindings : {<<b>> : b \in BindingsByOrigin \cup BindingsByProvider},
     backends : {<<kind>> : kind \in Kinds}, target : Accounts \cup {Unknown},
     name : ProviderNames, settings : {"valid", "invalid"}]
BrokerConfigurations ==
    [by : {"broker"}, bindings : BoundedSeq(BindingsByProvider, MaxBindings),
     backends : BoundedSeq(Kinds \cup {Unknown}, 2), target : {Unknown},
     name : {"plain"}, settings : {"valid", "invalid"}]

NoCheck == [account |-> Unknown]

None == [outcome |-> "none"]
Failure(code) == [outcome |-> "failed", code |-> code]

Init ==
    /\ stage = "create"
    /\ configuration \in SyntheticConfigurations \cup BrokerConfigurations
    /\ bindings = <<>> /\ backends = {} /\ recorder = Unknown
    /\ request = NoCheck /\ check = NoCheck /\ answer = None

----
(* Creation *)

\* validateCredentialBinding
ValidBinding(b) ==
    /\ b.account # Unknown /\ b.kind # Unknown /\ b.item # Unknown
    /\ ExactAllowedOrigin(b.origin)

\* Mutant of ValidBindings: two bindings may name one account.
ValidEach(bs) == bs # <<>> /\ \A i \in DOMAIN bs : ValidBinding(bs[i])

\* validateCredentialBindings
ValidBindings(bs) ==
    /\ bs # <<>>
    /\ \A i \in DOMAIN bs : ValidBinding(bs[i])
    /\ \A i, j \in DOMAIN bs : bs[i].account = bs[j].account => i = j

\* validateBackends: known kinds, each at most once; there may be none.
ValidBackends(kinds) ==
    /\ \A i \in DOMAIN kinds : kinds[i] # Unknown
    /\ IsInjective(kinds)

\* The constructor of the broker: of two entries of a Map with one key the last stays.
BindingOf(bs, account) ==
    bs[CHOOSE i \in DOMAIN bs : /\ bs[i].account = account
                                /\ \A j \in DOMAIN bs : bs[j].account = account => j <= i]
Construct ==
    /\ bindings' = [account \in {b.account : b \in ToSet(configuration.bindings)} |->
                       LET b == BindingOf(configuration.bindings, account)
                       IN  [kind |-> b.kind, origin |-> Origin(b.origin.url)]]
    /\ backends' = ToSet(configuration.backends)
    /\ stage' = "serving"

Refuse == stage' = "refused" /\ UNCHANGED <<bindings, backends>>

CreateCredentialBroker ==
    /\ stage = "create" /\ configuration.by = "broker"
    /\ IF /\ ValidBindings(configuration.bindings) /\ ValidBackends(configuration.backends)
          /\ configuration.settings = "valid"
       THEN Construct ELSE Refuse
    /\ UNCHANGED <<configuration, recorder, request, check, answer>>

\* validateConfiguration
ValidConfiguration ==
    LET b == configuration.bindings[1] IN
    /\ ValidBinding(b) /\ configuration.settings = "valid"
    /\ configuration.target = b.account
    /\ configuration.backends[1] = b.kind

\* createBrokeredSyntheticSubscriptionCheck: the broker validates its part once more.
CreateSyntheticCheck ==
    /\ stage = "create" /\ configuration.by = "synthetic"
    /\ IF ValidConfiguration /\ ValidBindings(configuration.bindings)
          /\ ValidBackends(configuration.backends)
       THEN recorder' = configuration.bindings[1].account /\ Construct
       ELSE UNCHANGED recorder /\ Refuse
    /\ UNCHANGED <<configuration, request, check, answer>>

----
(* A request *)

Requests == [account : Accounts \cup {Unknown}, wellFormed : BOOLEAN]

Answer(a) == stage' = "answered" /\ answer' = a

Deny(code) == Answer(Failure(code)) /\ UNCHANGED check

\* checkSubscription up to the executor
CheckSubscription ==
    /\ stage = "serving"
    /\ request' \in Requests
    /\ LET account == request'.account IN
       IF ~request'.wellFormed \/ account = Unknown THEN Deny("REQUEST_DENIED")
       ELSE IF account \notin DOMAIN bindings THEN Deny("BINDING_NOT_FOUND")
       ELSE IF bindings[account].kind \notin backends THEN Deny("BACKEND_UNAVAILABLE")
       ELSE /\ check' = [account |-> account, kind |-> bindings[account].kind,
                          origin |-> bindings[account].origin]
            /\ stage' = "started" /\ UNCHANGED answer
    /\ UNCHANGED <<configuration, bindings, backends, recorder>>

ConfigurationNext == CreateCredentialBroker \/ CreateSyntheticCheck \/ CheckSubscription

----
(* Property *)

\* The four rules agree on an origin that a configuration was accepted with.  Its pages
\* pass all of them; a page that the browser stays on is one that the broker reads a
\* password for; and such a page is one that an interactive login would be let to.
OriginRulesAgree ==
    \A account \in DOMAIN bindings :
        LET allowed == bindings[account].origin IN
        /\ \A path \in {"/login", "/billing"} :
              /\ AssertExactOrigin(UrlAt(allowed, path), allowed)
              /\ OriginMatchesBinding(UrlAt(allowed, path), allowed)
        /\ \A url \in Urls :
              /\ AssertExactOrigin(url, allowed) => OriginMatchesBinding(url, allowed)
              /\ OriginMatchesBinding(url, allowed) => IsPermittedInteractiveLoginUrl(url)
====
