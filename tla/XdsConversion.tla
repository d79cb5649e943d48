---------------------------- MODULE XdsConversion ----------------------------
(* What the gateway makes of the resources a control plane sends it        *)
(* (agentgateway/src/types/agent_xds.rs, and ServerTLSConfig of            *)
(* types/agent.rs).  A resource is taken, refused as a whole (a NACK that  *)
(* keeps the last one), or panics the client.  A part of it that makes no  *)
(* sense refuses the resource, is replaced by one that always fails, falls *)
(* back to a default, or is left out: each conversion says which.          *)
(*                                                                         *)
(* A field is "absent", "broken" (it has no known or parsable value) or    *)
(* has a value; an optional message is a sequence of at most one.          *)
EXTENDS Naturals, Sequences

CONSTANTS
  XdsMessage,  \* the resources that may be sent
  SoundMessage \* those without a part that is broken or missing

(* What the wire format makes of any resource: repeated fields are lists,  *)
(* and a number of attempts is one without a sign.                         *)
ListOf(s, Shaped(_)) ==
  s \in Seq({s[i] : i \in DOMAIN s}) /\ \A i \in DOMAIN s : Shaped(s[i])
TrafficPolicyShaped(p) == p.kind = "retry" => p.attempts \in Nat
BackendPolicyShaped(p) == p.kind = "ai" => ListOf(p.requests, LAMBDA g : TRUE)
BackendShaped(b) == ListOf(b.policies, BackendPolicyShaped)
RouteShaped(r) == ListOf(r.policies, TrafficPolicyShaped) /\ ListOf(r.backends, BackendShaped)

ASSUME MessagesAssumption ==
  \A m \in XdsMessage :
    /\ m.resource = "route" => RouteShaped(m)
    /\ m.resource = "backend" => BackendShaped(m)
    /\ m.resource = "policy" /\ m.type = "traffic" => TrafficPolicyShaped(m.spec)
    /\ m.resource = "policy" /\ m.type = "backend" => BackendPolicyShaped(m.spec)

VARIABLES
  xdsMessage, \* the resource
  taken       \* what became of it: <<>> before its conversion

xdsConversionVars == <<xdsMessage, taken>>

Taken(v) == [ok |-> TRUE, is |-> v]
Refused == [ok |-> FALSE, panics |-> FALSE]
Panicked == [ok |-> FALSE, panics |-> TRUE]

(* v, if every part converts; else what became of the first that does not. *)
Needs(parts, v) ==
  IF \A i \in DOMAIN parts : parts[i].ok THEN Taken(v)
  ELSE parts[CHOOSE i \in DOMAIN parts : ~parts[i].ok /\ \A j \in 1..(i - 1) : parts[j].ok]

(* Those that convert, at their places.                                    *)
EachThatConverts(items, Convert(_)) ==
  [i \in {j \in DOMAIN items : Convert(items[j]).ok} |-> Convert(items[i]).is]
Each(items, Convert(_)) ==
  Needs([i \in DOMAIN items |-> Convert(items[i])],
        [i \in DOMAIN items |-> Convert(items[i]).is])

Optional(x) == IF x = "broken" THEN Refused ELSE Taken(x)
Required(x) == IF x \in {"broken", "absent"} THEN Refused ELSE Taken(x)

(* Expression::new_permissive: one that does not compile fails whenever it *)
(* is evaluated.                                                           *)
Permissive(e) == IF e = "broken" THEN "fails" ELSE e

-----------------------------------------------------------------------------
(* TLS of a listener.                                                      *)

KnownSuite == {"suite 1.2", "suite 1.3"}
Suites(named) == named \cap KnownSuite
TlsVersionOf(v) == IF v \in {"1.2", "1.3"} THEN v ELSE "absent"

TlsVersions(min, max) ==
  (IF min = "1.3" THEN {} ELSE {"1.2"}) \cup (IF max = "1.2" THEN {} ELSE {"1.3"})
SuiteServes(s, versions) == (IF s = "suite 1.2" THEN "1.2" ELSE "1.3") \in versions

InvalidTls == [works |-> FALSE]

(* build_server_config, in the order of its checks: no version left, no    *)
(* suite for the versions (an expect), roots and certificate.              *)
BuildServerTls(pair, root, min, max, suites) ==
  LET versions == TlsVersions(min, max)
  IN CASE versions = {} -> Refused
       [] versions # {} /\ suites # {} /\ ~\E s \in suites : SuiteServes(s, versions) -> Panicked
       [] OTHER ->
            Needs(<<Optional(root), Required(pair)>>,
                  [works |-> TRUE, versions |-> versions, suites |-> suites,
                   asksClient |-> root # "absent"])

(* A certificate that does not load gives a listener that no connection    *)
(* gets through.                                                           *)
ServerTls(t) ==
  LET built == BuildServerTls(t.pair, t.root, TlsVersionOf(t.min), TlsVersionOf(t.max), Suites(t.suites))
  IN IF built.ok \/ built.panics THEN built ELSE Taken(InvalidTls)

ListenerProtocol(protocol, tls) ==
  CASE protocol \in {"https", "tls"} /\ tls # <<>> ->
         LET t == ServerTls(tls[1]) IN Needs(<<t>>, [protocol |-> protocol, tls |-> <<t.is>>])
    [] protocol \in {"http", "tls", "tcp", "hbone"} /\ tls = <<>> ->
         Taken([protocol |-> protocol, tls |-> <<>>])
    [] OTHER -> Refused

ConvertListener(l) ==
  LET p == ListenerProtocol(l.protocol, l.tls)
  IN Needs(<<Required(l.protocol), p, Required(l.name)>>, p.is)

ConvertBind(b) ==
  Needs(<<Optional(b.protocol), Optional(b.tunnel)>>,
        [port |-> b.port % 65536, protocol |-> b.protocol, tunnel |-> b.tunnel])

-----------------------------------------------------------------------------
(* References, and what is matched.                                        *)

(* A reference that names nothing is kept as one that serves nothing.      *)
Reference(r) == IF r \in {"absent", "broken"} THEN "invalid" ELSE r

HeaderMatches(hs) == Each(hs, Required)

RouteMatches(m) ==
  LET path == IF m.path = "absent" THEN Taken("/") ELSE Required(m.path)
      headers == HeaderMatches(m.headers)
      queries == Each(m.queries, Required)
  IN Needs(<<path, headers, queries>>,
           [path |-> path.is, headers |-> headers.is, queries |-> queries.is])

HeaderModifier(p) == Taken([kind |-> p.kind])

(* Ports are cut to sixteen bits, and a zero that is left is unwrapped.    *)
Redirect(r) ==
  IF r.scheme # "broken" /\ r.host = "absent" /\ r.port # 0 /\ r.port % 65536 = 0 THEN Panicked
  ELSE Needs(<<Optional(r.scheme), Optional(r.status)>>,
             [kind |-> "redirect", host |-> r.host, port |-> r.port])

Mirror(p) == Taken([kind |-> "mirror", to |-> [i \in DOMAIN p.to |-> Reference(p.to[i])]])

KeepAlive(k) == Taken([enabled |-> k # "absent"])

-----------------------------------------------------------------------------
(* Policies of a backend.                                                  *)

CompiledRules(r) ==
  [allow |-> {Permissive(e) : e \in r.allow}, deny |-> {Permissive(e) : e \in r.deny}]

McpAuthorization(p) == Taken([kind |-> "mcp authorization", rules |-> CompiledRules(p)])

McpAuthentication(p) ==
  Needs(<<Required(p.jwks), Optional(p.mode)>>,
        [kind |-> "mcp authentication", mode |-> p.mode,
         provider |-> IF p.provider = "broken" THEN "absent" ELSE p.provider])

(* What has no known type is taken for completions.                        *)
AiRouteType(t) == IF t = "broken" THEN "completions" ELSE t

RegexRules(g) ==
  [kind |-> "regex", action |-> IF g.action = "reject" THEN "reject" ELSE "mask",
   rules |-> g.rules \ {"broken"}]

Webhook(g) ==
  Needs(<<HeaderMatches(g.headers)>>, [kind |-> "webhook", target |-> Reference(g.target)])

BackendAuth(p) ==
  CASE p.auth \in {"passthrough", "key", "gcp"} -> Taken([kind |-> "auth", auth |-> p.auth])
    [] p.auth = "managed identity" /\ p.source = "broken" -> Panicked
    [] p.auth \in {"aws", "azure"} \/ (p.auth = "managed identity" /\ p.source # "broken") ->
         Needs(<<Required(p.source)>>, [kind |-> "auth", auth |-> p.auth])
    [] OTHER -> Refused

(* A client certificate needs both its parts; names are looked at only     *)
(* where the peer is verified.                                             *)
BackendTls(p) ==
  LET verifies == IF p.verification # "all" THEN p.verification
                  ELSE IF p.names = "absent" THEN "all" ELSE "names"
  IN Needs(<<Optional(p.verification), Optional(p.root),
             IF p.key = "absent" THEN Taken(p.cert) ELSE Optional(p.cert),
             IF p.verification = "all" THEN Optional(p.names) ELSE Taken(p.names),
             Optional(p.hostname)>>,
           [kind |-> "tls", verifies |-> verifies,
            client |-> p.cert # "absent" /\ p.key # "absent"])

(* BackendPolicy::try_from, without the policies for language models.      *)
PlainBackendPolicy(p) ==
  CASE p.kind = "a2a" -> Taken([kind |-> "a2a"])
    [] p.kind = "inference" ->
         Needs(<<Optional(p.mode)>>,
               [kind |-> p.kind, target |-> Reference(p.target),
                mode |-> IF p.mode = "open" THEN "open" ELSE "closed"])
    [] p.kind = "http" -> Needs(<<Optional(p.version)>>, [kind |-> p.kind, version |-> p.version])
    [] p.kind = "tcp" -> Needs(<<KeepAlive(p.keepalive)>>, [kind |-> p.kind])
    [] p.kind = "tls" -> BackendTls(p)
    [] p.kind = "auth" -> BackendAuth(p)
    [] p.kind = "mcp authorization" -> McpAuthorization(p)
    [] p.kind = "mcp authentication" -> McpAuthentication(p)
    [] p.kind \in {"request headers", "response headers"} -> HeaderModifier(p)
    [] p.kind = "redirect" -> Redirect(p)
    [] p.kind = "mirror" -> Mirror(p)
    [] OTHER -> Refused

RequestGuard(g) ==
  CASE g.kind = "regex" -> Taken(RegexRules(g))
    [] g.kind = "webhook" -> Webhook(g)
    [] g.kind = "moderation" ->
         Needs(<<Each(g.policies, PlainBackendPolicy)>>, [kind |-> "moderation"])
    [] OTHER -> Refused

(* One that does not convert is left out, where one of requests refuses.   *)
ResponseGuard(g) ==
  CASE g.kind = "regex" -> Taken(RegexRules(g))
    [] g.kind = "webhook" -> Webhook(g)
    [] OTHER -> Refused
ResponseGuards(gs) == EachThatConverts(gs, ResponseGuard)

(* convert_backend_ai_policy *)
AiPolicy(p) ==
  LET requests == Each(p.requests, RequestGuard)
  IN Needs(<<requests, Optional(p.defaults), Optional(p.overrides)>>,
           [kind |-> "ai", requests |-> requests.is, responses |-> ResponseGuards(p.responses),
            route |-> AiRouteType(p.route)])

BackendPolicy(p) == IF p.kind = "ai" THEN AiPolicy(p) ELSE PlainBackendPolicy(p)

-----------------------------------------------------------------------------
(* Policies of routes and gateways: TrafficPolicy::try_from, kind by kind. *)

Timeout(p) == Needs(<<Optional(p.request), Optional(p.backend)>>, p)

(* The attempts are cut to eight bits; none left means one.                *)
Retry(p) ==
  Needs(<<Optional(p.backoff), Optional(p.codes)>>,
        [kind |-> "retry",
         attempts |-> IF p.attempts % 256 = 0 THEN 1 ELSE p.attempts % 256])

LocalRateLimit(p) ==
  Needs(<<Optional(p.type), Required(p.fill), Optional(p.limits)>>,
        [kind |-> "local limit", type |-> p.type])

ExtAuthzMode(mode) == IF mode \in {"allow", "status"} THEN mode ELSE "deny"

ExtAuthz(p) ==
  Needs(<<Required(p.protocol), IF p.protocol = "http" THEN Optional(p.headers) ELSE Taken(p.headers)>>,
        [kind |-> "ext authz", target |-> Reference(p.target), mode |-> ExtAuthzMode(p.mode),
         sends |-> p.sends \ {"broken"}])

Authorization(p) == Taken([kind |-> "authorization", rules |-> CompiledRules(p)])

(* Provider::from_jwks: no keys is no error.                               *)
Jwt(p) ==
  Needs(<<Optional(p.mode), Each(p.providers, Required)>>,
        [kind |-> "jwt", mode |-> p.mode, providers |-> p.providers])

Transformation(p) ==
  Needs(<<Each(p.names, Optional)>>,
        [kind |-> "transformation", values |-> {Permissive(e) : e \in p.values}])

RemoteRateLimit(p) ==
  IF Reference(p.target) = "invalid" THEN Refused
  ELSE Taken([kind |-> "remote limit", target |-> p.target,
              counts |-> IF p.type = "tokens" THEN "tokens" ELSE "requests",
              values |-> {Permissive(e) : e \in p.values}])

ExternalProcessor(p) ==
  Taken([kind |-> "ext proc", target |-> Reference(p.target),
         mode |-> IF p.mode = "open" THEN "open" ELSE "closed"])

(* Basic authentication and api keys.                                      *)
Keys(p) == Needs(<<Optional(p.mode)>>, [kind |-> p.kind, mode |-> p.mode])

TrafficPolicy(p) ==
  CASE p.kind = "timeout" -> Timeout(p)
    [] p.kind = "retry" -> Retry(p)
    [] p.kind = "local limit" -> LocalRateLimit(p)
    [] p.kind = "ext authz" -> ExtAuthz(p)
    [] p.kind = "authorization" -> Authorization(p)
    [] p.kind = "jwt" -> Jwt(p)
    [] p.kind = "transformation" -> Transformation(p)
    [] p.kind = "remote limit" -> RemoteRateLimit(p)
    [] p.kind = "ext proc" -> ExternalProcessor(p)
    [] p.kind \in {"basic", "api key"} -> Keys(p)
    [] p.kind \in {"csrf", "url rewrite"} -> Taken(p)
    [] p.kind \in {"direct response", "cors", "host rewrite"} -> Needs(<<Optional(p.value)>>, p)
    [] p.kind \in {"request headers", "response headers"} -> HeaderModifier(p)
    [] p.kind = "redirect" -> Redirect(p)
    [] p.kind = "mirror" -> Mirror(p)
    [] OTHER -> Refused

Phased(p) ==
  LET t == TrafficPolicy(p) IN Needs(<<t, Optional(p.phase)>>, [phase |-> p.phase, policy |-> t.is])

Tracing(p) ==
  Taken([kind |-> "tracing", target |-> Reference(p.target),
         sampling |-> Permissive(p.sampling),
         protocol |-> IF p.protocol = "grpc" THEN "grpc" ELSE "http"])

FrontendPolicy(p) ==
  CASE p.kind = "http" -> Taken(p)
    [] p.kind = "tls" ->
         Taken([kind |-> "tls", min |-> TlsVersionOf(p.min), max |-> TlsVersionOf(p.max),
                suites |-> Suites(p.suites)])
    [] p.kind = "tcp" -> Needs(<<KeepAlive(p.keepalive)>>, [kind |-> "tcp"])
    [] p.kind = "logging" -> Taken([kind |-> "logging", filter |-> Permissive(p.filter)])
    [] p.kind = "tracing" -> Tracing(p)
    [] OTHER -> Refused

(* TargetedPolicy::try_from, with PolicyTarget::try_from.                  *)
ConvertPolicy(p) ==
  LET c == CASE p.type = "traffic" -> Phased(p.spec)
             [] p.type = "backend" -> BackendPolicy(p.spec)
             [] p.type = "frontend" -> FrontendPolicy(p.spec)
             [] OTHER -> Refused
  IN Needs(<<Required(p.target), c>>, [type |-> p.type, spec |-> c.is])

-----------------------------------------------------------------------------
(* Routes and backends.                                                    *)

RouteBackend(b) ==
  LET pols == Each(b.policies, BackendPolicy)
  IN Needs(<<pols>>, [target |-> Reference(b.target), policies |-> pols.is])

ConvertRoute(r) ==
  LET matches == Each(r.matches, RouteMatches)
      backends == Each(r.backends, RouteBackend)
      traffic == Each(r.policies, TrafficPolicy)
  IN Needs(<<Required(r.name), matches, backends, traffic>>,
           [matches |-> matches.is, backends |-> backends.is, policies |-> traffic.is])

(* The policies of its backends are not read.                              *)
ConvertTcpRoute(r) ==
  Needs(<<Required(r.name)>>,
        [backends |-> [i \in DOMAIN r.backends |->
                         [target |-> Reference(r.backends[i].target), policies |-> <<>>]]])

AiProvider(p) ==
  LET pols == Each(p.policies, BackendPolicy)
  IN Needs(<<pols, Required(p.provider)>>, [provider |-> p.provider, policies |-> pols.is])

(* Groups without a provider are left out, but one has to remain.          *)
AiBackend(groups) ==
  LET each == Each(groups, LAMBDA g : Each(g, AiProvider))
  IN IF each.ok /\ \A i \in DOMAIN groups : groups[i] = <<>> THEN Refused
     ELSE Needs(<<each>>, SelectSeq(each.is, LAMBDA g : g # <<>>))

XdsMcpTarget(t) ==
  Needs(<<Optional(t.protocol)>>,
        [target |-> Reference(t.target),
         protocol |-> IF t.protocol = "sse" THEN "sse" ELSE "streamable",
         path |-> IF t.path # "absent" THEN t.path ELSE IF t.protocol = "sse" THEN "/sse" ELSE "/mcp"])

ConvertBackend(b) ==
  LET pols == Each(b.policies, BackendPolicy)
      of == CASE b.of \in {"static", "dynamic"} -> Taken(b.of)
              [] b.of = "ai" -> AiBackend(b.parts)
              [] b.of = "mcp" -> Each(b.parts, XdsMcpTarget)
              [] OTHER -> Refused
  IN Needs(<<pols, Required(b.name), of>>, [of |-> b.of, parts |-> of.is, policies |-> pols.is])

-----------------------------------------------------------------------------

Convert(m) ==
  CASE m.resource = "bind" -> ConvertBind(m)
    [] m.resource = "listener" -> ConvertListener(m)
    [] m.resource = "route" -> ConvertRoute(m)
    [] m.resource = "tcp route" -> ConvertTcpRoute(m)
    [] m.resource = "backend" -> ConvertBackend(m)
    [] m.resource = "policy" -> ConvertPolicy(m)
    [] OTHER -> Refused

ConversionInit == xdsMessage \in XdsMessage /\ taken = <<>>

ResourceReceived ==
  /\ taken = <<>>
  /\ taken' = <<Convert(xdsMessage)>>
  /\ UNCHANGED xdsMessage

ConversionNext == ResourceReceived

ConversionSpec == ConversionInit /\ [][ConversionNext]_xdsConversionVars

-----------------------------------------------------------------------------
(* Properties                                                              *)

CallerSays == {"one", "two"}

Admits(rules, says) ==
  rules.allow \cup rules.deny # {} => rules.deny \cap says = {} /\ rules.allow \cap says # {}

(* A rule that does not compile lets nobody in: no caller gets through the *)
(* rules as taken that the rules as sent keep out.  A rule to deny that    *)
(* does not compile is no reason to keep anybody out.                      *)
RulesHold(sent, got) ==
  \A says \in SUBSET CallerSays : Admits(got, says) => Admits(sent, says)

(* A guard of a language model does what it did to all it was told of,     *)
(* patterns that do not compile aside.                                     *)
GuardHolds(sent, got) ==
  /\ got.kind = sent.kind
  /\ sent.kind = "regex" =>
       /\ got.action = "reject" <=> sent.action = "reject"
       /\ got.rules = sent.rules \ {"broken"}

(* Every guard of requests is kept, and every one of answers but for those *)
(* of no known kind and webhooks with a header that makes no sense.        *)
GuardsHold(sent, got) ==
  /\ DOMAIN got.requests = DOMAIN sent.requests
  /\ \A i \in DOMAIN sent.requests : GuardHolds(sent.requests[i], got.requests[i])
  /\ \A i \in DOMAIN sent.responses :
       LET g == sent.responses[i] IN
         \/ g.kind = "regex"
         \/ g.kind = "webhook" /\ \A j \in DOMAIN g.headers : g.headers[j] \notin {"absent", "broken"}
         => i \in DOMAIN got.responses /\ GuardHolds(g, got.responses[i])

(* What protects a backend or its callers, policy by policy.               *)
BackendPolicyHolds(sent, got) ==
  CASE sent.kind = "mcp authorization" -> RulesHold(sent, got.rules)
    [] sent.kind = "mcp authentication" -> got.mode = sent.mode /\ sent.jwks \notin {"absent", "broken"}
    [] sent.kind = "inference" -> got.mode = "open" => sent.mode = "open"
    [] sent.kind = "tls" ->
         /\ got.verifies \in {"host", "nothing"} => sent.verification = got.verifies
         /\ sent.verification = "all" /\ sent.names # "absent" => got.verifies = "names"
    [] sent.kind = "auth" -> got.auth = sent.auth
    [] sent.kind = "ai" -> GuardsHold(sent, got)
    [] OTHER -> TRUE

(* The same for the policies of routes and gateways: only a failure mode   *)
(* that says so passes without the server, an authentication is as strict  *)
(* as it was sent, and a limit has something to ask.                       *)
TrafficPolicyHolds(sent, got) ==
  CASE sent.kind = "authorization" -> RulesHold(sent, got.rules)
    [] sent.kind = "ext authz" -> got.mode = "allow" => sent.mode = "allow"
    [] sent.kind = "ext proc" -> got.mode = "open" => sent.mode = "open"
    [] sent.kind \in {"jwt", "basic", "api key"} -> got.mode = sent.mode
    [] sent.kind = "remote limit" -> got.target # "invalid"
    [] sent.kind = "retry" -> got.attempts \in 1..255
    [] OTHER -> TRUE

(* A listener of TLS never serves in the clear, nor without the            *)
(* certificate, the client's certificate, the versions and the suites that *)
(* were named for it, as far as they are known.                            *)
ListenerHolds(sent, got) ==
  /\ got.protocol = sent.protocol
  /\ sent.tls # <<>> =>
       /\ got.tls # <<>>
       /\ LET asked == sent.tls[1]
              tls == got.tls[1]
          IN tls.works =>
               /\ asked.pair \notin {"absent", "broken"} /\ asked.root # "broken"
               /\ asked.root # "absent" => tls.asksClient
               /\ asked.min = "1.3" => "1.2" \notin tls.versions
               /\ asked.max = "1.2" => "1.3" \notin tls.versions
               /\ tls.suites = asked.suites \cap KnownSuite

FrontendPolicyHolds(sent, got) ==
  sent.kind = "tls" =>
    /\ sent.min = "1.3" => got.min = "1.3"
    /\ sent.max = "1.2" => got.max = "1.2"
    /\ got.suites = sent.suites \cap KnownSuite

(* No policy of a route or of its backends is left out.                    *)
AllHold(sent, got, Holds(_, _)) ==
  DOMAIN got = DOMAIN sent /\ \A i \in DOMAIN sent : Holds(sent[i], got[i])

RouteHolds(sent, got) ==
  /\ AllHold(sent.policies, got.policies, TrafficPolicyHolds)
  /\ AllHold(sent.backends, got.backends,
             LAMBDA s, g : AllHold(s.policies, g.policies, BackendPolicyHolds))

(* A resource that is taken keeps every policy, and of every restriction   *)
(* all but the parts named above that make no sense.                       *)
RestrictionsKept ==
  taken # <<>> /\ taken[1].ok =>
    LET got == taken[1].is
    IN CASE xdsMessage.resource = "listener" -> ListenerHolds(xdsMessage, got)
         [] xdsMessage.resource = "route" -> RouteHolds(xdsMessage, got)
         [] xdsMessage.resource = "backend" ->
              AllHold(xdsMessage.policies, got.policies, BackendPolicyHolds)
         [] xdsMessage.resource = "policy" /\ xdsMessage.type = "traffic" ->
              TrafficPolicyHolds(xdsMessage.spec, got.spec.policy)
         [] xdsMessage.resource = "policy" /\ xdsMessage.type = "backend" ->
              BackendPolicyHolds(xdsMessage.spec, got.spec)
         [] xdsMessage.resource = "policy" /\ xdsMessage.type = "frontend" ->
              FrontendPolicyHolds(xdsMessage.spec, got.spec)
         [] OTHER -> TRUE

(* What is not so: that a policy with such a part is never taken, and what *)
(* is served is never looser than what was sent.                           *)
NeverLooser ==
  taken # <<>> /\ taken[1].ok /\ xdsMessage.resource = "policy" =>
    LET p == xdsMessage.spec
    IN /\ p.kind \in {"authorization", "mcp authorization"} => "broken" \notin p.deny
       /\ p.kind = "ai" =>
            /\ \A i \in DOMAIN p.responses : ResponseGuard(p.responses[i]).ok
            /\ \A i \in DOMAIN p.requests :
                 p.requests[i].kind = "regex" => "broken" \notin p.requests[i].rules
       /\ xdsMessage.type = "frontend" /\ p.kind = "tls" => p.suites \subseteq KnownSuite

(* One without a flaw is taken.                                            *)
RefusedForCause == taken # <<>> /\ xdsMessage \in SoundMessage => taken[1].ok

ConversionFaithful == RestrictionsKept /\ RefusedForCause
=============================================================================
