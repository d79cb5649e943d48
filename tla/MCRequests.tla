----------------------------- MODULE MCRequests -----------------------------
(* The parts that decide where a request goes and what applies to it, side *)
(* by side: `part` picks the one that moves in a behaviour.  None of them  *)
(* has a liveness of its own.                                              *)
EXTENDS McpSession, McpDispatch, Routing, PolicyMerge, TaskRouter, RequestChecks,
  XdsConversion, LlmExchange, LlmStreams, Relation, TLC

VARIABLE part

requestsVars ==
  <<part, sessionVars, dispatchVars, routingVars, policyVars, taskVars, checkVars,
    xdsConversionVars, llmVars, conversionVars, streamVars>>

Symmetric == Permutations(Endpoint) \cup Permutations(SessionCall) \cup Permutations(UpSession)

-----------------------------------------------------------------------------
(* McpDispatch: small sets of targets, tools and rules; a target with the  *)
(* delimiter in its name, which makes two tools share one.  Every subset   *)
(* of them, and every name that may be called, whether offered or not.     *)

DispatchTargets == {<<"a">>, <<"b">>, <<"a", "_", "b">>}
DispatchTools == {<<"x">>, <<"b", "_", "x">>}
OffersSome ==
  \A t \in DispatchTargets : offers[t] = IF t = <<"a">> THEN DispatchTools ELSE {<<"x">>}
DispatchRules == {{}, {<< <<"a">>, <<"x">> >>}, {<< <<"a">>, <<"b", "_", "x">> >>}}

-----------------------------------------------------------------------------
(* Routing: small sets of patterns, routes and requests.                   *)

Host1 == <<"x", "b", "c">>
Host2 == <<"y", "c">>
Patterns == {Everywhere, Host1, <<"*", "b", "c">>, <<"*", "c">>}

Match(kind, path, method, headers) ==
  [kind |-> kind, path |-> path, method |-> method, headers |-> headers, query |-> {}]
Shapes ==
  {[hosts |-> {Host1, <<"*", "c">>},
    matches |-> <<Match("prefix", <<>>, AnyMethod, {}), Match("exact", <<"p">>, AnyMethod, {})>>],
   [hosts |-> {<<"*", "b", "c">>, <<"*", "c">>},
    matches |-> <<Match("prefix", <<"p">>, "GET", {})>>],
   [hosts |-> {<<"*", "c">>}, matches |-> <<Match("prefix", <<"p", "q">>, AnyMethod, {"h"})>>],
   [hosts |-> {}, matches |-> <<Match("regex", <<"*">>, AnyMethod, {})>>]}

Requests ==
  [host : {Host1, Host2}, path : {<<>>, <<"p">>, <<"p", "q">>}, method : {"GET", "PUT"},
   headers : {{}, {"h"}}, query : {{}}]

(* An HTTPRoute that loses a match, and one that moves to another host.    *)
ChangingShapes ==
  {[hosts |-> {Host1}, matches |-> <<Match("prefix", <<>>, AnyMethod, {}),
                                      Match("exact", <<"p">>, AnyMethod, {})>>],
   [hosts |-> {Host1}, matches |-> <<Match("prefix", <<>>, AnyMethod, {})>>],
   [hosts |-> {<<"*", "c">>}, matches |-> <<Match("prefix", <<>>, AnyMethod, {})>>]}

-----------------------------------------------------------------------------
(* PolicyMerge: a policy of a gateway is chosen one way only, one of a     *)
(* backend two ways, one of a route three.                                 *)

PolicyBodies ==
  {b \in [type : {"route", "gateway", "backend"}, kind : {"first", "list", "authz"},
          empty : BOOLEAN] :
     /\ b.empty => b.kind = "list"
     /\ b.type # "route" => b.kind # "list"
     /\ b.type = "gateway" => b.kind = "first"}

(* All keys play the same part, so that one order of the hash sets stands  *)
(* for all.                                                                *)
SomeOrder == CHOOSE o \in Orders : TRUE

-----------------------------------------------------------------------------
(* TaskRouter: a diamond, a circle, one that closes through a subtask that *)
(* is not listed, a listed subtask behind one.                             *)
Dags ==
  {[nodes |-> <<1, 2, 3, 4>>, edges |-> {<<1, 2>>, <<1, 3>>, <<2, 4>>, <<3, 4>>}],
   [nodes |-> <<1, 2, 3>>, edges |-> {<<1, 2>>, <<2, 3>>, <<3, 1>>}],
   [nodes |-> <<1, 2>>, edges |-> {<<1, 5>>, <<5, 2>>, <<2, 5>>}],
   [nodes |-> <<1, 2>>, edges |-> {<<1, 5>>, <<5, 2>>}]}

(* On every graph over three subtasks, with all or one of them listed: the *)
(* search finds a circle exactly if a listed subtask is on one or leads to *)
(* one, and what is downstream is what the transitive closure relates.     *)
SmallGraphs == [nodes : {<<1, 2, 3>>, <<2>>}, edges : SUBSET ((1..3) \X (1..3))]
ASSUME SearchIsExact ==
  \A d \in SmallGraphs :
    LET those == Subtasks(d)
        before == TransitiveClosure([p \in those \X those |-> p \in d.edges], those)
        inPlan == Range(d.nodes)
    IN /\ \A n \in inPlan : Downstream(d, n) = {m \in those : before[n, m]}
       /\ ValidateAcyclic(d) <=>
            \A m \in those : before[m, m] => m \notin inPlan /\ \A n \in inPlan : ~before[n, m]

-----------------------------------------------------------------------------
(* RequestChecks: identity at the gateway and rules of the route that need *)
(* it, or what a browser says.                                             *)

NothingWritten == [auth |-> "kept", origin |-> "kept", site |-> "kept", method |-> "kept"]
Bearer(a) == [NothingWritten EXCEPT !.auth = a]
AsFromHere == [NothingWritten EXCEPT !.site = "same"]
ToPost == [NothingWritten EXCEPT !.method = "POST"]

NoPolicy ==
  [jwt |-> "off", basic |-> "off", key |-> "off", authz |-> "off", reads |-> {},
   limit |-> FALSE, allow |-> {}, deny |-> {}, writes |-> {}, csrf |-> FALSE, cors |-> "off"]
CheckPolicies ==
  [gateway |->
     {[NoPolicy EXCEPT !.jwt = j, !.authz = a, !.reads = r,
                       !.writes = {Bearer("none"), Bearer("user"), ToPost}] :
        j \in {"off", "strict", "permissive"}, a \in {"off", "allow"}, r \in {{}, {"jwt", "meta"}}}
     \cup {[NoPolicy EXCEPT !.writes = {ToPost}]},
   route |->
     {[NoPolicy EXCEPT !.key = k, !.basic = "strict", !.authz = "deny", !.limit = TRUE,
                       !.allow = {"basic", "key"}, !.deny = d, !.writes = {Bearer("stranger")}] :
        k \in {"off", "optional"}, d \in {{"jwt"}, {"meta"}}}
     \cup {[NoPolicy EXCEPT !.authz = "status", !.limit = TRUE, !.allow = a] : a \in {{}, {"jwt"}}}
     \cup {[NoPolicy EXCEPT !.csrf = TRUE, !.cors = o, !.writes = {AsFromHere, [NothingWritten EXCEPT !.origin = "absent"]}] :
              o \in {"any", "list"}}]

ChecksStart ==
  /\ CheckInit
  /\ IF policies["route"].limit
     THEN brought.origin = "absent" /\ brought.site = "absent" /\ brought.method = "POST"
     ELSE brought.auth = "token" /\ policies["gateway"] = [NoPolicy EXCEPT !.writes = {ToPost}]

-----------------------------------------------------------------------------
(* XdsConversion: resources, every kind of policy with its flaws, on       *)
(* its own; and routes, listeners and backends with some of them.  value   *)
(* and mode are what a field may be: without "broken", nothing is amiss.   *)

Good == {"absent", "one"}
Field == Good \cup {"broken"}
RuleKinds(k, flaws) ==
  [kind : {k}, allow : SUBSET ({"one"} \cup flaws), deny : SUBSET ({"two"} \cup flaws)]
TrafficSpecs(value, mode) ==
  [kind : {"timeout"}, request : value, backend : value]
  \cup [kind : {"retry"}, attempts : {0, 1, 255, 256, 257}, backoff : value, codes : value]
  \cup [kind : {"local limit"}, type : {"requests", "tokens"} \cup (value \ Good),
         fill : value \ (Good \ {"one"}), limits : value]
  \cup [kind : {"ext authz"}, target : {"one"}, protocol : {"grpc", "http"}, headers : value,
         mode : {"allow", "deny", "status"} \cup (value \ Good), sends : {{"one"}, {"one"} \cup (value \ Good)}]
  \cup RuleKinds("authorization", value \ Good)
  \cup [kind : {"jwt"}, mode : mode, providers : {<<"one">>} \cup {<<"one", v>> : v \in value \ Good}]
  \cup [kind : {"transformation"}, names : {<<"one">>} \cup {<<"one", v>> : v \in value \ Good},
         values : {{"one"}}]
  \cup [kind : {"ext proc"}, target : {"one"}, mode : {"open", "closed"} \cup (value \ Good)]
  \cup [kind : {"remote limit"}, target : {"one"} \cup (value \ Good), type : {"tokens"}, values : {{"one"}}]
  \cup [kind : {"basic", "api key"}, mode : mode]
  \cup [kind : {"csrf", "url rewrite", "request headers", "response headers"}]
  \cup [kind : {"direct response", "cors", "host rewrite"}, value : value]
  \cup [kind : {"mirror"}, to : {<<v>> : v \in value}]
  \cup [kind : {"redirect"}, scheme : value, host : {"absent", "one"},
         port : {0, 80} \cup (IF value = Good THEN {} ELSE {65536}), status : value]
RegexGuard(value) == [kind |-> "regex", action |-> "reject", rules |-> {"one"} \cup (value \ Good)]
BackendSpecs(value, mode) ==
  [kind : {"a2a", "request headers", "response headers"}]
  \cup [kind : {"inference"}, mode : {"open", "closed"} \cup (value \ Good), target : {"one"}]
  \cup [kind : {"http"}, version : value] \cup [kind : {"tcp"}, keepalive : {"absent", "one"}]
  \cup [kind : {"tls"}, verification : {"all", "host", "nothing"} \cup (value \ Good), root : value,
         cert : value, key : {"absent", "one"}, names : value, hostname : value]
  \cup [kind : {"auth"}, auth : {"key", "aws", "azure", "managed identity"} \cup (value \ Good),
         source : value \ {"absent"}]
  \cup RuleKinds("mcp authorization", value \ Good)
  \cup [kind : {"mcp authentication"}, jwks : value \ {"absent"}, mode : mode, provider : value]
  \cup [kind : {"ai"}, requests : {<<RegexGuard(value), [kind |-> "moderation", policies |-> <<>>]>>}
                        \cup {<<[kind |-> "webhook", headers |-> <<v>>, target |-> "one"]>> : v \in value \ {"absent"}}
                        \cup {<<[kind |-> v]>> : v \in value \ Good},
         responses : {<<>>} \cup {<<[kind |-> "webhook", headers |-> <<v>>, target |-> "one"], RegexGuard(value)>> :
                                     v \in value \ {"absent"}},
         defaults : value, overrides : value, route : {"messages"} \cup (value \ Good)]
SoundModes == {"strict", "optional"}
Modes == SoundModes \cup {"broken"}
RoutesWith(policyList, backendPolicyList, value) ==
  [resource : {"route"}, name : value,
   matches : {<<[path |-> v, headers |-> <<>>, queries |-> <<>>]>> : v \in value},
   policies : policyList, backends : {<<[target |-> "one", policies |-> b]>> : b \in backendPolicyList}]
SomePolicies(value) ==
  [kind : {"api key"}, mode : {"strict"} \cup (value \ Good)] \cup RuleKinds("authorization", {})
SomeBackendPolicies(value) ==
  [kind : {"mcp authentication"}, jwks : {"one"} \cup (value \ Good), mode : {"strict"}, provider : {"one"}]

Resources(value, mode) ==
  [resource : {"bind"}, port : {80, 65616}, protocol : {"http"} \cup (value \ Good),
   tunnel : {"direct"} \cup (value \ Good)]
  \cup [resource : {"listener"}, name : value \ {"absent"}, protocol : {"https", "tls"},
         tls : {<<t>> : t \in [pair : {"good"} \cup (value \ Good), root : value,
                               min : {"absent", "1.2", "1.3"} \cup (value \ Good),
                               max : IF value = Good THEN {"absent", "1.3"} ELSE {"absent", "1.2", "1.3", "broken"},
                               suites : {{}, {"suite 1.2", "suite 1.3", "unspecified"}}
                                        \cup (IF value = Good THEN {} ELSE {{"suite 1.2"}, {"suite 1.3"}})]}]
  \cup [resource : {"listener"}, name : {"one"}, protocol : {"http", "tls"} \cup (value \ Good), tls : {<<>>}]
  \cup RoutesWith({<<p, q>> : p, q \in SomePolicies(value)}, {<<b>> : b \in SomeBackendPolicies(value)},
                  value \ {"absent"})
  \cup [resource : {"tcp route"}, name : value \ {"absent"}, backends : {<<[target |-> "one"]>>}]
  \cup [resource : {"backend"}, name : value \ {"absent"}, of : {"static", "dynamic"} \cup (value \ Good),
         parts : {<<>>}, policies : {<<b>> : b \in SomeBackendPolicies(value)}]
  \cup [resource : {"backend"}, name : {"one"}, of : {"ai"}, policies : {<<>>},
         parts : {<<<<[provider |-> v, policies |-> b]>>, <<>>>> :
                    v \in value \ {"absent"}, b \in {<<b>> : b \in SomeBackendPolicies(value)}}
                 \cup (IF value = Good THEN {} ELSE {<<>>, << <<>> >>})]
  \cup [resource : {"backend"}, name : {"one"}, of : {"mcp"}, policies : {<<>>},
         parts : {<<[protocol |-> v, target |-> "one", path |-> "absent"]>> :
                    v \in {"sse", "streamable"} \cup (value \ Good)}]
  \cup [resource : {"policy"}, type : {"traffic"}, target : value \ {"absent"},
         spec : {q @@ [phase |-> h] : q \in TrafficSpecs(value, mode), h \in {"route"} \cup (value \ Good)}]
  \cup [resource : {"policy"}, type : {"backend"}, target : {"one"}, spec : BackendSpecs(value, mode)]
  \cup [resource : {"policy"}, type : {"frontend"}, target : {"one"},
         spec : [kind : {"http"}] \cup [kind : {"tls"}, min : value, max : value, suites : {{}, {"suite 1.2"}, {"unspecified"}}]
                \cup [kind : {"tcp"}, keepalive : {"one"}] \cup [kind : {"logging"}, filter : value]
                \cup [kind : {"tracing"}, target : value, sampling : value, protocol : {"grpc"}]]
SoundResources == Resources(Good, SoundModes)
AllResources == Resources(Field, Modes)

-----------------------------------------------------------------------------
(* LlmExchange: guards that reject, mask and ask others; aliases, some of  *)
(* them patterns; limits that last for one call or for less.               *)

Text1(role, words) == [role |-> role, form |-> "text", words |-> words]
Rx(action, words) == [kind |-> "regex", action |-> action, words |-> words]
AsksWebhook == [kind |-> "webhook"]
LlmWebhookTexts == {<<Text1("user", {"hello", "secret"})>>}
LlmGpt == <<"gpt", "4">>

LlmRoutes ==
  (<<"v1", "messages">> :> "messages") @@ (<<"messages">> :> "models")
  @@ (<<"responses">> :> "responses") @@ (<<"count">> :> "count tokens")
  @@ (<<"embeddings">> :> "embeddings") @@ (<<"completions">> :> "completions")
  @@ (<<"*">> :> "passthrough")

PlainLlmPolicy ==
  [routes |-> LlmRoutes, overrides |-> <<>>, defaults |-> <<>>, aliases |-> <<>>,
   prepend |-> <<>>, append |-> <<>>, guards |-> <<>>, answerGuards |-> <<>>,
   limits |-> <<>>, remote |-> FALSE, readsPrompt |-> FALSE]
Aliases ==
  (LlmGpt :> <<"best">>) @@ (<<"gpt", "*">> :> <<"other">>) @@ (<<"*", "4">> :> <<"four">>)
  @@ (<<"anthropic", "*">> :> <<"anthropic", "new">>) @@ (<<"*">> :> <<"any">>)
LlmPolicies ==
  {[PlainLlmPolicy EXCEPT !.prepend = <<Text1("system", {"rules"})>>,
                          !.append = <<Text1("user", {"thanks"})>>, !.guards = g] :
     g \in {<<Rx("reject", {"evil"}), AsksWebhook, Rx("mask", {"secret"})>>,
           <<Rx("mask", {"secret", "bad"}), [kind |-> "moderation"], Rx("reject", {"bad"})>>}}
  \cup {[PlainLlmPolicy EXCEPT !.aliases = Aliases, !.overrides = o,
                               !.defaults = "model" :> <<"gpt", "3">>] :
          o \in {<<>>, "stream" :> TRUE}}
  \cup {[PlainLlmPolicy EXCEPT !.limits = l, !.remote = l # <<0>>, !.readsPrompt = l = <<30>>,
                               !.answerGuards = g] :
          l \in {<<0>>, <<30>>, <<30, 8>>, <<30, 20>>},
          g \in {<<Rx("mask", {"secret"}), Rx("reject", {"bad"})>>,
                <<Rx("mask", {"bad"}), AsksWebhook>>}}

LlmProviders ==
  {[kind |-> k, model |-> NoModel, hostOverride |-> FALSE, tokenize |-> k # "openai"] :
     k \in {"openai", "anthropic", "gemini", "vertex", "bedrock", "azure"}}
  \cup {[kind |-> "bedrock", model |-> <<"claude">>, hostOverride |-> FALSE, tokenize |-> TRUE],
        [kind |-> "openai", model |-> NoModel, hostOverride |-> TRUE, tokenize |-> FALSE]}

LlmRequest(path, model) ==
  [path |-> path, sound |-> TRUE, fields |-> model, system |-> <<>>,
   messages |-> <<Text1("user", {"secret", "bad"}),
                  [role |-> "tool", form |-> "item", words |-> {"secret"}]>>]
LlmAsks ==
  {LlmRequest(p, m) :
     p \in {<<"v1", "completions">>, <<"v1", "messages">>, <<"responses">>, <<"v1", "count">>,
           <<"x">>},
     m \in {<<>>, "model" :> LlmGpt}}
  \cup {LlmRequest(<<"v1", "completions">>, "model" :> m) :
          m \in {<<"gpt", "5", "4">>, <<"anthropic", "c">>}}
  \cup {[path |-> p, sound |-> p = <<"embeddings">>, fields |-> "model" :> LlmGpt,
         system |-> <<>>, messages |-> <<>>] :
          p \in {<<"embeddings">>, <<"messages">>, <<"completions">>}}

-----------------------------------------------------------------------------
(* LlmConversion: requests in each format with one of each thing that is   *)
(* dropped, moved or merged on the way, and answers of the providers.      *)

Cb(b, words, id, marked) ==
  [b |-> b, text |-> words, id |-> id, marked |-> marked, parts |-> <<>>, sound |-> TRUE,
   error |-> Absent]
Cm(role, form, words) == [role |-> role, form |-> form, text |-> words]
It(item, role, parts, id, sound) ==
  [item |-> item, role |-> role, parts |-> parts, id |-> id, sound |-> sound]
Pt(b, words) == [b |-> b, text |-> words]
OfferedTool(kind, name) == [kind |-> kind, name |-> name]

CompletionAsks ==
  [maxCompletion : {Absent}, max : {7}, sampling : {TRUE}, budget : {Absent},
   effort : {Absent, "low"}, user : {"user" :> "u"}, choice : {"tool f", "off"},
   tools : {<<OfferedTool("custom", "n")>>, <<OfferedTool("function", "f"), OfferedTool("custom", "n")>>},
   messages : {<<Cm("system", "text", <<"s">>), Cm("user", "text", <<"a">>),
                 Cm("assistant", "text", <<"">>), Cm("system", "text", <<"z">>),
                 Cm("user", "array", <<"b">>)>>,
               <<Cm("system", "text", <<"s", "t", "u">>), Cm("tool", "text", <<"r">>),
                 Cm("assistant", "text", <<"p">>), Cm("developer", "text", <<"b">>)>>}]

MarkedTool(name, marked) == [name |-> name, marked |-> marked]
Broken(block) == [block EXCEPT !.sound = FALSE]
ToolResult(marked) ==
  [Cb("tool result", <<>>, "k1", marked) EXCEPT
     !.parts = <<[b |-> "text", text |-> <<"r">>, sound |-> TRUE],
                 [b |-> "image", text |-> <<>>, sound |-> FALSE]>>,
     !.error = FALSE]
MessagesAsks ==
  {[system |-> s, max |-> 9, sampling |-> TRUE, tools |-> t, choice |-> c, thinking |-> th,
    user |-> <<>>,
    messages |->
      <<[role |-> "user",
         content |-> <<Cb("text", <<"a">>, Absent, TRUE), Broken(Cb("image", <<"i">>, Absent, TRUE)),
                       Cb("text", <<"b">>, Absent, FALSE)>>],
        [role |-> "assistant",
         content |-> <<Cb("thinking", <<"hm">>, Absent, TRUE), Cb("text", <<"c">>, Absent, TRUE),
                       Cb("tool use", <<>>, "k1", TRUE), Cb("tool use", <<>>, "k2", m)>>],
        [role |-> "user",
         content |-> <<ToolResult(n), Cb("document", <<>>, Absent, TRUE),
                       Cb("text", <<"d">>, Absent, TRUE)>>]>>] :
     s \in {<<>>, <<[text |-> <<"s">>, marked |-> TRUE], [text |-> <<"s2">>, marked |-> TRUE]>>},
     m \in BOOLEAN, n \in BOOLEAN,
     t \in {Absent, <<>>, <<MarkedTool("f", FALSE), MarkedTool("g", TRUE)>>},
     c \in {Absent, "tool f"}, th \in {Absent, Disabled, 1024}}

ResponsesAsks ==
  [max : {Absent}, sampling : {TRUE}, user : {<<>>}, choice : {"hosted", "tool f"},
   instructions : {Absent, <<"ins">>},
   tools : {Absent, <<OfferedTool("function", "f"), OfferedTool("mcp", "n")>>},
   items : {<<It("message", "user", <<Pt("text", <<"a">>)>>, Absent, TRUE)>>,
            <<It("message", "system", <<Pt("text", <<"s">>), Pt("image", <<>>), Pt("text", <<"s2">>)>>,
                 Absent, TRUE),
              It("message", "user", <<Pt("image", <<>>)>>, Absent, TRUE),
              It("call", "none", <<>>, "k1", TRUE), It("call", "none", <<>>, "k2", FALSE),
              It("result", "none", <<Pt("text", <<"r">>)>>, "k1", TRUE),
              It("result", "none", <<>>, "k2", TRUE),
              It("output", "assistant", <<Pt("text", <<"o">>), Pt("refusal", <<>>)>>, Absent, TRUE),
              It("output", "assistant", <<Pt("refusal", <<>>)>>, Absent, TRUE),
              It("custom call", "none", <<>>, "k3", TRUE),
              It("reasoning", "none", <<>>, Absent, TRUE),
              It("message", "user", <<Pt("text", <<"b">>), Pt("text", <<"c">>)>>, Absent, TRUE)>>}]

ConversionAsks ==
  [from : {"completions"}, to : {"converse", "messages"}, request : CompletionAsks]
  \cup [from : {"messages"}, to : {"converse", "completions"}, request : MessagesAsks]
  \cup [from : {"responses"}, to : {"converse"}, request : ResponsesAsks]
  \cup [from : {"count tokens"}, to : {"converse"}, request : {"model" :> "m", "max_tokens" :> 5}]

NoGuardrail == [id |-> Absent, version |-> Absent]
ConversionEnvs ==
  [caching : {Absent}, cachable : {TRUE}, guardrail : [id : {"g"}, version : {Absent, "1"}],
   headers : {[metadata |-> "user" :> "h", beta |-> << <<"x", "">>, <<"y">> >>, version |-> "v"]}]
  \cup [caching : [system : {TRUE}, messages : {TRUE}, tools : {TRUE}, min : {Absent, 3}],
        cachable : BOOLEAN, guardrail : {NoGuardrail},
        headers : {[metadata |-> <<>>, beta |-> <<>>, version |-> "2023-06-01"]}]
ConversionReplies ==
  {[blocks |-> Absent, stop |-> "end", usage |-> Absent]}
  \cup [stop : {"end", "tool", "window", "guardrail"}, usage : {Absent, 3},
        blocks : {<<>>,
                  <<Block("reasoning", <<"h">>, Absent), Block("text", <<"a">>, Absent),
                    Block("tool use", <<"x">>, "k1"), Block("text", <<"b">>, Absent),
                    Block("image", <<>>, Absent), Block("tool use", <<"y">>, "k2")>>}]

(* LlmStreams: what is translated and what is passed on. *)
StreamModes ==
  [from : {"converse"}, to : {"completions", "messages", "responses"}]
  \cup {[from |-> "messages", to |-> "completions"]}
  \cup {[from |-> f, to |-> f] : f \in {"completions", "messages", "responses"}}

-----------------------------------------------------------------------------

(* What the parts that rest start from. *)
ConversionRest ==
  ConversionInit /\ xdsMessage = [resource |-> "bind", port |-> 80, protocol |-> "http", tunnel |-> "direct"]
ChecksRest ==
  /\ policies = [l \in {"gateway", "route"} |-> CHOOSE p \in CheckPolicies[l] : TRUE]
  /\ brought = [auth |-> "none", origin |-> "absent", site |-> "absent", method |-> "GET"]
  /\ CheckInit
DispatchRests ==
  /\ backend = [targets |-> DispatchTargets, prefix |-> FALSE,
                authn |-> "none", allow |-> {}, deny |-> {}]
  /\ offers = [t \in DispatchTargets |-> {}]
  /\ DispatchInit
TasksRest ==
  /\ router = [strategy |-> "llm", embedding |-> FALSE]
  /\ TaskRouterInit
  /\ \A a \in Asker : ask[a].task = CHOOSE t \in Task : TRUE

LlmRests ==
  /\ llmPolicy = CHOOSE p \in LlmPolicies : TRUE
  /\ llmAsk = CHOOSE a \in LlmAsks : TRUE
  /\ LlmInit
BodiesRest ==
  /\ toConvert = [from |-> "count tokens", to |-> "converse", request |-> "model" :> "m"]
  /\ env = CHOOSE e \in ConversionEnvs : TRUE
  /\ converted = Absent /\ answered = Absent /\ returned = Absent
StreamRests == StreamInit /\ streamMode = [from |-> "messages", to |-> "messages"]

RequestsInit ==
  /\ part \in {"session", "dispatch", "routes", "tcp routes", "listeners", "policies", "tasks",
             "checks", "xds", "model calls", "model bodies", "model streams"}
  /\ SessionInit /\ RoutingInit
  /\ order = SomeOrder /\ PolicyInit
  /\ IF part = "dispatch" THEN DispatchInit /\ OffersSome ELSE DispatchRests
  /\ IF part = "tasks" THEN TaskRouterInit ELSE TasksRest
  /\ IF part = "checks" THEN ChecksStart ELSE ChecksRest
  /\ IF part = "xds" THEN ConversionInit ELSE ConversionRest
  /\ IF part = "model calls" THEN LlmInit ELSE LlmRests
  /\ IF part = "model bodies" THEN LlmConversionInit ELSE BodiesRest
  /\ IF part = "model streams" THEN StreamInit ELSE StreamRests

StaysBut(p) ==
  /\ UNCHANGED part
  /\ IF p = "session" THEN TRUE ELSE UNCHANGED sessionVars
  /\ IF p = "dispatch" THEN TRUE ELSE UNCHANGED dispatchVars
  /\ IF p = "routing" THEN TRUE ELSE UNCHANGED routingVars
  /\ IF p = "policies" THEN TRUE ELSE UNCHANGED policyVars
  /\ IF p = "tasks" THEN TRUE ELSE UNCHANGED taskVars
  /\ IF p = "checks" THEN TRUE ELSE UNCHANGED checkVars
  /\ IF p = "xds" THEN TRUE ELSE UNCHANGED xdsConversionVars
  /\ IF p = "model calls" THEN TRUE ELSE UNCHANGED llmVars
  /\ IF p = "model bodies" THEN TRUE ELSE UNCHANGED conversionVars
  /\ IF p = "model streams" THEN TRUE ELSE UNCHANGED streamVars

RequestsNext ==
  \/ part = "session" /\ SessionNext /\ StaysBut("session")
  \/ part = "dispatch" /\ DispatchNext /\ StaysBut("dispatch")
  \/ part = "routes" /\ RouteSetNext /\ StaysBut("routing")
  \/ part = "tcp routes" /\ TcpRouteSetNext /\ StaysBut("routing")
  \/ part = "listeners" /\ ListenerSetNext /\ StaysBut("routing")
  \/ part = "policies" /\ PolicyNext /\ StaysBut("policies")
  \/ part = "tasks" /\ TaskRouterNext /\ StaysBut("tasks")
  \/ part = "checks" /\ CheckNext /\ StaysBut("checks")
  \/ part = "xds" /\ ConversionNext /\ StaysBut("xds")
  \/ part = "model calls" /\ LlmNext /\ StaysBut("model calls")
  \/ part = "model bodies" /\ LlmConversionNext /\ StaysBut("model bodies")
  \/ part = "model streams" /\ StreamNext /\ StaysBut("model streams")

RequestsSpec == RequestsInit /\ [][RequestsNext]_requestsVars

(* What applies to a request is what was configured: the route, listener   *)
(* and target that match it best whatever the order they came in; what was *)
(* attached to that route; and of what the control plane sends, all of its *)
(* restrictions but for the parts that XdsConversion names as left out     *)
(* (binds.rs, handler.rs, agent_xds.rs).  Each is asked where its part     *)
(* moves: elsewhere its state is the one it starts from.                   *)
ConfigurationFollowed ==
  /\ part \in {"routes", "tcp routes", "listeners"} => SelectionConsistent
  /\ part = "dispatch" => NamesDispatched
  /\ part = "policies" => PoliciesConsistent
  /\ part = "xds" => ConversionFaithful

(* A call of a language model is guarded, charged and routed as its policy *)
(* says, what is translated on the way keeps what was said, and what is    *)
(* streamed says what it would have said as one, but for the identifiers   *)
(* of calls told to callers of Responses (llm).                            *)
ModelCallsKept == LlmConsistent /\ LlmConversionKeeps /\ StreamsFaithful

(* Only the routes move: for routes that change under their key.           *)
RoutesSpec ==
  (part = "routes" /\ RequestsInit) /\ [][RequestsNext]_requestsVars
=============================================================================
