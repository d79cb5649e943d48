---------------------------- MODULE LlmExchange ----------------------------
(* One call of a language model (agentgateway/src/llm/mod.rs,              *)
(* llm/policy/mod.rs, llm/types, proxy/httpproxy.rs): which kind of call   *)
(* the path is, what the policy makes of the body, the guards on the       *)
(* prompt, the translation for the provider, the token limits, and the way *)
(* back.  What the translations do to the content is LlmConversion, what   *)
(* becomes of a stream LlmStreams.                                         *)
(*                                                                         *)
(* A text is the set of the words in it that a rule may look for.  A model *)
(* is a sequence of parts of its name; a pattern for models may hold "*".  *)
EXTENDS Integers, Sequences, FiniteSets, SequencesExt, TLC

CONSTANTS LlmPolicy,   \* the policies a route may have
          LlmProvider, \* the providers of the backend
          LlmAsk,      \* what a caller may send: [path, sound, fields, system, messages]
          Untokenized, \* models whose tokenizer is not one of chat models
          WebhookTexts \* the messages a webhook may put in place of those it got

(* What the wire formats and the policy's types make of any value: messages *)
(* are lists of finite texts, and those of the policy are plain ones.       *)
IsMessage(m) ==
  m = [role |-> m.role, form |-> m.form, words |-> m.words] /\ IsFiniteSet(m.words)
Conversation(s) == s \in Seq({s[i] : i \in DOMAIN s}) /\ \A i \in DOMAIN s : IsMessage(s[i])
PlainTexts(s) == Conversation(s) /\ \A i \in DOMAIN s : s[i].form = "text"
IsList(s) == s \in Seq({s[i] : i \in DOMAIN s})

ASSUME LlmPolicyAssumption ==
  \A p \in LlmPolicy :
    /\ IsFiniteSet(DOMAIN p.aliases) /\ \A a \in DOMAIN p.aliases : Len(a) \in Nat
    /\ PlainTexts(p.prepend) /\ PlainTexts(p.append)
    /\ IsList(p.guards) /\ IsList(p.answerGuards) /\ p.limits \in Seq(Int)
ASSUME LlmProviderAssumption ==
  \A p \in LlmProvider :
    p.kind \in {"openai", "anthropic", "gemini", "vertex", "bedrock", "azure"}
ASSUME LlmAskAssumption ==
  /\ \A a \in LlmAsk : Conversation(a.messages)
  /\ \A t \in WebhookTexts : Conversation(t)

NoModel == <<>>
Guardable == {"completions", "messages", "responses"}
InputFormat == Guardable \cup {"embeddings", "count tokens"}

VARIABLES
  llmPolicy,  \* [routes, overrides, defaults, aliases, prepend, append, guards,
              \*  answerGuards, limits, remote, readsPrompt]
  provider,   \* [kind, model, hostOverride, tokenize]
  llmAsk,
  stage,      \* what the task does next
  format,     \* the kind of the call
  chat,       \* the request as parsed: [model, stream, system, messages]
  guardAt,    \* the guard that is next
  rewritten,  \* history: the guards that put other texts in place
  llmInfo,    \* LLMRequest: [model, streaming, input]
  sent,       \* the request as it leaves: [format, endpoint, pathModel, chat]
  spent,      \* history: limit -> tokens taken for this call
  reply,      \* what the provider answered
  llmGiven    \* what the caller gets

llmVars == <<llmPolicy, provider, llmAsk, stage, format, chat, guardAt, rewritten, llmInfo,
             sent, spent, reply, llmGiven>>

Nothing == [kind |-> "nothing"]
Outcome(kind) == [kind |-> kind]

LlmInit ==
  /\ llmPolicy \in LlmPolicy
  /\ llmAsk \in LlmAsk
  /\ provider = Nothing /\ stage = "pick" /\ format = "none" /\ chat = Nothing
  /\ guardAt = 1 /\ rewritten = {} /\ llmInfo = Nothing /\ sent = Nothing
  /\ spent = [i \in 0..Len(llmPolicy.limits) |-> 0]
  /\ reply = Nothing /\ llmGiven = Nothing

Over(given) == stage' = "over" /\ llmGiven' = given
Fails == Over(Outcome("error"))

-----------------------------------------------------------------------------
(* The provider and the kind of the call. *)

(* Two are drawn, maybe the same twice, and the better one is used: any of *)
(* them may be the one.                                                    *)
SelectProvider ==
  /\ stage = "pick" /\ stage' = "route"
  /\ provider' \in LlmProvider
  /\ UNCHANGED <<llmPolicy, llmAsk, format, chat, guardAt, rewritten, llmInfo, sent, spent,
                 reply, llmGiven>>

Wildcard == <<"*">>

(* SortedRoutes: longer suffixes first, the wildcard last. *)
SortsBefore(a, b) ==
  IF Wildcard \in {a, b} THEN b = Wildcard /\ a # Wildcard ELSE Len(a) > Len(b)

ResolveRoute(routes, path) ==
  LET fits == {s \in DOMAIN routes : s = Wildcard \/ IsSuffix(s, path)}
  IN  IF fits = {} THEN "completions"
      ELSE routes[CHOOSE s \in fits : \A other \in fits \ {s} : SortsBefore(s, other)]

IsClaude(p, model) ==
  LET configured == IF p.model # NoModel THEN p.model ELSE model
  IN  configured # NoModel /\ Head(configured) = "anthropic"

(* The path that is set, if the host is not configured otherwise. *)
EndpointOf(p, f, model) ==
  CASE p.kind = "openai" -> IF f \in {"responses", "embeddings", "realtime"} THEN f ELSE "completions"
    [] p.kind = "anthropic" -> "anthropic"
    [] p.kind = "gemini" -> "completions"
    [] p.kind = "vertex" -> IF IsClaude(p, model) THEN "anthropic"
                            ELSE IF f = "embeddings" THEN f ELSE "completions"
    [] p.kind = "bedrock" -> IF f = "count tokens" THEN f ELSE "bedrock"
    [] p.kind = "azure" -> IF f = "embeddings" THEN f ELSE "completions"

PathModel(p, model) ==
  IF p.kind \notin {"bedrock", "azure"} /\ ~(p.kind = "vertex" /\ IsClaude(p, model)) THEN NoModel
  ELSE IF p.model # NoModel THEN p.model ELSE model

(* A call that is passed on names no model; where the path would hold one, *)
(* or Passthrough asks for it, the path stays the caller's.                *)
PassedEndpoint(p, f) ==
  IF p.kind \in {"bedrock", "azure"} \/ (f = "passthrough" /\ p.kind # "vertex") THEN "own"
  ELSE EndpointOf(p, f, NoModel)

(* Calls that are passed on as they are have no policies; their host is    *)
(* set even if another one is configured.                                  *)
Route ==
  /\ stage = "route"
  /\ format' = ResolveRoute(llmPolicy.routes, llmAsk.path)
  /\ CASE format' = "models" -> Over(Outcome("not implemented")) /\ UNCHANGED sent
       [] format' \in {"passthrough", "realtime"} ->
            /\ Over(Outcome("passed on"))
            /\ sent' = [format |-> format', endpoint |-> PassedEndpoint(provider, format'),
                        pathModel |-> IF PassedEndpoint(provider, format') = "own" THEN NoModel
                                      ELSE PathModel(provider, NoModel),
                        chat |-> llmAsk]
       [] OTHER -> stage' = "read" /\ UNCHANGED <<sent, llmGiven>>
  /\ UNCHANGED <<llmPolicy, provider, llmAsk, chat, guardAt, rewritten, llmInfo, spent, reply>>

-----------------------------------------------------------------------------
(* The body. *)

(* Overrides replace a field, defaults fill one in. *)
Unmarshal(p, fields) == p.overrides @@ fields @@ p.defaults

(* A body over 2 MB or one that does not parse is an error, and so is one  *)
(* that names no model if the provider has none.                           *)
ReadBody ==
  /\ stage = "read"
  /\ LET fields == Unmarshal(llmPolicy, llmAsk.fields)
         model == IF provider.model # NoModel THEN provider.model
                  ELSE IF "model" \in DOMAIN fields THEN fields.model ELSE NoModel
         stream == "stream" \in DOMAIN fields /\ fields.stream
     IN  \/ /\ model # NoModel /\ llmAsk.sound
            /\ chat' = [model |-> model, stream |-> stream, system |-> llmAsk.system,
                        messages |-> llmAsk.messages,
                        usage |-> format = "completions" /\ stream]
            /\ stage' = "shape" /\ UNCHANGED llmGiven
         \/ /\ model = NoModel \/ ~llmAsk.sound
            /\ Fails /\ UNCHANGED chat
  /\ UNCHANGED <<llmPolicy, provider, llmAsk, format, guardAt, rewritten, llmInfo, sent, spent,
                 reply>>

Supported(kind, f) ==
  \/ f = "completions"
  \/ f = "messages" /\ kind \in {"anthropic", "bedrock", "vertex"}
  \/ f = "responses" /\ kind \in {"openai", "bedrock"}
  \/ f = "count tokens" /\ kind = "bedrock"
  \/ f = "embeddings" /\ kind \in {"openai", "azure"}

(* A pattern matches if its parts can be laid out along the name, a "*"    *)
(* over any number of them.                                                *)
ModelMatches(pattern, model) ==
  \E cut \in [1..(Len(pattern) + 1) -> 1..(Len(model) + 1)] :
    /\ cut[1] = 1 /\ cut[Len(pattern) + 1] = Len(model) + 1
    /\ \A i \in DOMAIN pattern :
         IF pattern[i] = "*" THEN cut[i] <= cut[i + 1]
         ELSE cut[i + 1] = cut[i] + 1 /\ cut[i] <= Len(model) /\ model[cut[i]] = pattern[i]

IsPattern(name) == \E i \in DOMAIN name : name[i] = "*"

(* The patterns, longer ones first; equal ones in the order of a hash map. *)
Compiled(aliases) ==
  {s \in SetToSeqs({a \in DOMAIN aliases : IsPattern(a)}) :
     \A i, j \in DOMAIN s : i < j => Len(s[i]) >= Len(s[j])}

ResolveAlias(aliases, patterns, model) ==
  LET fits == {i \in DOMAIN patterns : ModelMatches(patterns[i], model)}
  IN  IF model \in DOMAIN aliases THEN aliases[model]
      ELSE IF fits = {} THEN model
      ELSE aliases[patterns[CHOOSE i \in fits : \A j \in fits : i <= j]]

(* What stands at those places of a list, in the order of the list. *)
AtPlaces(s, places) ==
  [n \in 1..Cardinality(places) |->
     s[CHOOSE i \in places : Cardinality({j \in places : j <= i}) = n]]

(* Prompts of the policy go around those of the caller; in Messages, those *)
(* of the system to the system's texts.  Embeddings and counts ignore them.*)
Texts(prompts) == [i \in DOMAIN prompts |-> prompts[i].words]
EnrichedMessages(c, p) ==
  LET OfSystem(s) == AtPlaces(s, {i \in DOMAIN s : s[i].role = "system"})
      Others(s) == AtPlaces(s, {i \in DOMAIN s : s[i].role # "system"})
  IN  [c EXCEPT !.system = Texts(OfSystem(p.prepend)) \o @ \o Texts(OfSystem(p.append)),
                !.messages = Others(p.prepend) \o @ \o Others(p.append)]
EnrichedItems(c, p) == [c EXCEPT !.messages = p.prepend \o @ \o p.append]

Enriched(f, c, p) ==
  CASE f = "messages" -> EnrichedMessages(c, p)
    [] f \in {"completions", "responses"} -> EnrichedItems(c, p)
    [] OTHER -> c

ShapeRequest ==
  /\ stage = "shape"
  /\ IF ~Supported(provider.kind, format) THEN Fails /\ UNCHANGED chat
     ELSE /\ stage' = IF format \in Guardable THEN "guard" ELSE "translate"
          /\ \E patterns \in Compiled(llmPolicy.aliases) :
               chat' = Enriched(format,
                 [chat EXCEPT !.model = ResolveAlias(llmPolicy.aliases, patterns, @)], llmPolicy)
          /\ UNCHANGED llmGiven
  /\ UNCHANGED <<llmPolicy, provider, llmAsk, format, guardAt, rewritten, llmInfo, sent, spent,
                 reply>>

-----------------------------------------------------------------------------
(* The guards on the prompt. *)

(* What guards and estimates are shown: contents that are lists of parts   *)
(* are empty in Completions and Messages; in Responses items that are no   *)
(* message are left out.                                                   *)
ShownInResponses(messages) ==
  AtPlaces(messages, {i \in DOMAIN messages : messages[i].form # "item"})
ShownInChats(messages) ==
  [i \in DOMAIN messages |->
     [messages[i] EXCEPT !.words = IF messages[i].form = "text" THEN @ ELSE {}]]

GetMessages(f, messages) ==
  IF f = "responses" THEN ShownInResponses(messages) ELSE ShownInChats(messages)

(* All messages are made anew from role and text. *)
SetMessages(c, messages) ==
  [c EXCEPT !.messages = [i \in DOMAIN messages |-> [messages[i] EXCEPT !.form = "text"]]]

Hit(g, words) == words \cap g.words # {}
Masked(g, words) == IF Hit(g, words) THEN (words \ g.words) \cup {"masked"} ELSE words

NextGuard == guardAt' = guardAt + 1 /\ UNCHANGED <<stage, llmGiven>>
GuardUnchanged ==
  UNCHANGED <<llmPolicy, provider, llmAsk, format, llmInfo, sent, spent, reply>>

ApplyRegex ==
  /\ stage = "guard" /\ guardAt \in DOMAIN llmPolicy.guards
  /\ LET g == llmPolicy.guards[guardAt]
         shown == GetMessages(format, chat.messages)
         hits == {i \in DOMAIN shown : Hit(g, shown[i].words)}
     IN  /\ g.kind = "regex"
         /\ IF hits # {} /\ g.action = "reject"
            THEN Over(Outcome("rejected")) /\ UNCHANGED <<chat, guardAt>>
            ELSE /\ chat' = IF hits = {} THEN chat
                            ELSE SetMessages(chat, [i \in DOMAIN shown |->
                                   [shown[i] EXCEPT !.words = Masked(g, @)]])
                 /\ NextGuard
  /\ UNCHANGED rewritten /\ GuardUnchanged

(* The webhook passes, also by an answer that is neither a mask nor a      *)
(* rejection it understands; puts messages in place of those it was shown; *)
(* rejects; or fails, also by a mask for an answer.                        *)
ApplyWebhook ==
  /\ stage = "guard" /\ guardAt \in DOMAIN llmPolicy.guards
  /\ llmPolicy.guards[guardAt].kind = "webhook"
  /\ \/ NextGuard /\ UNCHANGED <<chat, rewritten>>
     \/ \E texts \in WebhookTexts :
          /\ chat' = SetMessages(chat, texts) /\ rewritten' = rewritten \cup {guardAt}
          /\ NextGuard
     \/ Over(Outcome("rejected")) /\ UNCHANGED <<chat, guardAt, rewritten>>
     \/ Fails /\ UNCHANGED <<chat, guardAt, rewritten>>
  /\ GuardUnchanged

ApplyModeration ==
  /\ stage = "guard" /\ guardAt \in DOMAIN llmPolicy.guards
  /\ llmPolicy.guards[guardAt].kind = "moderation"
  /\ \/ NextGuard
     \/ Over(Outcome("rejected")) /\ UNCHANGED guardAt
     \/ Fails /\ UNCHANGED guardAt
  /\ UNCHANGED <<chat, rewritten>> /\ GuardUnchanged

GuardsPassed ==
  /\ stage = "guard" /\ guardAt = Len(llmPolicy.guards) + 1
  /\ stage' = "translate"
  /\ UNCHANGED <<chat, guardAt, rewritten, llmGiven>> /\ GuardUnchanged

-----------------------------------------------------------------------------
(* What leaves for the provider. *)

(* Three tokens for each message, one for its role, those of its text, and *)
(* three for the reply.                                                    *)
NumTokens(shown) ==
  3 + 4 * Len(shown) + Cardinality(UNION {{i} \X shown[i].words : i \in DOMAIN shown})

Estimate(f, c, tokenize) ==
  IF tokenize /\ f \in Guardable THEN NumTokens(GetMessages(f, c.messages)) ELSE -1

ToOpenAI(f) == IF f = "messages" THEN "completions" ELSE f

Translated(p, f, model) ==
  IF f = "count tokens" THEN f
  ELSE IF p.kind = "bedrock" THEN "bedrock"
  ELSE IF p.kind = "anthropic" \/ (p.kind = "vertex" /\ IsClaude(p, model)) THEN "anthropic"
  ELSE ToOpenAI(f)

(* A rule or a log field that reads the prompt makes it be asked of        *)
(* requests that have none to give, which panics.                          *)
Translate ==
  /\ stage = "translate"
  /\ CASE chat.model \in Untokenized /\ Estimate(format, chat, provider.tokenize) >= 0 ->
            Fails /\ UNCHANGED <<llmInfo, sent>>
       [] llmPolicy.readsPrompt /\ format \notin Guardable ->
            Over(Outcome("panic")) /\ UNCHANGED <<llmInfo, sent>>
       [] OTHER ->
            \/ Fails /\ UNCHANGED <<llmInfo, sent>>  \* no counterpart in the provider's format
            \/ /\ llmInfo' = [model |-> chat.model,
                              streaming |-> chat.stream /\ format \in Guardable,
                              input |-> Estimate(format, chat, provider.tokenize)]
               /\ sent' = [format |-> Translated(provider, format, chat.model),
                           endpoint |-> IF provider.hostOverride THEN "own"
                                        ELSE EndpointOf(provider, format, chat.model),
                           pathModel |-> IF provider.hostOverride THEN NoModel
                                         ELSE PathModel(provider, chat.model),
                           chat |-> chat]
               /\ stage' = IF format = "count tokens" THEN "send" ELSE "limit"
               /\ UNCHANGED llmGiven
  /\ UNCHANGED <<llmPolicy, provider, llmAsk, format, chat, guardAt, rewritten, spent, reply>>

(* Limits are asked in order; one that refuses leaves the earlier ones     *)
(* charged.  Without an estimate, one token left is enough.                *)
CheckLocalLimits ==
  LET Admits(i) == IF llmInfo.input >= 0 THEN llmInfo.input <= llmPolicy.limits[i]
                   ELSE llmPolicy.limits[i] > 0
      refusing == {i \in DOMAIN llmPolicy.limits : ~Admits(i)}
      taken == IF refusing = {} THEN DOMAIN llmPolicy.limits
               ELSE {i \in DOMAIN llmPolicy.limits : \A j \in refusing : i < j}
  IN  /\ stage = "limit"
      /\ spent' = [i \in DOMAIN spent |-> IF i \in taken /\ llmInfo.input >= 0
                                          THEN llmInfo.input ELSE spent[i]]
      /\ IF refusing # {} THEN Over(Outcome("limited"))
         ELSE stage' = (IF llmPolicy.remote THEN "remote" ELSE "send") /\ UNCHANGED llmGiven
      /\ UNCHANGED <<llmPolicy, provider, llmAsk, format, chat, guardAt, rewritten, llmInfo,
                     sent, reply>>

Positive(n) == IF n > 0 THEN n ELSE 0

(* Place 0 of spent is the service's count. *)
CheckRemoteLimit ==
  /\ stage = "remote"
  /\ spent' = [spent EXCEPT ![0] = Positive(llmInfo.input)]
  /\ \/ stage' = "send" /\ UNCHANGED llmGiven
     \/ Over(Outcome("limited"))
  /\ UNCHANGED <<llmPolicy, provider, llmAsk, format, chat, guardAt, rewritten, llmInfo, sent,
                 reply>>

-----------------------------------------------------------------------------
(* The way back. *)

(* The provider answers in the format it was called in, in another, in a   *)
(* coding nobody knows, or more than fits the buffer.                      *)
Reply(ok, f, choices, usage, coding, fits) ==
  [ok |-> ok, format |-> f, choices |-> choices, usage |-> usage, coding |-> coding, fits |-> fits]

UpstreamAnswers ==
  /\ stage = "send" /\ stage' = "answer"
  /\ \/ \E ok \in BOOLEAN, choices \in {<<{"hello"}>>, <<{"secret"}, {"bad"}>>},
          usage \in {-1, 3}, coding \in {"none", "gzip"} :
          reply' = Reply(ok, sent.format, choices, usage, coding, TRUE)
     \/ \E ok \in BOOLEAN :
          \/ reply' = Reply(ok, "garbled", <<>>, -1, "none", TRUE)
          \/ reply' = Reply(ok, sent.format, <<{"hello"}>>, 3, "unheard of", TRUE)
     \/ reply' = Reply(TRUE, sent.format, <<{"hello"}>>, 3, "none", FALSE)
  /\ UNCHANGED <<llmPolicy, provider, llmAsk, format, chat, guardAt, rewritten, llmInfo, sent,
                 spent, llmGiven>>

Unreachable ==
  /\ stage = "send" /\ Fails
  /\ UNCHANGED <<llmPolicy, provider, llmAsk, format, chat, guardAt, rewritten, llmInfo, sent,
                 spent, reply>>

Decodable == reply.coding # "unheard of"

(* What a successful answer is parsed as. *)
ParsedAs(p, f, model) ==
  CASE f = "completions" /\ p.kind \in {"openai", "gemini", "azure"} -> "completions"
    [] f = "responses" /\ p.kind \in {"openai", "gemini", "azure"} -> "responses"
    [] f = "messages" /\ p.kind \in {"anthropic", "vertex"} -> "anthropic"
    [] f = "completions" /\ p.kind = "anthropic" -> "anthropic"
    [] p.kind = "bedrock" -> "bedrock"
    [] f = "completions" /\ p.kind = "vertex" ->
         IF IsClaude(p, model) THEN "anthropic" ELSE "completions"
    [] OTHER -> "unsupported"

(* Errors and streams that go through a translator; others are as they are.*)
Converts(p, f) == p.kind = "bedrock" \/ (p.kind = "anthropic" /\ f = "completions")

NativeFormat(f) == IF f = "messages" THEN "anthropic" ELSE f

Answered(kind, f, choices, coding, header, length) ==
  [kind |-> kind, format |-> f, choices |-> choices, coding |-> coding, header |-> header,
   length |-> length]

ProcessStreaming ==
  /\ stage = "answer" /\ llmInfo.streaming
  /\ Over(Answered("stream", IF Converts(provider, format) THEN NativeFormat(format)
                             ELSE reply.format,
                   reply.choices, reply.coding, reply.coding, FALSE))
  /\ UNCHANGED <<llmPolicy, provider, llmAsk, format, chat, guardAt, rewritten, llmInfo, sent,
                 spent, reply>>

(* An error is no count, whatever its status.  Counts and embeddings are   *)
(* decoded, but keep the header that says they are not; embeddings keep    *)
(* the length as well.                                                     *)
ProcessSimple ==
  /\ stage = "answer" /\ format \notin Guardable
  /\ IF ~reply.fits \/ (format = "count tokens" /\ ~(reply.ok /\ reply.format = sent.format /\ Decodable))
     THEN Fails
     ELSE Over(Answered("answer", format, reply.choices,
                        IF Decodable THEN "none" ELSE reply.coding, reply.coding,
                        format = "embeddings" /\ reply.coding = "gzip"))
  /\ UNCHANGED <<llmPolicy, provider, llmAsk, format, chat, guardAt, rewritten, llmInfo, sent,
                 spent, reply>>

(* What Bedrock does not tell is nothing in an answer to Completions and   *)
(* Messages, and unknown in one to Responses.                              *)
UsageTaken ==
  IF reply.usage < 0 /\ provider.kind = "bedrock" /\ format # "responses" THEN 0 ELSE reply.usage

AmendInFull ==
  spent' = [i \in DOMAIN spent |->
              spent[i] + (IF reply.ok /\ UsageTaken >= 0 THEN 2 * UsageTaken ELSE 0)]

(* What was taken is set right by the usage the provider reports. *)
AmendTokens ==
  LET known == reply.ok /\ UsageTaken >= 0
      mismatch == IF ~known THEN 0
                  ELSE IF llmInfo.input >= 0 THEN UsageTaken - llmInfo.input ELSE UsageTaken
      more == mismatch + (IF known THEN UsageTaken ELSE 0)
  IN  spent' = [i \in DOMAIN spent |->
                  IF i # 0 THEN spent[i] + more
                  ELSE IF llmPolicy.remote THEN spent[i] + Positive(more) ELSE spent[i]]

FinishAnswer(f, choices) ==
  /\ Over(Answered("answer", f, choices, reply.coding, reply.coding, FALSE))
  /\ AmendTokens

BufferResponse ==
  /\ stage = "answer" /\ ~llmInfo.streaming /\ format \in Guardable
  /\ IF ~reply.fits THEN Fails /\ UNCHANGED <<guardAt, spent>>
     ELSE IF reply.ok
     THEN /\ UNCHANGED spent
          /\ IF Decodable /\ reply.format = ParsedAs(provider, format, llmInfo.model)
                /\ (reply.format = "anthropic" => reply.usage >= 0)
             THEN stage' = "answer guard" /\ guardAt' = 1 /\ UNCHANGED llmGiven
             ELSE Fails /\ UNCHANGED guardAt
     ELSE /\ UNCHANGED guardAt
          /\ IF Converts(provider, format)
             THEN IF Decodable /\ reply.format = sent.format
                  THEN FinishAnswer(NativeFormat(format), reply.choices) ELSE Fails /\ UNCHANGED spent
             ELSE FinishAnswer(reply.format, reply.choices)
  /\ UNCHANGED <<llmPolicy, provider, llmAsk, format, chat, rewritten, llmInfo, sent, reply>>

MaskedChoices(g, choices) == [i \in DOMAIN choices |-> Masked(g, choices[i])]
AnswerRewritten(choices) == [i \in DOMAIN choices |-> {"fine"}]

ApplyResponseGuard ==
  /\ stage = "answer guard" /\ guardAt \in DOMAIN llmPolicy.answerGuards
  /\ LET g == llmPolicy.answerGuards[guardAt]
         hits == {i \in DOMAIN reply.choices : Hit(g, reply.choices[i])}
     IN  \/ /\ g.kind = "regex" /\ hits # {} /\ g.action = "reject"
            /\ Over(Outcome("rejected")) /\ UNCHANGED <<guardAt, reply>>
         \/ /\ g.kind = "regex" /\ (hits = {} \/ g.action = "mask") /\ NextGuard
            /\ reply' = [reply EXCEPT !.choices = MaskedChoices(g, @)]
         \/ /\ g.kind = "webhook" /\ NextGuard
            /\ reply' \in {reply, [reply EXCEPT !.choices = AnswerRewritten(@)]}
         \/ /\ g.kind = "webhook" /\ UNCHANGED <<guardAt, reply>>
            /\ Over(Outcome("rejected")) \/ Fails  \* also if the number of choices differs
  /\ UNCHANGED <<llmPolicy, provider, llmAsk, format, chat, rewritten, llmInfo, sent, spent>>

(* Parsed, guarded, written again and coded as it was.  A coding that is   *)
(* not known is left as it is.                                             *)
AnswerPassed ==
  /\ stage = "answer guard" /\ guardAt = Len(llmPolicy.answerGuards) + 1
  /\ FinishAnswer(NativeFormat(format), reply.choices)
  /\ UNCHANGED <<llmPolicy, provider, llmAsk, format, chat, guardAt, rewritten, llmInfo, sent, reply>>

-----------------------------------------------------------------------------

LlmNext ==
  \/ SelectProvider \/ Route \/ ReadBody \/ ShapeRequest
  \/ ApplyRegex \/ ApplyWebhook \/ ApplyModeration \/ GuardsPassed
  \/ Translate \/ CheckLocalLimits \/ CheckRemoteLimit
  \/ UpstreamAnswers \/ Unreachable
  \/ ProcessStreaming \/ ProcessSimple \/ BufferResponse \/ ApplyResponseGuard \/ AnswerPassed

-----------------------------------------------------------------------------

IsSent == sent # Nothing /\ format \in InputFormat

(* The words that stand in for what was masked or rewritten. *)
StandIns == {"masked", "fine"}

(* A rule of the guards never lets a word of its own through in a text     *)
(* that guards are shown, unless a webhook after it put it there or it     *)
(* stands in for what was masked (Policy::apply_prompt_guard).             *)
PromptGuarded ==
  IsSent /\ format \in Guardable =>
    \A i \in DOMAIN llmPolicy.guards :
      LET g == llmPolicy.guards[i]
          shown == GetMessages(format, sent.chat.messages)
      IN  g.kind = "regex" /\ (\A j \in rewritten : j < i) =>
            \A m \in DOMAIN shown : ~Hit(g, shown[m].words \ StandIns)

(* The prompts of the policy stand around those of the caller unless a     *)
(* webhook replaced them (apply_prompt_enrichment).                        *)
PromptsKept ==
  IsSent /\ format \in {"completions", "responses"} /\ rewritten = {} =>
    /\ format = "completions" =>
         Len(sent.chat.messages) =
           Len(llmPolicy.prepend) + Len(llmAsk.messages) + Len(llmPolicy.append)
    /\ \A i \in DOMAIN llmPolicy.prepend :
         sent.chat.messages[i].role = llmPolicy.prepend[i].role

(* The body is in the format of the endpoint it is sent to, and the model  *)
(* in the path is the one in the log if the provider does not fix one      *)
(* (setup_request, to_openai and its like, get_path_for_model).            *)
EndpointFits ==
  IsSent /\ ~provider.hostOverride =>
    /\ sent.format = sent.endpoint
    /\ provider.model = NoModel /\ sent.pathModel # NoModel => sent.pathModel = llmInfo.model

(* The most specific alias decides (Policy::resolve_model_alias). *)
AliasSpecific ==
  IsSent /\ reply = Nothing =>
    LET fields == Unmarshal(llmPolicy, llmAsk.fields)
        asked == IF provider.model # NoModel THEN provider.model ELSE fields.model
        fits == {a \in DOMAIN llmPolicy.aliases : IsPattern(a) /\ ModelMatches(a, asked)}
    IN  IF asked \in DOMAIN llmPolicy.aliases THEN sent.chat.model = llmPolicy.aliases[asked]
        ELSE IF fits = {} THEN sent.chat.model = asked
        ELSE \E a \in fits : /\ sent.chat.model = llmPolicy.aliases[a]
                             /\ \A b \in fits : Len(b) <= Len(a)

Buffered == llmGiven.kind = "answer" /\ format \in Guardable

(* A buffered answer costs every local limit what the provider says it     *)
(* used, and the service no less (amend_tokens).                           *)
ChargedTruly ==
  Buffered /\ reply.ok /\ reply.usage >= 0 =>
    /\ \A i \in DOMAIN llmPolicy.limits : spent[i] = 2 * reply.usage
    /\ llmPolicy.remote => spent[0] >= 2 * reply.usage

(* A call that was not made is not charged more than its estimate.         *)
ChargedAtMost ==
  sent = Nothing \/ reply = Nothing =>
    \A i \in DOMAIN spent : spent[i] <= (IF llmInfo = Nothing THEN 0 ELSE Positive(llmInfo.input))

(* Answers are in the format of the caller, with headers that fit the      *)
(* body (process_success, process_error, process_response).                *)
AnswerInFormat ==
  Buffered =>
    /\ reply.ok => llmGiven.format = NativeFormat(format)
    /\ llmGiven.format # "garbled" /\ ~(provider.kind = "vertex" /\ sent.format # NativeFormat(format))
         => llmGiven.format = NativeFormat(format)
    /\ llmGiven.coding = llmGiven.header
    /\ ~llmGiven.length

(* What a rule on answers looks for is not in a buffered one that passed,  *)
(* but for what stands in for other words: a later webhook may put it      *)
(* there (Policy::apply_response_prompt_guard).                            *)
AnswerGuarded ==
  Buffered /\ reply.ok =>
    \A i \in DOMAIN llmPolicy.answerGuards, c \in DOMAIN llmGiven.choices :
      llmPolicy.answerGuards[i].kind = "regex" =>
        ~Hit(llmPolicy.answerGuards[i], llmGiven.choices[c] \ StandIns)

(* No message can be asked of counts and embeddings: "get_messages is used *)
(* for prompt guard; prompt guard is disable for embeddings".  It is asked *)
(* when a rule or a log reads the prompt.  No run checks this.             *)
PromptReadable == llmGiven.kind # "panic"

LlmTypeOK ==
  /\ stage \in {"pick", "route", "read", "shape", "guard", "translate", "limit", "remote",
                "send", "answer", "answer guard", "over"}
  /\ spent \in [0..Len(llmPolicy.limits) -> Int]
  /\ chat # Nothing => DOMAIN chat.messages = 1..Len(chat.messages)

(* A call of a model is guarded, translated, charged and answered as its   *)
(* policy says (llm/mod.rs, llm/policy/mod.rs).                            *)
LlmConsistent ==
  /\ LlmTypeOK /\ PromptGuarded /\ PromptsKept /\ EndpointFits /\ AliasSpecific
  /\ ChargedTruly /\ ChargedAtMost /\ AnswerInFormat /\ AnswerGuarded

LlmSpec == LlmInit /\ [][LlmNext]_llmVars
=============================================================================
