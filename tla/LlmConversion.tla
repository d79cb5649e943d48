--------------------------- MODULE LlmConversion ---------------------------
(* What the translations between the formats of language models do to a    *)
(* prompt and to an answer (agentgateway/src/llm/conversion/bedrock.rs,    *)
(* messages.rs, completions.rs).                                           *)
(*                                                                         *)
(* A text is a sequence of lines of one word, "" is one with none; texts   *)
(* that are joined follow one another.  Identifiers of calls and names of  *)
(* tools are atoms.                                                        *)
EXTENDS Integers, Sequences, SequencesExt, FiniteSets, TLC

CONSTANTS Absent,         \* a field that is not there
          ConversionAsk,  \* [from, to, request] for pairs of formats
          ConversionEnv,  \* what the gateway adds: [caching, cachable, guardrail, headers]
          ConversionReply \* what the provider answers: [blocks, stop, usage]

VARIABLES
  toConvert,     \* the request of the caller and what it is translated to
  env,       \* the policy of the backend and the headers
  converted, \* the request as it leaves, Absent before
  answered,  \* what the provider answered, Absent before
  returned   \* the answer as the caller gets it, Absent before

conversionVars == <<toConvert, env, converted, answered, returned>>

Incomplete == [error |-> "incomplete response"]

Block(b, text, id) == [b |-> b, text |-> text, id |-> id]
CachePoint == Block("cache point", <<>>, Absent)
IsBlank(text) == \A i \in DOMAIN text : text[i] = ""
TextBlock(text) == Block("text", text, Absent)

(* The sequence op(s[1]) \o op(s[2]) \o ... *)
Spread(op(_), s) == FlattenSeq([i \in DOMAIN s |-> op(s[i])])

-----------------------------------------------------------------------------
(* Parts that the translations share. *)

(* The fields of the header go over those of the request.                  *)
Metadata(own) == env.headers.metadata @@ own

(* A guardrail has both an identifier and a version.                       *)
Guardrail == IF Absent \in {env.guardrail.id, env.guardrail.version} THEN Absent ELSE env.guardrail

(* The least budget a model takes is 1024.                                 *)
EffortBudget(effort) ==
  CASE effort \in {"minimal", "low"} -> 1024
    [] effort = "medium" -> 2048
    [] effort \in {"high", "xhigh"} -> 4096
    [] OTHER -> Absent

Budget(req) == IF req.budget # Absent THEN req.budget ELSE EffortBudget(req.effort)

(* 13 tokens for 10 words; cache points are not counted.                   *)
EstimateSystemTokens(blocks) ==
  LET words(block) == IF block.b = "text" THEN SelectSeq(block.text, LAMBDA w : w # "") ELSE <<>>
  IN  (Len(Spread(words, blocks)) * 13) \div 10

(* Nothing is worth keeping before the first turn; otherwise the point is  *)
(* in the message before the last one.                                     *)
InsertCachePoint(messages) ==
  IF Len(messages) < 2 THEN messages
  ELSE [messages EXCEPT ![Len(messages) - 1].content = Append(@, CachePoint)]

CachesSystem(blocks) ==
  /\ env.caching # Absent /\ env.caching.system /\ env.cachable
  /\ env.caching.min = Absent \/ EstimateSystemTokens(blocks) >= env.caching.min

SystemCached(blocks) == IF CachesSystem(blocks) THEN Append(blocks, CachePoint) ELSE blocks

MessagesCached(messages) ==
  IF env.caching # Absent /\ env.caching.messages /\ env.cachable
  THEN InsertCachePoint(messages) ELSE messages

ToolsCached(tools) ==
  IF env.caching # Absent /\ env.caching.tools /\ env.cachable /\ tools # Absent /\ tools # <<>>
  THEN Append(tools, CachePoint) ELSE tools

(* Only functions can be offered to another provider.                      *)
Functions(tools) ==
  LET kept == SelectSeq(tools, LAMBDA t : t.kind = "function")
  IN  [i \in DOMAIN kept |-> Block("tool", <<>>, kept[i].name)]

-----------------------------------------------------------------------------
(* From Completions: messages with texts and the calls made in them.       *)

MessageText(m) == IF m.form = "text" THEN <<m.text>> ELSE <<>>
MaxTokens(req) ==
  IF req.maxCompletion # Absent THEN req.maxCompletion
  ELSE IF req.max # Absent THEN req.max ELSE 4096

RoleOf(role) == IF role = "assistant" THEN "assistant" ELSE "user"
SystemText(req) ==
  LET text(m) == IF m.role = "system" /\ m.form = "text" THEN m.text ELSE <<>>
  IN  Spread(text, req.messages)

Kept(req, keeps(_)) ==
  LET kept == SelectSeq(req.messages,
                LAMBDA m : m.role # "system" /\ m.form = "text" /\ keeps(m.text))
  IN  [i \in DOMAIN kept |-> [role |-> RoleOf(kept[i].role), content |-> <<TextBlock(kept[i].text)>>]]

(* Bedrock takes no blank text.                                            *)
ConverseMessages(req) == LET told(text) == ~IsBlank(text) IN Kept(req, told)
AnthropicMessages(req) == LET any(text) == TRUE IN Kept(req, any)

ConverseChoice(choice) ==
  CASE choice = "auto" -> "auto" [] choice = "required" -> "any"
    [] choice \in {"off", "other", Absent} -> Absent [] OTHER -> choice

ConverseTools(req) == IF req.tools = Absent THEN Absent ELSE Functions(req.tools)

CompletionsToConverse(req) ==
  LET system == SystemText(req)
      tools == ToolsCached(ConverseTools(req))
  IN  [system |-> IF system \in {<<>>, <<"">>} THEN <<>> ELSE SystemCached(<<TextBlock(system)>>),
       messages |-> MessagesCached(ConverseMessages(req)),
       maxTokens |-> MaxTokens(req), sampling |-> req.sampling,
       tools |-> tools, choice |-> IF tools = Absent THEN Absent ELSE ConverseChoice(req.choice),
       thinking |-> Budget(req), beta |-> <<>>,
       guardrail |-> Guardrail, metadata |-> Metadata(req.user)]

AnthropicChoice(choice) ==
  CASE choice = "auto" -> "auto" [] choice = "required" -> "any"
    [] choice = "off" -> "off" [] choice \in {"other", Absent} -> Absent [] OTHER -> choice

AnthropicThinking(req) == Budget(req)

CompletionsToMessages(req) ==
  [system |-> LET system == SystemText(req)
              IN  IF system \in {<<>>, <<"">>} THEN <<>> ELSE <<TextBlock(system)>>,
   messages |-> AnthropicMessages(req),
   maxTokens |-> MaxTokens(req), sampling |-> req.sampling,
   tools |-> ConverseTools(req), choice |-> AnthropicChoice(req.choice),
   thinking |-> AnthropicThinking(req), metadata |-> req.user]

-----------------------------------------------------------------------------
(* From Messages: blocks, some of them marked to be kept up to there.      *)

MaxCachePoints == 4
Disabled == 0

(* A block is put after those before it, and a point after it if it is     *)
(* marked and there are some left.                                         *)
Put(acc, block, marked) ==
  IF marked /\ acc.used < MaxCachePoints
  THEN [out |-> acc.out \o <<block, CachePoint>>, used |-> acc.used + 1]
  ELSE [acc EXCEPT !.out = Append(@, block)]

(* A system prompt that is one text has no marks.                          *)
SystemBlocks(system) ==
  LET put(acc, x) == Put(acc, TextBlock(x.text), x.marked)
  IN  FoldLeft(put, [out |-> <<>>, used |-> 0], system)

(* An image without type or data is left out.                              *)
ResultContent(parts) == SelectSeq(parts, LAMBDA p : p.b = "text" \/ (p.b = "image" /\ p.sound))

ResultStatus(x) == IF x.error = Absent THEN Absent ELSE IF x.error THEN "error" ELSE "success"

(* What Bedrock has a block for.                                           *)
HasBlock(x) == x.b \in {"text", "tool use", "tool result", "thinking"} \/ (x.b = "image" /\ x.sound)

ConverseBlock(x) ==
  CASE x.b = "thinking" -> Block("reasoning", x.text, Absent)
    [] x.b = "tool result" ->
         [b |-> x.b, text |-> ResultContent(x.parts), id |-> x.id, status |-> ResultStatus(x)]
    [] OTHER -> Block(x.b, x.text, x.id)

ConverseContent(content, used) ==
  LET put(acc, x) == IF HasBlock(x) THEN Put(acc, ConverseBlock(x), x.marked /\ x.b # "thinking")
                     ELSE acc
  IN  FoldLeft(put, [out |-> <<>>, used |-> used], content)

MessagesContent(messages, used) ==
  LET next(acc, m) ==
        LET content == ConverseContent(m.content, acc.used)
        IN  [out |-> Append(acc.out, [role |-> m.role, content |-> content.out]),
             used |-> content.used]
  IN  FoldLeft(next, [out |-> <<>>, used |-> used], messages)

ToolBlocks(tools, used) ==
  LET put(acc, t) == Put(acc, Block("tool", <<>>, t.name), t.marked)
  IN  FoldLeft(put, [out |-> <<>>, used |-> used], tools)

(* A model that thinks is made to use a tool.                              *)
ThinkingChoice(req) ==
  IF req.thinking # Absent THEN "any"
  ELSE CASE req.choice \in {"off", Absent} -> Absent [] OTHER -> req.choice

(* Values of all the headers, each split at its commas.                    *)
BetaFeatures == Spread(LAMBDA value : SelectSeq(value, LAMBDA f : f # ""), env.headers.beta)

MessagesToConverse(req) ==
  LET system == SystemBlocks(req.system)
      messages == MessagesContent(req.messages, system.used)
      tools == ToolBlocks(IF req.tools = Absent THEN <<>> ELSE req.tools, messages.used).out
  IN  [system |-> system.out, messages |-> messages.out,
       maxTokens |-> req.max, sampling |-> req.sampling /\ req.thinking = Absent,
       tools |-> IF tools = <<>> THEN Absent ELSE tools,
       choice |-> IF tools = <<>> THEN Absent ELSE ThinkingChoice(req),
       thinking |-> req.thinking, beta |-> BetaFeatures,
       guardrail |-> Guardrail, metadata |-> Metadata(req.user)]

(* A message of a user: its texts joined, after the results it brings; of  *)
(* the texts of an assistant the last one.                                 *)
UserMessages(m) ==
  LET results == SelectSeq(m.content, LAMBDA x : x.b = "tool result")
      texts(x) == IF x.b = "text" THEN x.text ELSE <<>>
      text == Spread(texts, m.content)
      parts(x) == SelectSeq(x.parts, LAMBDA p : p.b = "text")
  IN  [i \in DOMAIN results |->
         [role |-> "tool", text |-> parts(results[i]), id |-> results[i].id, calls |-> <<>>]]
      \o (IF IsBlank(text) THEN <<>>
          ELSE <<[role |-> "user", text |-> text, id |-> Absent, calls |-> <<>>]>>)

AssistantMessages(m) ==
  LET texts == SelectSeq(m.content, LAMBDA x : x.b = "text")
      uses == SelectSeq(m.content, LAMBDA x : x.b = "tool use")
  IN  IF texts = <<>> /\ uses = <<>> THEN <<>>
      ELSE <<[role |-> "assistant", text |-> IF texts = <<>> THEN Absent ELSE Last(texts).text,
              id |-> Absent, calls |-> [i \in DOMAIN uses |-> uses[i].id]]>>

CompletionsChoice(choice) == IF choice = "any" THEN "required" ELSE choice

MessagesToCompletions(req) ==
  LET system(x) == x.text
      message(m) == IF m.role = "user" THEN UserMessages(m) ELSE AssistantMessages(m)
  IN  [messages |->
         (IF req.system = <<>> THEN <<>>
          ELSE <<[role |-> "system", text |-> Spread(system, req.system), id |-> Absent,
                  calls |-> <<>>]>>)
         \o Spread(message, req.messages),
       maxTokens |-> req.max, sampling |-> req.sampling,
       tools |-> IF req.tools \in {Absent, <<>>} THEN Absent
                 ELSE [i \in DOMAIN req.tools |-> Block("tool", <<>>, req.tools[i].name)],
       choice |-> CompletionsChoice(req.choice),
       thinking |-> IF req.thinking \in {Absent, Disabled} THEN Absent ELSE req.thinking,
       metadata |-> req.user]

-----------------------------------------------------------------------------
(* From Responses: items, of which messages are only one kind.             *)

PartTexts(parts) == SelectSeq(parts, LAMBDA p : p.b = "text")
InputBlocks(parts) ==
  LET kept == PartTexts(parts) IN [i \in DOMAIN kept |-> TextBlock(kept[i].text)]
JoinedParts(parts) == Spread(LAMBDA p : p.text, PartTexts(parts))

SystemItems(items) ==
  LET kept == SelectSeq(items, LAMBDA x : x.item = "message" /\ x.role \in {"system", "developer"})
  IN  [i \in DOMAIN kept |-> TextBlock(JoinedParts(kept[i].parts))]

Says(role, content) == <<[role |-> role, content |-> content]>>

(* A call whose arguments do not parse is left out, its result is not.     *)
ItemMessage(x) ==
  CASE x.item = "message" /\ x.role \in {"user", "assistant"} -> Says(x.role, InputBlocks(x.parts))
    [] x.item = "output" /\ PartTexts(x.parts) # <<>> -> Says("assistant", InputBlocks(x.parts))
    [] x.item = "call" /\ x.sound -> Says("assistant", <<Block("tool use", <<>>, x.id)>>)
    [] x.item = "custom call" -> Says("assistant", <<Block("tool use", <<>>, x.id)>>)
    [] x.item = "result" ->
         Says("user", <<[b |-> "tool result", text |-> JoinedParts(x.parts), id |-> x.id,
                         status |-> "success"]>>)
    [] OTHER -> <<>>

Instructed(instructions, blocks) ==
  IF instructions = Absent THEN blocks ELSE <<TextBlock(instructions)>> \o blocks

ResponsesChoice(choice) ==
  CASE choice = "auto" -> "auto" [] choice = "required" -> "any"
    [] choice \in {"off", "hosted", "other", Absent} -> Absent [] OTHER -> choice

ResponsesTools(req) == IF req.tools = Absent THEN <<>> ELSE Functions(req.tools)

ResponsesToConverse(req) ==
  LET system == Instructed(req.instructions, SystemItems(req.items))
      tools == ResponsesTools(req)
  IN  [system |-> IF system = <<>> THEN <<>> ELSE SystemCached(system),
       messages |-> MessagesCached(Spread(ItemMessage, req.items)),
       maxTokens |-> IF req.max = Absent THEN 4096 ELSE req.max, sampling |-> req.sampling,
       tools |-> IF tools = <<>> THEN Absent ELSE ToolsCached(tools),
       choice |-> IF tools = <<>> THEN Absent ELSE ResponsesChoice(req.choice),
       thinking |-> Absent, beta |-> <<>>,
       guardrail |-> Guardrail, metadata |-> Metadata(req.user)]

(* Counting runs no model, but its request has to be one that could.       *)
CountToConverse(fields) ==
  fields @@ ("max_tokens" :> 1) @@ ("anthropic_version" :> env.headers.version)

-----------------------------------------------------------------------------
(* The answer: blocks of text, reasoning and calls, and why it ended.      *)

CompletionsFinish(reason) ==
  CASE reason \in {"end", "sequence", "pause"} -> "stop"
    [] reason \in {"limit", "window"} -> "length"
    [] reason = "tool" -> "tool calls"
    [] reason \in {"filtered", "guardrail", "refusal"} -> "filtered"
    [] OTHER -> Absent

MessagesFinish(reason) == IF reason \in {"filtered", "guardrail"} THEN "refusal" ELSE reason

ResponsesStatus(reason) ==
  CASE reason \in {"end", "sequence"} -> "completed"
    [] reason \in {"limit", "window"} -> "incomplete"
    [] reason \in {"filtered", "guardrail"} -> "failed"
    [] reason = "tool" -> "requires action"

BlocksOf(blocks, kinds) == SelectSeq(blocks, LAMBDA x : x.b \in kinds)
LastText(blocks) == IF blocks = <<>> THEN Absent ELSE Last(blocks).text
CallsOf(blocks) == LET uses == BlocksOf(blocks, {"tool use"})
                   IN  [i \in DOMAIN uses |-> [id |-> uses[i].id, text |-> uses[i].text]]

(* One choice, of one text and one reasoning: the last ones.               *)
ConverseToCompletions(a) ==
  [content |-> LastText(BlocksOf(a.blocks, {"text"})),
   reasoning |-> LastText(BlocksOf(a.blocks, {"reasoning"})),
   calls |-> CallsOf(a.blocks), finish |-> CompletionsFinish(a.stop),
   usage |-> IF a.usage = Absent THEN 0 ELSE a.usage]

(* All the text is in one message that comes before the calls.             *)
ConverseToResponses(a) ==
  [parts |-> LET said == BlocksOf(a.blocks, {"text", "reasoning"})
             IN  [i \in DOMAIN said |-> said[i].text],
   calls |-> CallsOf(a.blocks), finish |-> ResponsesStatus(a.stop), usage |-> a.usage]

ConverseToMessages(a) ==
  [content |-> BlocksOf(a.blocks, {"text", "reasoning", "tool use", "image"}),
   finish |-> MessagesFinish(a.stop), usage |-> IF a.usage = Absent THEN 0 ELSE a.usage]

MessagesAnswerToCompletions(a) ==
  LET called == BlocksOf(a.blocks, {"tool use", "server tool use"})
  IN  [content |-> LastText(BlocksOf(a.blocks, {"text"})),
       reasoning |-> LastText(BlocksOf(a.blocks, {"reasoning"})),
       calls |-> [i \in DOMAIN called |-> [id |-> called[i].id, text |-> called[i].text]],
       finish |-> CompletionsFinish(a.stop), usage |-> a.usage]

-----------------------------------------------------------------------------
LlmConversionInit ==
  /\ toConvert \in ConversionAsk /\ env \in ConversionEnv
  /\ converted = Absent /\ answered = Absent /\ returned = Absent

Translation ==
  CASE toConvert.from = "completions" /\ toConvert.to = "converse" -> CompletionsToConverse(toConvert.request)
    [] toConvert.from = "completions" /\ toConvert.to = "messages" -> CompletionsToMessages(toConvert.request)
    [] toConvert.from = "messages" /\ toConvert.to = "converse" -> MessagesToConverse(toConvert.request)
    [] toConvert.from = "messages" /\ toConvert.to = "completions" -> MessagesToCompletions(toConvert.request)
    [] toConvert.from = "responses" /\ toConvert.to = "converse" -> ResponsesToConverse(toConvert.request)
    [] toConvert.from = "count tokens" -> CountToConverse(toConvert.request)

TranslateRequest ==
  /\ converted = Absent
  /\ converted' = Translation
  /\ UNCHANGED <<toConvert, env, answered, returned>>

AnswerOf(from, to, a) ==
  IF to = "messages" THEN MessagesAnswerToCompletions(a)
  ELSE CASE from = "completions" -> ConverseToCompletions(a)
         [] from = "messages" -> ConverseToMessages(a)
         [] from = "responses" -> ConverseToResponses(a)

(* An answer of Bedrock without a message is incomplete.                   *)
TranslateAnswer ==
  /\ converted # Absent /\ answered = Absent
  /\ toConvert.to \in {"converse", "messages"} /\ toConvert.from # "count tokens"
  /\ \E a \in ConversionReply :
       /\ toConvert.to = "messages" => a.usage # Absent /\ a.blocks # Absent
       /\ answered' = a
       /\ returned' = IF a.blocks = Absent THEN Incomplete ELSE AnswerOf(toConvert.from, toConvert.to, a)
  /\ UNCHANGED <<toConvert, env, converted>>

LlmConversionNext == TranslateRequest \/ TranslateAnswer
LlmConversionSpec == LlmConversionInit /\ [][LlmConversionNext]_conversionVars

-----------------------------------------------------------------------------
(* Properties. *)

FromTo(from, to) == toConvert.from = from /\ toConvert.to = to /\ converted # Absent

(* What is said in messages of blocks: by whom and what.                   *)
Told(messages) ==
  LET said(m) == LET texts == BlocksOf(m.content, {"text"})
                 IN  [i \in DOMAIN texts |-> <<m.role, texts[i].text>>]
  IN  Spread(said, messages)

(* Who made or answered which call, in the order of the messages.          *)
Called(messages) ==
  LET called(m) == LET blocks == BlocksOf(m.content, {"tool use", "tool result"})
                   IN  [i \in DOMAIN blocks |-> <<m.role, blocks[i].b, blocks[i].id>>]
  IN  Spread(called, messages)

(* The text and the calls of a prompt get to Bedrock with who said them, in *)
(* the order in which they were, however many points are put among them    *)
(* (bedrock.rs translate_internal of from_messages and from_responses).    *)
PromptKept ==
  /\ FromTo("messages", "converse") =>
       /\ Told(converted.messages) = Told(toConvert.request.messages)
       /\ Called(converted.messages) = Called(toConvert.request.messages)
  /\ FromTo("responses", "converse") =>
       LET items == toConvert.request.items
           said == SelectSeq(items, LAMBDA x : x.item \in {"message", "output"}
                                              /\ x.role \in {"user", "assistant"})
           texts(x) == LET parts == PartTexts(x.parts)
                       IN  [i \in DOMAIN parts |-> <<x.role, parts[i].text>>]
       IN  Told(converted.messages) = Spread(texts, said)

Points(blocks) == Len(BlocksOf(blocks, {"cache point"}))
PointsIn(messages) == Len(Spread(LAMBDA m : BlocksOf(m.content, {"cache point"}), messages))
AllPoints ==
  Points(converted.system) + PointsIn(converted.messages)
  + (IF converted.tools = Absent THEN 0 ELSE Points(converted.tools))

(* Bedrock takes four cache points: no more are sent, and a mark of the    *)
(* caller is ignored only when those before it have used them up; what the *)
(* policy of the backend adds is never in the turn that is new             *)
(* (bedrock.rs, from_messages and insert_cache_point_in_last_user_message). *)
CachePointsFit ==
  /\ FromTo("messages", "converse") =>
       LET marked(blocks) == SelectSeq(blocks, LAMBDA x : x.marked)
           kept(m) == SelectSeq(m.content, LAMBDA x : x.marked /\ x.b # "thinking" /\ HasBlock(x))
           tools == IF toConvert.request.tools = Absent THEN <<>> ELSE toConvert.request.tools
           marks == Len(marked(toConvert.request.system)) + Len(Spread(kept, toConvert.request.messages))
                    + Len(marked(tools))
       IN  AllPoints = IF marks < 4 THEN marks ELSE 4
  /\ toConvert.from \in {"completions", "responses"} /\ toConvert.to = "converse" /\ converted # Absent =>
       /\ AllPoints <= IF env.caching = Absent THEN 0 ELSE 3
       /\ converted.messages # <<>> => Points(Last(converted.messages).content) = 0

(* A model that is asked to think is not told how to sample or which tool  *)
(* it has to use, for Bedrock refuses both (bedrock.rs translate_internal  *)
(* of from_messages).                                                      *)
ThinkingRestrains ==
  FromTo("messages", "converse") /\ converted.thinking # Absent =>
    /\ ~converted.sampling
    /\ converted.choice = IF converted.tools = Absent THEN Absent ELSE "any"

(* Every call the model makes gets back to the caller with its arguments,  *)
(* in order, and text that was said is not all lost; the caller is told of *)
(* calls by the reason too (ConverseResponseAdapter, translate_response).  *)
AnswersKept ==
  returned \notin {Absent, Incomplete} =>
    LET uses == CallsOf(answered.blocks)
        said == BlocksOf(answered.blocks, {"text"})
    IN  IF toConvert.from = "messages"
        THEN CallsOf(returned.content) = uses /\ BlocksOf(returned.content, {"text"}) = said
        ELSE /\ uses = SelectSeq(returned.calls, LAMBDA c : \E u \in Range(uses) : u = c)
             /\ said # <<>> => IF toConvert.from = "responses"
                               THEN \A x \in Range(said) : x.text \in Range(returned.parts)
                               ELSE returned.content # Absent

LlmConversionKeeps == PromptKept /\ CachePointsFit /\ ThinkingRestrains /\ AnswersKept

(* A result has its call before it.  It does not hold: a call whose        *)
(* arguments do not parse is skipped and its result is not (bedrock.rs     *)
(* 1276-1284).                                                             *)
ResultsHaveCalls ==
  FromTo("responses", "converse") =>
    LET called == Called(converted.messages)
    IN  \A i \in DOMAIN called : called[i][2] = "tool result" =>
          \E j \in 1..(i - 1) : called[j][2] = "tool use" /\ called[j][3] = called[i][3]

(* "Bedrock rejects empty tools arrays" (bedrock.rs 714): from Completions *)
(* one is sent if none of the tools is a function.                         *)
SomeToolOffered ==
  FromTo("completions", "converse") => converted.tools # <<>>
=============================================================================
