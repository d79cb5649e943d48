----------------------------- MODULE LlmStreams -----------------------------
(* An answer that is streamed: what the provider sends event by event, the *)
(* body that decodes it when it is polled, and what the caller gets        *)
(* (agentgateway/src/parse/transform.rs, passthrough.rs, and translate_    *)
(* stream and passthrough_stream of llm/conversion).  What a translated    *)
(* stream should say is what LlmConversion makes of the whole answer.      *)
EXTENDS LlmConversion

CONSTANTS StreamMode, \* [from, to]: the formats of the provider and of the caller
          MaxBlocks,  \* blocks of an answer
          MaxPieces,  \* pieces of an answer, over its blocks
          MaxWire,    \* events that wait to be decoded
          StopReason  \* why an answer may end

VARIABLES
  streamMode,
  source,    \* the provider: [phase, block, open, deltas, spoilt], spoilt by at most one
             \* event out of the ordinary
  uttered,   \* history: the events it sent
  wire,      \* those that were not decoded yet
  tracking,  \* what the translator remembers
  callerGot, \* the events the caller got
  streamLog, \* what the log was told: [usage, completion, held, charged]
  streamEnd  \* "open", "ended" or "broken"

streamVars == <<streamMode, source, uttered, wire, tracking, callerGot, streamLog, streamEnd>>

Event(e, i, kind, piece) == [e |-> e, i |-> i, kind |-> kind, piece |-> piece]
OutOf(o, i, kind, text, id) == [o |-> o, i |-> i, kind |-> kind, text |-> text, id |-> id]
Out(o, i, kind, text) == OutOf(o, i, kind, text, Absent)

(* What tells a call from others: the identifier the provider gave it, or  *)
(* one that the translator to Responses draws at random when it begins.    *)
ProviderId(i) == <<"provider's", i>>
DrawnId(i) == <<"drawn", i>>
CallOut(o, i, id, text) == OutOf(o, i, "tool use", text, id)

PassedOn == streamMode.from = streamMode.to
UsedTokens == 3

StreamInit ==
  /\ streamMode \in StreamMode
  /\ source = [phase |-> "new", block |-> 0, open |-> Absent, deltas |-> 0, spoilt |-> FALSE]
  /\ uttered = <<>> /\ wire = <<>> /\ callerGot = <<>>
  /\ tracking = [calls |-> <<>>, seen |-> {}, stop |-> Absent]
  /\ streamLog = [usage |-> Absent, completion |-> <<>>, held |-> TRUE, charged |-> 0]
  /\ streamEnd = "open"

-----------------------------------------------------------------------------
(* The provider: a message of blocks, one after the other, each of pieces. *)
(* What it sends after the body has ended or failed is read by nobody.     *)

Writes(event) ==
  /\ streamEnd = "open" /\ wire' = Append(wire, event) /\ uttered' = Append(uttered, event)
  /\ UNCHANGED <<streamMode, tracking, callerGot, streamLog, streamEnd>>

Sends(event) == Len(wire) < MaxWire /\ Writes(event)

BeginMessage ==
  /\ source.phase = "new" /\ source' = [source EXCEPT !.phase = "open"]
  /\ Sends(Event("start", 0, Absent, Absent))

(* Bedrock announces the blocks of tools and may announce others.          *)
BeginBlock ==
  /\ source.phase = "open" /\ source.open = Absent /\ source.block < MaxBlocks
  /\ \E kind \in {"text", "reasoning", "tool use"}, announced \in BOOLEAN :
       /\ kind = "reasoning" => ~PassedOn
       /\ announced \/ (streamMode.from = "converse" /\ kind # "tool use")
       /\ source' = [source EXCEPT !.open = kind, !.deltas = 0]
       /\ IF announced THEN Sends(Event("block", source.block, kind, Absent))
          ELSE UNCHANGED <<streamMode, uttered, wire, tracking, callerGot, streamLog, streamEnd>>

SendDelta ==
  /\ source.phase = "open" /\ source.open # Absent
  /\ Len(SelectSeq(uttered, LAMBDA x : x.e = "delta")) < MaxPieces
  /\ source' = [source EXCEPT !.deltas = @ + 1]
  /\ \E kind \in {source.open} \cup (IF source.open = "reasoning" THEN {"signature"} ELSE {}) :
       Sends(Event("delta", source.block, kind, source.deltas + 1))

EndBlock ==
  /\ source.phase = "open" /\ source.open # Absent /\ source.deltas > 0
  /\ source' = [source EXCEPT !.open = Absent, !.block = @ + 1]
  /\ Sends(Event("end", source.block, Absent, Absent))

(* OpenAI's Responses and Anthropic tell the usage with the reason.        *)
StopMessage ==
  /\ source.phase = "open" /\ source.open = Absent /\ source' = [source EXCEPT !.phase = "stopped"]
  /\ \E reason \in StopReason : Sends(Event("stop", 0, Absent, reason))

(* The last event; its usage may be missing.                               *)
SendMetadata ==
  /\ source.phase = "stopped" /\ source' = [source EXCEPT !.phase = "finished"]
  /\ \E usage \in {Absent, UsedTokens} : Sends(Event("metadata", 0, Absent, usage))

(* An event nobody knows: an exception of the service.                     *)
SendUnknown ==
  /\ source.phase \in {"open", "stopped"} /\ ~source.spoilt /\ ~PassedOn
  /\ source' = [source EXCEPT !.spoilt = TRUE]
  /\ Sends(Event("unknown", 0, Absent, Absent))

(* Some tell the usage as they go.                                         *)
SendUsage ==
  /\ streamMode.from = "completions" /\ source.phase = "open" /\ ~source.spoilt
  /\ source' = [source EXCEPT !.spoilt = TRUE]
  /\ Sends(Event("usage", 0, Absent, 1))

(* Bytes that are no frame, or an event over the limit of the buffer; they *)
(* may come together with those before them.                               *)
SendCorrupt ==
  /\ source.phase \in {"open", "stopped"} /\ ~source.spoilt
  /\ source' = [source EXCEPT !.phase = "over", !.spoilt = TRUE]
  /\ Writes(Event("corrupt", 0, Absent, Absent))

(* The connection is closed, in its time or not, or it is lost.            *)
CloseStream ==
  /\ streamEnd = "open" /\ source.phase \notin {"closed", "cut"}
  /\ source' \in {[source EXCEPT !.phase = "closed"]}
                 \cup (IF source.phase \in {"over", "finished"} THEN {}
                       ELSE {[source EXCEPT !.phase = "cut"]})
  /\ UNCHANGED <<streamMode, uttered, wire, tracking, callerGot, streamLog, streamEnd>>

-----------------------------------------------------------------------------
(* What the translators remember: the identifier and the arguments of the  *)
(* calls that are open, the blocks that were begun and why the answer ended.*)

CallBegins(i) ==
  i :> [id |-> IF streamMode.to = "responses" THEN DrawnId(i) ELSE ProviderId(i), text |-> <<>>]

Tracked(t, x) ==
  CASE x.e = "block" ->
         [t EXCEPT !.seen = @ \cup {x.i},
                   !.calls = IF x.kind = "tool use" THEN CallBegins(x.i) @@ @ ELSE @]
    [] x.e = "delta" ->
         [t EXCEPT !.seen = IF streamMode.to = "messages" THEN @ \cup {x.i} ELSE @,
                   !.calls = IF x.i \in DOMAIN @ THEN [@ EXCEPT ![x.i].text = Append(@, x.piece)]
                             ELSE @]
    [] x.e = "end" ->
         [t EXCEPT !.calls = [i \in DOMAIN @ \ {x.i} |-> @[i]],
                   !.seen = IF x.i \in DOMAIN t.calls /\ streamMode.to = "responses" THEN @
                            ELSE @ \ {x.i}]
    [] x.e = "stop" -> [t EXCEPT !.stop = x.piece]
    [] x.e = "metadata" -> [t EXCEPT !.stop = Absent]
    [] OTHER -> t

(* To Completions: blocks have no place there, only what is in them.       *)
DeltaChunk(x) ==
  CASE x.kind = "text" -> Out("content", x.i, "text", <<x.piece>>)
    [] x.kind = "reasoning" -> Out("reasoning", x.i, "reasoning", <<x.piece>>)
    [] OTHER -> Out("empty", x.i, Absent, <<>>)

UsageChunk(usage) == IF usage = Absent THEN <<>> ELSE <<Out("usage", 0, Absent, usage)>>

ConverseChunks(t, x) ==
  CASE x.e = "start" -> <<Out("role", 0, Absent, <<>>)>>
    [] x.e = "block" /\ x.kind = "tool use" -> <<CallOut("call", x.i, ProviderId(x.i), <<>>)>>
    [] x.e = "delta" -> IF x.i \in DOMAIN t.calls
                        THEN <<Out("arguments", x.i, "tool use", <<x.piece>>)>> ELSE <<DeltaChunk(x)>>
    [] x.e = "stop" -> <<Out("finish", 0, Absent, CompletionsFinish(x.piece))>>
    [] x.e = "metadata" -> UsageChunk(x.piece)
    [] OTHER -> <<>>

(* Of an answer of Anthropic neither calls nor the reason are told.        *)
AnthropicChunks(x) ==
  CASE x.e = "delta" -> <<DeltaChunk(x)>>
    [] x.e = "stop" -> UsageChunk(UsedTokens)
    [] OTHER -> <<>>

(* To Messages: a block that was not announced begins with its first piece.*)
BlockStart(x) ==
  IF x.kind = "tool use" THEN CallOut("block start", x.i, ProviderId(x.i), <<>>)
  ELSE Out("block start", x.i, IF x.kind = "signature" THEN "reasoning" ELSE x.kind, <<>>)

MessagesEvents(t, x) ==
  CASE x.e = "start" -> <<Out("message start", 0, Absent, <<>>)>>
    [] x.e = "block" -> <<BlockStart(x)>>
    [] x.e = "delta" ->
         (IF x.i \in t.seen \/ x.kind = "tool use" THEN <<>> ELSE <<BlockStart(x)>>)
         \o <<Out("block delta", x.i, x.kind, <<x.piece>>)>>
    [] x.e = "end" -> <<Out("block stop", x.i, Absent, <<>>)>>
    [] x.e = "metadata" ->
         (IF t.stop = Absent \/ x.piece = Absent THEN <<>>
          ELSE <<Out("message delta", 0, Absent, MessagesFinish(t.stop))>>)
         \o <<Out("message stop", 0, Absent, <<>>)>>
    [] x.e = "unknown" -> <<Out("error", 0, Absent, <<>>)>>
    [] OTHER -> <<>>

(* To Responses: an item for the message and one for each call, which is   *)
(* told by the identifier that was drawn for it.                           *)
FinalEvent(stop) ==
  CASE stop \in {Absent, "tool"} -> "completed" [] OTHER -> ResponsesStatus(stop)

ResponsesEvents(t, x) ==
  CASE x.e = "start" -> <<Out("created", 0, Absent, <<>>), Out("item added", 0, "message", <<>>)>>
    [] x.e = "block" -> IF x.kind = "tool use"
                        THEN <<CallOut("item added", x.i, CallBegins(x.i)[x.i].id, <<>>)>>
                        ELSE <<Out("part added", x.i, "text", <<>>)>>
    [] x.e = "delta" ->
         CASE x.kind = "tool use" -> IF x.i \in DOMAIN t.calls
                                     THEN <<CallOut("arguments delta", x.i, t.calls[x.i].id, <<x.piece>>)>>
                                     ELSE <<>>
           [] x.kind = "signature" -> <<>>
           [] OTHER -> <<Out("text delta", x.i, "text", <<x.piece>>)>>
    [] x.e = "end" ->
         IF x.i \in DOMAIN t.calls
         THEN LET call == t.calls[x.i]
              IN  <<CallOut("arguments done", x.i, call.id, call.text),
                    CallOut("item done", x.i, call.id, call.text)>>
         ELSE IF x.i \in t.seen THEN <<Out("part done", x.i, "text", <<>>)>> ELSE <<>>
    [] x.e = "metadata" ->
         <<Out("item done", 0, "message", <<>>), Out(FinalEvent(t.stop), 0, Absent, <<>>)>>
    [] x.e = "unknown" -> <<Out("error", 0, Absent, <<>>)>>
    [] OTHER -> <<>>

Outs(t, x) ==
  IF streamMode.from = "messages" THEN AnthropicChunks(x)
  ELSE CASE streamMode.to = "completions" -> ConverseChunks(t, x)
         [] streamMode.to = "messages" -> MessagesEvents(t, x)
         [] streamMode.to = "responses" -> ResponsesEvents(t, x)

-----------------------------------------------------------------------------
(* What is read of an event on its way.                                    *)

UsageOf(x) ==
  CASE x.e = "usage" -> x.piece
    [] x.e = "metadata" /\ streamMode.from \in {"converse", "completions"} -> x.piece
    [] x.e = "stop" /\ streamMode.from = "messages" -> UsedTokens
    [] x.e = "stop" /\ streamMode.from = "responses" /\ x.piece \in {"end", "tool"} -> UsedTokens
    [] OTHER -> Absent

(* Only the pass-through of Completions keeps the text and settles what    *)
(* the call costs, once, at the first usage; [DONE] settles the text.      *)
LogCompletion(l, x) ==
  LET settled == l.held /\ UsageOf(x) # Absent
  IN  [usage |-> IF UsageOf(x) # Absent THEN UsageOf(x) ELSE l.usage,
       completion |-> IF l.held /\ x.e = "delta" /\ x.kind = "text"
                      THEN Append(l.completion, <<x.i, x.piece>>) ELSE l.completion,
       held |-> l.held /\ ~settled,
       charged |-> l.charged + IF settled THEN 1 ELSE 0]

Logged(l, x) ==
  IF PassedOn /\ streamMode.to = "completions" THEN LogCompletion(l, x)
  ELSE IF UsageOf(x) = Absent THEN l ELSE [l EXCEPT !.usage = UsageOf(x)]

-----------------------------------------------------------------------------
(* The body. *)

Decoded(events) ==
  LET step(acc, x) == [t |-> Tracked(acc.t, x), outs |-> acc.outs \o Outs(acc.t, x),
                       l |-> Logged(acc.l, x)]
  IN  FoldLeft(step, [t |-> tracking, outs |-> <<>>, l |-> streamLog], events)

Sound(events) == SelectSeq(events, LAMBDA x : x.e # "corrupt")
Spoilt(events) == \E x \in Range(events) : x.e = "corrupt"

(* One poll decodes all there is.  A frame that cannot be decoded takes    *)
(* with it what this poll had made of those before.                        *)
PollTransformed ==
  /\ streamEnd = "open" /\ wire # <<>> /\ ~PassedOn
  /\ LET d == Decoded(Sound(wire))
     IN  /\ tracking' = d.t /\ streamLog' = d.l
         /\ IF Spoilt(wire) THEN streamEnd' = "broken" /\ UNCHANGED callerGot
            ELSE callerGot' = callerGot \o d.outs /\ UNCHANGED streamEnd
  /\ wire' = <<>>
  /\ UNCHANGED <<streamMode, source, uttered>>

(* The bytes go on as they are, read on the way: unless they cannot be.    *)
PollPassedOn ==
  /\ streamEnd = "open" /\ wire # <<>> /\ PassedOn
  /\ LET step(l, x) == Logged(l, x)
     IN  streamLog' = FoldLeft(step, streamLog, Sound(wire))
  /\ IF Spoilt(wire) THEN streamEnd' = "broken" /\ UNCHANGED callerGot
     ELSE callerGot' = callerGot \o wire /\ UNCHANGED streamEnd
  /\ wire' = <<>>
  /\ UNCHANGED <<streamMode, source, uttered, tracking>>

(* An end is passed on as an end, wherever it came, a failure as one.      *)
PollEnd ==
  /\ streamEnd = "open" /\ wire = <<>> /\ source.phase \in {"closed", "cut"}
  /\ streamEnd' = IF source.phase = "cut" THEN "broken" ELSE "ended"
  /\ UNCHANGED <<streamMode, source, uttered, wire, tracking, callerGot, streamLog>>

StreamNext ==
  \/ BeginMessage \/ BeginBlock \/ SendDelta \/ EndBlock \/ StopMessage \/ SendMetadata
  \/ SendUnknown \/ SendUsage \/ SendCorrupt \/ CloseStream
  \/ PollTransformed \/ PollPassedOn \/ PollEnd

StreamSpec == StreamInit /\ [][StreamNext]_streamVars

-----------------------------------------------------------------------------
(* Properties. *)

Got(kinds) == SelectSeq(callerGot, LAMBDA x : x.o \in kinds)
Translating(from, to) == streamMode.from = from /\ streamMode.to = to
Pieces(outs) == FlattenSeq([i \in DOMAIN outs |-> outs[i].text])

(* A caller of Messages sees each block begin once, then its pieces, and   *)
(* end once, and nothing after the message ended, announced or not by the  *)
(* provider (from_messages::translate_stream).                             *)
BlocksBracketed ==
  Translating("converse", "messages") =>
    \A i \in DOMAIN callerGot :
      LET x == callerGot[i]
          before(o) == {j \in 1..(i - 1) : callerGot[j].o = o /\ callerGot[j].i = x.i}
      IN  /\ x.o = "block start" => before("block start") = {}
          /\ x.o \in {"block delta", "block stop"} =>
               /\ Cardinality(before("block start")) = 1 /\ before("block stop") = {}
          /\ before("message stop") = {}

(* A caller of Responses can put each call together by its identifier: it  *)
(* is begun once, before it has arguments, and is done with all of those   *)
(* sent under its identifier and no others (from_responses::            *)
(* translate_stream).                                                      *)
CallsWhole ==
  Translating("converse", "responses") =>
    \A i \in DOMAIN callerGot :
      LET x == callerGot[i]
          mine == SelectSeq(SubSeq(callerGot, 1, i - 1), LAMBDA y : y.id = x.id)
      IN  x.kind = "tool use" =>
            /\ IF x.o = "item added" THEN mine = <<>>
               ELSE mine # <<>> /\ mine[1].o = "item added" /\ mine[1].i = x.i
            /\ x.o \in {"arguments done", "item done"} =>
                 x.text = Pieces(SelectSeq(mine, LAMBDA y : y.o = "arguments delta"))

(* The answer as it would be had it not been streamed.                     *)
Whole ==
  LET ends == SelectSeq(uttered, LAMBDA x : x.e = "end")
      of(i) == SelectSeq(uttered, LAMBDA x : x.e = "delta" /\ x.i = ends[i].i)
      told(i) == SelectSeq(of(i), LAMBDA x : x.kind # "signature")
      kind(i) == IF of(i)[1].kind = "signature" THEN "reasoning" ELSE of(i)[1].kind
      id(i) == IF kind(i) = "tool use" THEN ProviderId(ends[i].i) ELSE Absent
      stops == SelectSeq(uttered, LAMBDA x : x.e = "stop")
  IN  [blocks |-> [i \in DOMAIN ends |->
                     Block(kind(i), [j \in DOMAIN told(i) |-> told(i)[j].piece], id(i))],
       stop |-> stops[1].piece, usage |-> Absent]

TextsOf(outs) ==
  LET blocks == SetToSortSeq({x.i : x \in Range(outs)}, <)
  IN  [k \in DOMAIN blocks |-> Pieces(SelectSeq(outs, LAMBDA x : x.i = blocks[k]))]

NonEmpty(texts) == SelectSeq(texts, LAMBDA x : x # <<>>)
BlockTexts(blocks) == NonEmpty([i \in DOMAIN blocks |-> blocks[i].text])
CallTexts(calls) == [i \in DOMAIN calls |-> calls[i].text]
Ids(s) == [i \in DOMAIN s |-> s[i].id]

Complete == streamEnd = "ended" /\ \E x \in Range(uttered) : x.e = "metadata"

(* A stream that was translated to its end says what the answer would have *)
(* said had it come as one: the same texts in the same order, the same     *)
(* calls with the same arguments, under the provider's identifiers in      *)
(* Completions and Messages, the same reason; Completions, which keep one  *)
(* text of several, are compared when there is one.  It leaves out a       *)
(* reason that came without usage (Messages), and says that a call ended   *)
(* the answer in the calls only (Responses).  The calls of Responses have  *)
(* identifiers of their own, see IdentifiersAgree.                         *)
StreamsAgree ==
  Complete /\ ~PassedOn /\ streamMode.from = "converse" =>
    CASE streamMode.to = "completions" ->
           LET a == ConverseToCompletions(Whole)
           IN  /\ Len(BlocksOf(Whole.blocks, {"text"})) = 1 => Pieces(Got({"content"})) = a.content
               /\ Len(BlocksOf(Whole.blocks, {"reasoning"})) = 1 =>
                    Pieces(Got({"reasoning"})) = a.reasoning
               /\ TextsOf(Got({"arguments"})) = CallTexts(a.calls)
               /\ Ids(Got({"call"})) = Ids(a.calls)
               /\ Got({"finish"})[1].text = a.finish
               /\ streamLog.usage # Absent =>
                    [k \in DOMAIN Got({"usage"}) |-> Got({"usage"})[k].text] = <<streamLog.usage>>
      [] streamMode.to = "messages" ->
           LET a == ConverseToMessages(Whole)
               said == SelectSeq(callerGot, LAMBDA x : x.o = "block delta" /\ x.kind # "signature")
           IN  /\ TextsOf(said) = BlockTexts(a.content)
               /\ LET starts == Got({"block start"})
                  IN  /\ [i \in DOMAIN starts |-> starts[i].kind]
                        = [i \in DOMAIN a.content |-> a.content[i].b]
                      /\ Ids(starts) = Ids(a.content)
               /\ \A x \in Range(Got({"message delta"})) : x.text = a.finish
      [] streamMode.to = "responses" ->
           LET a == ConverseToResponses(Whole)
           IN  /\ TextsOf(Got({"text delta"})) = NonEmpty(a.parts)
               /\ CallTexts(Got({"arguments done"})) = CallTexts(a.calls)
               /\ Last(callerGot).o = IF a.finish = "requires action" THEN "completed" ELSE a.finish

(* Not so: a call of Responses that is streamed has the identifier it has  *)
(* when it is not, the one the provider knows it by.  A random one is drawn*)
(* when its block begins (bedrock.rs:1690), whereas a whole answer keeps   *)
(* tool_use_id (bedrock.rs:2284-2291).                                     *)
IdentifiersAgree ==
  Complete /\ Translating("converse", "responses") =>
    Ids(Got({"arguments done"})) = Ids(ConverseToResponses(Whole).calls)

(* What is passed on is what the provider sent, nothing left out, moved or *)
(* changed, up to where it broke, and no stream that broke is presented to *)
(* its caller as one that ended (parse/passthrough.rs, transform.rs).      *)
PassedOnWhole ==
  /\ PassedOn => /\ IsPrefix(callerGot, uttered)
                 /\ streamEnd # "broken" => callerGot \o wire = uttered
  /\ streamEnd = "ended" => source.phase = "closed" /\ wire = <<>> /\ ~Spoilt(uttered)

(* The log learns the usage of every stream that tells it, even of one     *)
(* that the caller gets in another format; the limits are set right once,  *)
(* and the text that is logged is all of it unless the usage came before   *)
(* the end.  OpenAI's answers that are cut short or refused are left out   *)
(* (completions.rs, messages.rs and responses.rs passthrough_stream).      *)
UsageIsLogged ==
  /\ wire = <<>> =>
       \A x \in Range(uttered) :
         x.e # "usage" /\ UsageOf(x) # Absent => streamLog.usage = UsageOf(x)
  /\ streamLog.charged <= 1
  /\ streamLog.charged = 1 <=> streamLog.usage # Absent /\ Translating("completions", "completions")
  /\ Complete /\ Translating("completions", "completions")
       /\ (\A x \in Range(uttered) : x.e # "usage") =>
       LET said == SelectSeq(uttered, LAMBDA x : x.e = "delta" /\ x.kind = "text")
       IN  streamLog.completion = [i \in DOMAIN said |-> <<said[i].i, said[i].piece>>]

StreamsFaithful ==
  BlocksBracketed /\ CallsWhole /\ StreamsAgree /\ PassedOnWhole /\ UsageIsLogged
=============================================================================
