------------------------------ MODULE ExtProc ------------------------------
(***************************************************************************)
(* One request and its response through an external processor              *)
(* (agentgateway/src/http/ext_proc.rs).                                    *)
(*                                                                         *)
(* Five tasks share four bounded channels: the exchange with the server,   *)
(* a dispatcher that sorts its answers by direction, a pump that sends a   *)
(* body on, and for each direction a handler that turns answers into the   *)
(* new message.  The body of the new message is what the server streams    *)
(* back, so that the message goes on before its body is known.             *)
(***************************************************************************)
EXTENDS Naturals, Sequences

CONSTANTS Room,      \* places of the channels from and to the server: 10
          MaxFrames, \* bound on the frames of a body
          MaxChunks  \* bound on the chunks the server makes of a body

ASSUME RoomAssumption == Room \in Nat \ {0} /\ MaxFrames \in Nat /\ MaxChunks \in Nat

VARIABLES
  failOpen,   \* failure_mode
  hadBody,    \* direction -> the message has a body
  stage,      \* where the proxy is with the request
  link,       \* the exchange with the server: "connecting", "up", "down"
  toServer,   \* tx_req
  fromServer, \* tx_resp
  carried,    \* what the dispatcher has still to hand on
  forward,    \* direction -> channel to its handler, one place
  handler,    \* direction -> where its task is
  verdict,    \* direction -> what mutate_request, mutate_response return
  chunks,     \* direction -> chunks in the channel of the new body, one place
  feeding,    \* direction -> the handler has not dropped tx_chunk
  newBody,    \* direction -> what its reader knows of the new body
  pump,       \* direction -> what is left to send: the frames and the end
  server,     \* direction -> what the server has read and answered
  ended       \* direction -> the handler has seen the end of the body

procVars == <<failOpen, hadBody, stage, link, toServer, fromServer, carried, forward,
              handler, verdict, chunks, feeding, newBody, pump, server, ended>>

Direction == {"request", "response"}
Answers == {"headers", "chunk", "last", "immediate"}
Unread == [read |-> "nothing", answered |-> FALSE, streamed |-> 0, last |-> FALSE]

ProcTypeOK ==
  /\ failOpen \in BOOLEAN /\ hadBody \in [Direction -> BOOLEAN]
  /\ stage \in {"start", "request", "upstream", "answered", "response", "done"}
  /\ link \in {"connecting", "up", "down"}
  /\ toServer \in Seq(Direction \X {"headers", "frame", "eos"}) /\ Len(toServer) <= Room
  /\ fromServer \in Seq(Direction \X Answers) /\ Len(fromServer) <= Room
  /\ carried \in Seq(Direction \X Answers) /\ Len(carried) <= 2
  /\ forward \in [Direction -> Seq(Answers)] /\ \A d \in Direction : Len(forward[d]) <= 1
  /\ handler \in [Direction -> {"off", "loop", "chunk", "last", "over", "panicked"}]
  /\ verdict \in [Direction -> {"none", "pending", "passed", "original", "untouched",
                                "immediate", "error"}]
  /\ chunks \in [Direction -> 0 .. 1] /\ feeding \in [Direction -> BOOLEAN]
  /\ newBody \in [Direction -> {"unread", "reading", "complete", "dropped"}]
  /\ pump \in [Direction -> 0 .. MaxFrames + 1]
  /\ server \in [Direction -> [read : {"nothing", "headers", "eos"}, answered : BOOLEAN,
                               streamed : 0 .. MaxChunks, last : BOOLEAN]]
  /\ ended \in [Direction -> BOOLEAN]

ProcBegin(at, exchange) ==
  /\ failOpen \in BOOLEAN /\ hadBody \in [Direction -> BOOLEAN]
  /\ stage = at /\ link = exchange
  /\ toServer = <<>> /\ fromServer = <<>> /\ carried = <<>>
  /\ forward = [d \in Direction |-> <<>>]
  /\ handler = [d \in Direction |-> "off"] /\ verdict = [d \in Direction |-> "none"]
  /\ chunks = [d \in Direction |-> 0] /\ feeding = [d \in Direction |-> TRUE]
  /\ newBody = [d \in Direction |-> "unread"]
  /\ pump = [d \in Direction |-> 0]
  /\ server = [d \in Direction |-> Unread] /\ ended = [d \in Direction |-> FALSE]
ProcInit == ProcBegin("start", "connecting")

serverSide == <<link, fromServer, carried, forward, server>>
handlerSide == <<handler, verdict, chunks, feeding, newBody, ended>>

(* tx_req.send: it waits for a place; once the exchange is over it fails,  *)
(* at the latest when the stream is dropped with what it holds.            *)
ProcSends(m) == Len(toServer) < Room /\ toServer' = Append(toServer, m)
ProcSendFails == link = "down" /\ UNCHANGED toServer

-----------------------------------------------------------------------------
(* The proxy.                                                              *)

(* The headers first, then the pump and the handler start.                 *)
StartMutation(d) ==
  \/ /\ ProcSends(<<d, "headers">>)
     /\ handler' = [handler EXCEPT ![d] = "loop"]
     /\ verdict' = [verdict EXCEPT ![d] = "pending"]
     /\ \E n \in 0 .. MaxFrames : pump' = [pump EXCEPT ![d] = IF hadBody[d] THEN n + 1 ELSE 0]
     /\ stage' = d
  \/ /\ ProcSendFails
     /\ verdict' = [verdict EXCEPT ![d] = "error"] /\ stage' = "done"
     /\ UNCHANGED <<handler, pump>>

MutateRequest ==
  /\ stage = "start" /\ StartMutation("request")
  /\ UNCHANGED <<failOpen, hadBody, serverSide, chunks, feeding, newBody, ended>>

(* mutant: a response is processed although the request was not *)
MutateResponseAnyway ==
  /\ stage = "answered" /\ StartMutation("response")
  /\ UNCHANGED <<failOpen, hadBody, serverSide, chunks, feeding, newBody, ended>>
(* A request that passed unprocessed has its response pass too.            *)
MutateResponse ==
  /\ stage = "answered"
  /\ IF verdict["request"] = "original"
     THEN /\ verdict' = [verdict EXCEPT !["response"] = "untouched"] /\ stage' = "done"
          /\ UNCHANGED <<toServer, handler, pump>>
     ELSE StartMutation("response")
  /\ UNCHANGED <<failOpen, hadBody, serverSide, chunks, feeding, newBody, ended>>

(* rx_done: the request goes on, or its answer is known already.           *)
VerdictIn(d) ==
  /\ stage = d /\ verdict[d] # "pending"
  /\ stage' = IF d = "request" /\ verdict[d] \in {"passed", "original"} THEN "upstream"
              ELSE "done"
  /\ newBody' = [newBody EXCEPT ![d] = IF verdict[d] = "passed" THEN "reading" ELSE @]
  /\ UNCHANGED <<failOpen, hadBody, serverSide, toServer, handler, verdict, chunks,
                 feeding, pump, ended>>

(* The upstream may answer before it has read the request, and an answer   *)
(* that is not its own passes no processor.                                *)
UpstreamAnswers ==
  /\ stage = "upstream" /\ stage' \in {"answered", "done"}
  /\ UNCHANGED <<failOpen, hadBody, serverSide, toServer, handlerSide, pump>>

(* A body is sent frame by frame, then its end: also when reading it fails.*)
Pumps(d) ==
  /\ pump[d] > 0
  /\ \/ /\ ProcSends(<<d, IF pump[d] > 1 THEN "frame" ELSE "eos">>)
        /\ pump' = [pump EXCEPT ![d] = @ - 1]
     \/ pump[d] > 1 /\ pump' = [pump EXCEPT ![d] = 1] /\ UNCHANGED toServer
     \/ ProcSendFails /\ pump' = [pump EXCEPT ![d] = 0]
  /\ UNCHANGED <<failOpen, hadBody, stage, serverSide, handlerSide>>

-----------------------------------------------------------------------------
(* The exchange with the server, which is external.                        *)

Connect(s) ==
  /\ link = "connecting" /\ link' = s
  /\ UNCHANGED <<failOpen, hadBody, stage, toServer, fromServer, carried, forward,
                 server, handlerSide, pump>>

ServerCloses ==
  /\ link = "up" /\ link' = "down"
  /\ UNCHANGED <<failOpen, hadBody, stage, toServer, fromServer, carried, forward,
                 server, handlerSide, pump>>

ServerReads ==
  /\ link # "down" /\ toServer # <<>>
  /\ LET m == Head(toServer)
     IN server' = [server EXCEPT ![m[1]].read = IF m[2] = "frame" THEN @ ELSE m[2]]
  /\ toServer' = Tail(toServer)
  /\ UNCHANGED <<failOpen, hadBody, stage, link, fromServer, carried, forward,
                 handlerSide, pump>>

(* It answers the headers, then streams the new body, and ends it after it *)
(* has read the old one; or it answers the whole request at once.          *)
ServerAnswers(d, a) ==
  /\ link = "up" /\ Len(fromServer) < Room
  /\ server[d].read # "nothing" /\ ~server[d].last
  /\ CASE a = "headers" -> ~server[d].answered
       [] a = "chunk" -> server[d].answered /\ hadBody[d] /\ server[d].streamed < MaxChunks
       [] a = "last" -> server[d].answered /\ hadBody[d] /\ server[d].read = "eos"
       [] a = "immediate" -> TRUE
  /\ LET s == server[d]
     IN server' = [server EXCEPT ![d] =
          [s EXCEPT !.answered = @ \/ a = "headers",
                    !.streamed = IF a = "chunk" THEN @ + 1 ELSE @,
                    !.last = a \in {"last", "immediate"}]]
  /\ fromServer' = Append(fromServer, <<d, a>>)
  /\ UNCHANGED <<failOpen, hadBody, stage, link, toServer, carried, forward,
                 handlerSide, pump>>

-----------------------------------------------------------------------------
(* The dispatcher.                                                         *)

(* mutant: an immediate answer goes to the direction it answers *)
RecipientsOwn(m) == <<m>>
(* An immediate answer goes to both: it is not known who waits.            *)
Recipients(m) ==
  IF m[2] = "immediate" THEN <<<<"request", m[2]>>, <<"response", m[2]>>>> ELSE <<m>>

Dispatch ==
  /\ carried = <<>> /\ fromServer # <<>>
  /\ carried' = Recipients(Head(fromServer)) /\ fromServer' = Tail(fromServer)
  /\ UNCHANGED <<failOpen, hadBody, stage, link, toServer, forward, server,
                 handlerSide, pump>>

(* The receiver is dropped with its handler, or with the whole instance.   *)
Deaf(d) ==
  handler[d] \in {"over", "panicked"} \/ (stage = "done" /\ handler[d] = "off")

ForwardAnswer ==
  /\ carried # <<>>
  /\ LET m == Head(carried) IN
       /\ Deaf(m[1]) \/ forward[m[1]] = <<>>
       /\ forward' = IF Deaf(m[1]) THEN forward ELSE [forward EXCEPT ![m[1]] = <<m[2]>>]
  /\ carried' = Tail(carried)
  /\ UNCHANGED <<failOpen, hadBody, stage, link, toServer, fromServer, server,
                 handlerSide, pump>>

DispatcherOver == link = "down" /\ fromServer = <<>> /\ carried = <<>>

-----------------------------------------------------------------------------
(* The handlers.                                                           *)

Decided(d, v) == verdict' = [verdict EXCEPT ![d] = IF @ = "pending" THEN v ELSE @]

(* An immediate answer ends the handler; a second one, or one after the    *)
(* headers, finds tx_done taken, and unwrap panics.                        *)
TakesImmediate(d) ==
  /\ handler' = [handler EXCEPT ![d] = IF verdict[d] = "pending" THEN "over" ELSE "panicked"]
  /\ Decided(d, "immediate")
  /\ feeding' = [feeding EXCEPT ![d] = FALSE]
  /\ UNCHANGED ended

(* The message goes on; without a body that is all.                        *)
TakesHeaders(d) ==
  /\ Decided(d, "passed")
  /\ feeding' = [feeding EXCEPT ![d] = hadBody[d]]
  /\ ended' = [ended EXCEPT ![d] = ~hadBody[d]]
  /\ UNCHANGED handler

HandlerTakes(d) ==
  /\ handler[d] = "loop" /\ forward[d] # <<>>
  /\ forward' = [forward EXCEPT ![d] = <<>>]
  /\ LET a == Head(forward[d]) IN
       CASE a = "immediate" -> TakesImmediate(d)
         [] a # "immediate" /\ ~feeding[d] ->
              /\ handler' = [handler EXCEPT ![d] = "over"] /\ Decided(d, "error")
              /\ UNCHANGED <<feeding, ended>>
         [] a = "headers" /\ feeding[d] -> TakesHeaders(d)
         [] a \in {"chunk", "last"} /\ feeding[d] ->
              handler' = [handler EXCEPT ![d] = a] /\ UNCHANGED <<verdict, feeding, ended>>
  /\ UNCHANGED <<failOpen, hadBody, stage, link, toServer, fromServer, carried, server,
                 chunks, newBody, pump>>

(* tx_chunk.send waits for the reader of the new body, or finds it gone.   *)
HandlerSends(d) ==
  /\ handler[d] \in {"chunk", "last"}
  /\ chunks[d] = 0 \/ newBody[d] = "dropped"
  /\ chunks' = [chunks EXCEPT ![d] = IF newBody[d] = "dropped" THEN @ ELSE 1]
  /\ feeding' = [feeding EXCEPT ![d] = @ /\ handler[d] = "chunk"]
  /\ ended' = [ended EXCEPT ![d] = @ \/ handler[d] = "last"]
  /\ handler' = [handler EXCEPT ![d] = "loop"]
  /\ UNCHANGED <<failOpen, hadBody, stage, serverSide, toServer, verdict, newBody, pump>>

(* mutant: the handler of an open failure lets go of the request only *)
HearsEndClosed(d) ==
  /\ handler[d] = "loop" /\ forward[d] = <<>> /\ DispatcherOver
  /\ handler' = [handler EXCEPT ![d] = "over"]
  /\ Decided(d, IF failOpen THEN "original" ELSE "error")
  /\ feeding' = [feeding EXCEPT ![d] = FALSE]
  /\ UNCHANGED <<failOpen, hadBody, stage, serverSide, toServer, chunks, newBody, pump, ended>>
(* No more answers: a request that waits goes on as it came (fail open) or *)
(* fails.  A body that is being streamed ends here as if it were complete. *)
HearsEnd(d) ==
  /\ handler[d] = "loop" /\ forward[d] = <<>> /\ DispatcherOver
  /\ handler' = [handler EXCEPT ![d] = "over"]
  /\ Decided(d, IF d = "request" /\ failOpen THEN "original" ELSE "error")
  /\ feeding' = [feeding EXCEPT ![d] = FALSE]
  /\ UNCHANGED <<failOpen, hadBody, stage, serverSide, toServer, chunks, newBody, pump, ended>>

(* The reader: the upstream of a request, the client of a response.        *)
ReadsBody(d) ==
  /\ newBody[d] = "reading"
  /\ \/ chunks[d] = 1 /\ chunks' = [chunks EXCEPT ![d] = 0] /\ UNCHANGED newBody
     \/ /\ chunks[d] = 0 /\ ~feeding[d]
        /\ newBody' = [newBody EXCEPT ![d] = "complete"] /\ UNCHANGED chunks
  /\ UNCHANGED <<failOpen, hadBody, stage, serverSide, toServer, handler, verdict,
                 feeding, pump, ended>>

DropsBody(d) ==
  /\ newBody[d] = "reading"
  /\ newBody' = [newBody EXCEPT ![d] = "dropped"] /\ chunks' = [chunks EXCEPT ![d] = 0]
  /\ UNCHANGED <<failOpen, hadBody, stage, serverSide, toServer, handler, verdict,
                 feeding, pump, ended>>

-----------------------------------------------------------------------------

ServerStep == ServerReads \/ \E d \in Direction, a \in Answers : ServerAnswers(d, a)
TaskStep(d) ==
  VerdictIn(d) \/ Pumps(d) \/ HandlerTakes(d) \/ HandlerSends(d) \/ HearsEnd(d) \/ ReadsBody(d)

ProcNext ==
  \/ MutateRequest \/ UpstreamAnswers \/ MutateResponse
  \/ \E s \in {"up", "down"} : Connect(s)
  \/ ServerCloses \/ ServerStep \/ Dispatch \/ ForwardAnswer
  \/ \E d \in Direction : TaskStep(d) \/ DropsBody(d)

(* Every task is polled, the upstream answers or fails, readers read, and  *)
(* the server reads and answers what it reads.                             *)
ProcFairness ==
  /\ WF_procVars(MutateRequest) /\ WF_procVars(UpstreamAnswers) /\ WF_procVars(MutateResponse)
  /\ WF_procVars(\E s \in {"up", "down"} : Connect(s))
  /\ WF_procVars(ServerReads) /\ WF_procVars(Dispatch) /\ WF_procVars(ForwardAnswer)
  /\ \A d \in Direction :
       /\ WF_procVars(VerdictIn(d)) /\ WF_procVars(Pumps(d)) /\ WF_procVars(ReadsBody(d))
       /\ WF_procVars(HandlerTakes(d)) /\ WF_procVars(HandlerSends(d)) /\ WF_procVars(HearsEnd(d))
       /\ WF_procVars(\E a \in {"headers", "last"} : ServerAnswers(d, a))

ProcSpec == ProcInit /\ [][ProcNext]_procVars /\ ProcFairness

-----------------------------------------------------------------------------
(* Properties                                                              *)

(* What goes on under the processor's name was seen by it: a message       *)
(* passes only after its own headers were answered, and an immediate       *)
(* answer replaces the message only when the server gave one.              *)
PassedWasProcessed ==
  \A d \in Direction :
    /\ verdict[d] = "passed" => server[d].answered
    /\ verdict[d] = "immediate" => \E e \in Direction : server[e].last

(* A request that passed unprocessed (fail open) leaves no trace: it goes  *)
(* on in its original form, and the server never sees its response.        *)
UnprocessedStaysSo ==
  verdict["request"] = "original" =>
    /\ failOpen /\ newBody["request"] = "unread"
    /\ server["response"] = Unread /\ verdict["response"] \in {"none", "untouched"}

(* A response is returned without a verdict of the server only then.       *)
OnlyRequestsFailOpen ==
  /\ verdict["response"] # "original"
  /\ verdict["response"] = "untouched" => verdict["request"] = "original"

(* A new body ends where the server ended it, unless the exchange broke    *)
(* off or the server answered at once.                                     *)
BodyEndsWithServer ==
  \A d \in Direction :
    newBody[d] = "complete" /\ link = "up" /\ handler[d] # "panicked" => ended[d]

ExchangesConsistent ==
  /\ ProcTypeOK
  /\ PassedWasProcessed
  /\ UnprocessedStaysSo
  /\ OnlyRequestsFailOpen
  /\ BodyEndsWithServer

(* If the server reads and answers what it reads, in whatever order and    *)
(* with whatever answers, or the exchange breaks, the request is answered, *)
(* and every body that is read comes to its end: no task of the proxy      *)
(* waits for another for ever, although the channels are bounded and one   *)
(* dispatcher feeds both directions.                                       *)
ExchangeEnds ==
  /\ <>(stage = "done")
  /\ \A d \in Direction : newBody[d] = "reading" ~> newBody[d] # "reading"

(* What "fail open" suggests and the code does not do: no request fails    *)
(* because of its processor.                                               *)
FailOpenServes ==
  failOpen => \A d \in Direction : verdict[d] # "error"
=============================================================================
