---------------------------- MODULE McpUpstream -----------------------------
(***************************************************************************)
(* An MCP upstream behind one connection: a child process or a legacy SSE  *)
(* server (agentgateway/src/mcp/upstream/stdio.rs, sse.rs).                *)
(*                                                                         *)
(* One task owns the transport.  Its select loop forwards the messages of  *)
(* a bounded channel, hands responses to the requests that wait for them   *)
(* in a map, everything else to the event stream, if a client opened one,  *)
(* and serves the request to stop.  A handler runs to its end before the   *)
(* loop looks at another branch: while it waits for the upstream to take a *)
(* message, or for room in the event stream, it does nothing else.  An SSE *)
(* connection is made by the first request, under a mutex, and again after *)
(* it was stopped.                                                         *)
(***************************************************************************)
EXTENDS Naturals, Sequences, Functions

CONSTANTS Asker,     \* requests; the ids of a session's requests differ
          OutCap,    \* capacity of the channel to the task: 10 in the code
          EventCap,  \* capacity of the event stream's channel: 10
          MaxNotes,  \* bound on the notifications of the upstream
          MaxLives   \* bound on the connections made one after the other

ASSUME UpstreamAssumption ==
  /\ OutCap \in Nat \ {0} /\ EventCap \in Nat \ {0}
  /\ MaxNotes \in Nat /\ MaxLives \in Nat \ {0}

VARIABLES
  sse,      \* an SSE server, otherwise a child process
  loop,     \* "none", "run", "sending" a message, "handing" an event, "ended"
  life,     \* number of the connection
  pending,  \* connection -> the requests in pending_requests
  asker,    \* request -> where its future is
  lifeOf,   \* request -> the connection it uses
  outbox,   \* requests in the channel to the task
  current,  \* the request the task is sending, until the upstream has it
  received, \* requests the upstream has
  inbox,    \* messages of the upstream: [kind, to]
  notes,    \* notifications it has sent
  events,   \* the event stream: [open, held: messages in its channel]
  stop,     \* the request to stop: "no", "asked", "done", "failed"
  errored   \* history: the requests whose error response was handed over

upstreamVars == <<sse, loop, life, pending, asker, lifeOf, outbox, current,
                  received, inbox, notes, events, stop, errored>>

Kinds == {"response", "error"}
AskerSteps == {"idle", "inserted", "waiting", "answered", "failed", "gone"}

UpstreamTypeOK ==
  /\ sse \in BOOLEAN /\ loop \in {"none", "run", "sending", "handing", "ended"}
  /\ life \in 0 .. MaxLives
  /\ pending \in [0 .. MaxLives -> SUBSET Asker]
  /\ asker \in [Asker -> AskerSteps] /\ lifeOf \in [Asker -> 0 .. MaxLives]
  /\ outbox \in Seq(Asker) /\ Len(outbox) <= OutCap
  /\ current \in {<<>>} \cup {<<a>> : a \in Asker}
  /\ received \in SUBSET Asker
  /\ inbox \in Seq([kind : Kinds, to : Asker] \cup {[kind |-> "note"]})
  /\ notes \in 0 .. MaxNotes
  /\ events \in [open : BOOLEAN, held : 0 .. EventCap]
  /\ stop \in {"no", "asked", "done", "failed"}
  /\ errored \in SUBSET Asker

UpstreamInit ==
  /\ sse \in BOOLEAN
  /\ loop = IF sse THEN "none" ELSE "run"
  /\ life = IF sse THEN 0 ELSE 1
  /\ pending = [n \in 0 .. MaxLives |-> {}]
  /\ asker = [a \in Asker |-> "idle"] /\ lifeOf = [a \in Asker |-> 0]
  /\ outbox = <<>> /\ current = <<>> /\ received = {} /\ inbox = <<>>
  /\ notes = 0 /\ errored = {}
  /\ events = [open |-> FALSE, held |-> 0]
  /\ stop = "no"

AskerTo(a, s) == asker' = [asker EXCEPT ![a] = s]

(* Client::stop keeps the mutex of active_stream while it waits.           *)
StreamFree == ~sse \/ stop # "asked"

-----------------------------------------------------------------------------
(* Requests                                                                *)

(* Client::get_stream: without a connection one is made, or the request    *)
(* fails; a connection whose task has ended is used as if it lived.        *)
EstablishSse(a) ==
  /\ sse /\ StreamFree /\ asker[a] = "idle" /\ loop = "none"
  /\ \/ /\ life < MaxLives
        /\ life' = life + 1 /\ loop' = "run"
        /\ outbox' = <<>> /\ current' = <<>> /\ received' = {} /\ inbox' = <<>>
        /\ events' = [open |-> FALSE, held |-> 0]
        /\ UNCHANGED asker
     \/ AskerTo(a, "failed")
        /\ UNCHANGED <<life, loop, outbox, current, received, inbox, events>>
  /\ UNCHANGED <<sse, pending, lifeOf, notes, stop, errored>>

InsertPending(a) ==
  /\ StreamFree /\ asker[a] = "idle" /\ loop # "none"
  /\ pending' = [pending EXCEPT ![life] = @ \cup {a}]
  /\ lifeOf' = [lifeOf EXCEPT ![a] = life]
  /\ AskerTo(a, "inserted")
  /\ UNCHANGED <<sse, loop, life, outbox, current, received, inbox, notes,
                 events, stop, errored>>

(* The task has ended: the request fails, and its entry stays.             *)
Enqueue(a) ==
  /\ asker[a] = "inserted"
  /\ IF loop \in {"none", "ended"} \/ lifeOf[a] # life
     THEN AskerTo(a, "failed") /\ UNCHANGED outbox
     ELSE /\ Len(outbox) < OutCap
          /\ outbox' = Append(outbox, a) /\ AskerTo(a, "waiting")
  /\ UNCHANGED <<sse, loop, life, pending, lifeOf, received, inbox, notes,
                 events, stop, current, errored>>

(* The client of the request goes away; its entry stays.                   *)
AskerLeaves(a) ==
  /\ asker[a] \in {"inserted", "waiting"}
  /\ AskerTo(a, "gone")
  /\ UNCHANGED <<sse, loop, life, pending, lifeOf, outbox, received, inbox,
                 notes, events, stop, current, errored>>

-----------------------------------------------------------------------------
(* The upstream                                                            *)

Responds(a, k) ==
  /\ loop \in {"run", "sending", "handing"} /\ a \in received
  /\ received' = received \ {a}
  /\ inbox' = Append(inbox, [kind |-> k, to |-> a])
  /\ UNCHANGED <<sse, loop, life, pending, asker, lifeOf, outbox, notes,
                 events, stop, current, errored>>

Notifies ==
  /\ loop \in {"run", "sending", "handing"} /\ notes < MaxNotes
  /\ notes' = notes + 1 /\ inbox' = Append(inbox, [kind |-> "note"])
  /\ UNCHANGED <<sse, loop, life, pending, asker, lifeOf, outbox, received,
                 events, stop, current, errored>>

-----------------------------------------------------------------------------
(* The task                                                                *)

(* send() of the transport: the message has left the channel and the loop  *)
(* waits.  The upstream may have it, and even answer, before send returns. *)
Forward ==
  /\ loop = "run" /\ outbox # <<>>
  /\ current' = <<Head(outbox)>> /\ outbox' = Tail(outbox)
  /\ loop' = "sending"
  /\ UNCHANGED <<sse, life, pending, asker, lifeOf, received, inbox, notes,
                 events, stop, errored>>

Arrives ==
  /\ loop = "sending" /\ current # <<>>
  /\ received' = received \cup {Head(current)} /\ current' = <<>>
  /\ UNCHANGED <<sse, loop, life, pending, asker, lifeOf, outbox, inbox, notes,
                 events, stop, errored>>

SendReturns ==
  /\ loop = "sending" /\ current = <<>>
  /\ loop' = "run"
  /\ UNCHANGED <<sse, life, pending, asker, lifeOf, outbox, current, received,
                 inbox, notes, events, stop, errored>>

(* A transport error breaks the loop; the map lives on in the Process.     *)
SendFails ==
  /\ loop = "sending"
  /\ loop' = "ended" /\ outbox' = <<>> /\ current' = <<>>
  /\ stop' = IF stop = "asked" THEN "failed" ELSE stop
  /\ UNCHANGED <<sse, life, pending, asker, lifeOf, received, inbox, notes,
                 events, errored>>

Deliver ==
  /\ loop = "run" /\ inbox # <<>> /\ Head(inbox).kind = "response"
  /\ inbox' = Tail(inbox)
  /\ LET a == Head(inbox).to IN
       /\ pending' = [pending EXCEPT ![life] = @ \ {a}]
       /\ asker' = IF asker[a] = "waiting" THEN [asker EXCEPT ![a] = "answered"]
                   ELSE asker
  /\ UNCHANGED <<sse, loop, life, lifeOf, outbox, current, received, notes,
                 events, stop, errored>>

\* mutant: an error response clears the entry of its request
HandOverClears ==
  /\ loop = "run" /\ inbox # <<>> /\ Head(inbox).kind # "response"
  /\ inbox' = Tail(inbox)
  /\ pending' = IF Head(inbox).kind = "error"
                THEN [pending EXCEPT ![life] = @ \ {Head(inbox).to}] ELSE pending
  /\ UNCHANGED <<sse, loop, life, asker, lifeOf, outbox, received, notes,
                 events, stop, current, errored>>

(* Everything else, error responses too, goes to the event stream, if      *)
(* there is one: the loop waits while its channel is full.                 *)
HandOver ==
  /\ loop = "run" /\ inbox # <<>> /\ Head(inbox).kind # "response"
  /\ inbox' = Tail(inbox)
  /\ errored' = IF Head(inbox).kind = "error" THEN errored \cup {Head(inbox).to}
                ELSE errored
  /\ IF ~events.open THEN UNCHANGED <<loop, events>>
     ELSE IF events.held < EventCap
          THEN events' = [events EXCEPT !.held = @ + 1] /\ UNCHANGED loop
          ELSE loop' = "handing" /\ UNCHANGED events
  /\ UNCHANGED <<sse, life, pending, asker, lifeOf, outbox, current, received,
                 notes, stop>>

Handed ==
  /\ loop = "handing" /\ (~events.open \/ events.held < EventCap)
  /\ loop' = "run"
  /\ events' = IF events.open THEN [events EXCEPT !.held = @ + 1] ELSE events
  /\ UNCHANGED <<sse, life, pending, asker, lifeOf, outbox, received, inbox,
                 notes, stop, current, errored>>

(* The transport is closed; an SSE client forgets the connection then,     *)
(* unless closing failed.                                                  *)
Shutdown ==
  /\ loop = "run" /\ stop = "asked"
  /\ outbox' = <<>>
  /\ \/ stop' = "done" /\ loop' = IF sse THEN "none" ELSE "ended"
     \/ ~sse /\ stop' = "failed" /\ loop' = "ended"
  /\ UNCHANGED <<sse, life, pending, asker, lifeOf, current, received, inbox,
                 notes, events, errored>>

-----------------------------------------------------------------------------
(* The session                                                             *)

(* Process::stop, Client::stop: an error if the task has ended already.    *)
Stop ==
  /\ stop \in {"no", "done"}
  /\ stop = "done" => sse /\ loop # "none"
  /\ stop' = CASE loop = "none" -> "done" [] loop = "ended" -> "failed"
               [] OTHER -> "asked"
  /\ UNCHANGED <<sse, loop, life, pending, asker, lifeOf, outbox, received,
                 inbox, notes, events, current, errored>>

(* A new event stream replaces the sender of the one before.               *)
OpenEvents ==
  /\ StreamFree /\ loop \in {"run", "sending", "handing"} /\ ~events.open
  /\ events' = [open |-> TRUE, held |-> 0]
  /\ UNCHANGED <<sse, loop, life, pending, asker, lifeOf, outbox, received,
                 inbox, notes, stop, current, errored>>

ReadEvent ==
  /\ events.open /\ events.held > 0
  /\ events' = [events EXCEPT !.held = @ - 1]
  /\ UNCHANGED <<sse, loop, life, pending, asker, lifeOf, outbox, received,
                 inbox, notes, stop, current, errored>>

CloseEvents ==
  /\ events.open
  /\ events' = [open |-> FALSE, held |-> 0]
  /\ UNCHANGED <<sse, loop, life, pending, asker, lifeOf, outbox, received,
                 inbox, notes, stop, current, errored>>

McpUpstreamNext ==
  \/ \E a \in Asker :
       \/ EstablishSse(a) \/ InsertPending(a) \/ Enqueue(a) \/ AskerLeaves(a)
       \/ \E k \in Kinds : Responds(a, k)
  \/ Notifies \/ Forward \/ Arrives \/ SendReturns \/ SendFails
  \/ Deliver \/ HandOver \/ Handed
  \/ Shutdown \/ Stop \/ OpenEvents \/ ReadEvent \/ CloseEvents

(* select! picks among the ready branches at random, so a branch that is   *)
(* ready again and again is taken, and a handler that may go on does.      *)
(* Nothing is assumed of the upstream or of who holds the event stream.    *)
McpUpstreamFairness ==
  /\ SF_upstreamVars(Shutdown) /\ SF_upstreamVars(Deliver)
  /\ SF_upstreamVars(HandOver) /\ WF_upstreamVars(Handed)

McpUpstreamSpec == UpstreamInit /\ [][McpUpstreamNext]_upstreamVars

-----------------------------------------------------------------------------
(* Properties                                                              *)

(* A response is handed to the request it answers: one that is answered    *)
(* has been received by the upstream, which no longer works on it.         *)
AnsweredByUpstream ==
  \A a \in Asker : asker[a] = "answered" /\ lifeOf[a] = life
    => /\ a \notin received
       /\ \A i \in DOMAIN outbox : outbox[i] # a
       /\ \A i \in DOMAIN inbox : inbox[i].kind = "note" \/ inbox[i].to # a

(* The entry of whoever waits is in the map of its connection: nothing but *)
(* its own response takes it out.                                          *)
WaitersAreKnown ==
  \A a \in Asker : asker[a] = "waiting" => a \in pending[lifeOf[a]]

(* No request is lost between the channel, the upstream and the map: one   *)
(* that waits is on its way to the upstream, with it, or its answer is on  *)
(* its way back, unless its connection is over or its answer was an error. *)
WaitersAccounted ==
  \A a \in Asker : asker[a] = "waiting" =>
    \/ lifeOf[a] # life \/ loop \in {"none", "ended"} \/ a \in errored
    \/ a \in Range(outbox) \/ a \in Range(current) \/ a \in received
    \/ \E m \in Range(inbox) : m.kind # "note" /\ m.to = a

(* Responses and the requests that wait for them agree.                    *)
AnswersMatched ==
  /\ UpstreamTypeOK
  /\ AnsweredByUpstream
  /\ WaitersAreKnown
  /\ WaitersAccounted

(* A stop is answered, whatever else is ready in the loop, if no handler   *)
(* is stuck for good: the upstream takes or refuses what it is sent, and   *)
(* who holds the event stream reads it or leaves.                          *)
StopAnswered ==
  []<>(loop \notin {"sending", "handing"}) => (stop = "asked" ~> stop # "asked")

-----------------------------------------------------------------------------
(* What one would expect and the code does not do                          *)

(* A request that is refused by a JSON-RPC error is answered.  The error   *)
(* goes to the event stream, and the entry and the caller stay.            *)
ErrorsReachAskers == \A a \in Asker : asker[a] = "waiting" => a \notin errored

(* A stop is answered even if nobody reads the event stream, or the        *)
(* upstream stops reading.                                                 *)
StopAlwaysAnswered == stop = "asked" ~> stop # "asked"
=============================================================================
