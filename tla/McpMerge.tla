------------------------------ MODULE McpMerge ------------------------------
(***************************************************************************)
(* One MCP request that goes to every upstream of a session: Relay's       *)
(* fan-out (agentgateway/src/mcp/handler.rs) and the stream that merges    *)
(* what the upstreams send (mergestream.rs).                               *)
(*                                                                         *)
(* The upstreams are asked one after the other; one that cannot be asked   *)
(* fails the request.  Then the client polls the merged stream, and each   *)
(* poll looks at the streams in their order: a response ends its stream    *)
(* and is kept for the merge, a failure ends everything, any other message *)
(* is passed on at once.  When no stream is left, the responses are merged *)
(* into one.                                                               *)
(***************************************************************************)
EXTENDS Naturals, FiniteSets, Sequences

CONSTANTS Upstreams,   \* their number: they are numbered in their order
          MaxMessages  \* bound on the messages of an upstream

ASSUME MergeAssumption == Upstreams \in Nat \ {0} /\ MaxMessages \in Nat \ {0}

U == 1 .. Upstreams

VARIABLES
  asked,     \* the upstreams asked so far
  phase,     \* "asking", "refused", "polled", "waiting", "complete"
  cursor,    \* the stream the poll looks at
  pendingSeen, \* the poll has met a stream without a message
  channel,   \* upstream -> its messages not yet taken, in order
  budget,    \* upstream -> messages it may still send
  live,      \* the streams not dropped
  terminal,  \* the upstreams whose response is kept
  merging,   \* a merge function is given; otherwise events are forwarded
  client     \* the messages the client was sent

mergeVars == <<asked, phase, cursor, pendingSeen, channel, budget, live,
               terminal, merging, client>>

(* "end": the stream ends; "fail": it ends with an error of the transport; *)
(* "error" is a JSON-RPC error that answers the request.                   *)
Kind == {"note", "response", "error", "fail", "end"}
Closing == {"fail", "end"}

Message == [kind : Kind \cup {"merged"}, from : SUBSET U]

MergeTypeOK ==
  /\ asked \in 0 .. Upstreams
  /\ phase \in {"asking", "refused", "polled", "waiting", "complete"}
  /\ cursor \in 1 .. Upstreams + 1 /\ pendingSeen \in BOOLEAN
  /\ channel \in [U -> Seq(Kind)] /\ budget \in [U -> 0 .. MaxMessages]
  /\ live \in SUBSET U /\ terminal \in SUBSET U /\ merging \in BOOLEAN
  /\ client \in Seq(Message)

MergeInit ==
  /\ asked = 0 /\ phase = "asking"
  /\ cursor = 1 /\ pendingSeen = FALSE
  /\ channel = [u \in U |-> <<>>] /\ budget = [u \in U |-> MaxMessages]
  /\ live = {} /\ terminal = {}
  /\ merging \in BOOLEAN /\ client = <<>>

-----------------------------------------------------------------------------
(* The fan-out                                                             *)

(* send_fanout, send_fanout_get: one upstream at a time.                   *)
AskNext ==
  /\ phase = "asking" /\ asked < Upstreams
  /\ asked' = asked + 1 /\ live' = live \cup {asked + 1}
  /\ UNCHANGED <<phase, cursor, pendingSeen, channel, budget, terminal,
                 merging, client>>

(* It cannot be reached, or it just accepts: the streams there are, are    *)
(* dropped, and the client gets an error.                                  *)
AskFails ==
  /\ phase = "asking" /\ asked < Upstreams
  /\ phase' = "refused" /\ live' = {}
  /\ client' = <<[kind |-> "fail", from |-> {asked + 1}]>>
  /\ UNCHANGED <<asked, cursor, pendingSeen, channel, budget, terminal, merging>>

AllAsked ==
  /\ phase = "asking" /\ asked = Upstreams
  /\ phase' = "polled"
  /\ UNCHANGED <<asked, cursor, pendingSeen, channel, budget, live, terminal,
                 merging, client>>

(* An upstream that was asked sends: a request is answered once.           *)
Sends(u, k) ==
  /\ u <= asked /\ budget[u] > 0
  /\ channel' = [channel EXCEPT ![u] = Append(@, k)]
  /\ budget' = [budget EXCEPT ![u] = IF k \in Closing THEN 0 ELSE @ - 1]
  /\ UNCHANGED <<asked, phase, cursor, pendingSeen, live, terminal, merging, client>>

-----------------------------------------------------------------------------
(* One poll of the merged stream                                           *)

Polling == phase = "polled" /\ cursor <= Upstreams

Pass == cursor' = cursor + 1

Take == channel' = [channel EXCEPT ![cursor] = Tail(@)]

Tells(k, us) == client' = Append(client, [kind |-> k, from |-> us])

SkipDropped ==
  /\ Polling /\ cursor \notin live
  /\ Pass
  /\ UNCHANGED <<asked, phase, pendingSeen, channel, budget, live, terminal,
                 merging, client>>

MeetsPending ==
  /\ Polling /\ cursor \in live /\ channel[cursor] = <<>>
  /\ pendingSeen' = TRUE /\ Pass
  /\ UNCHANGED <<asked, phase, channel, budget, live, terminal, merging, client>>

TakesResponse ==
  /\ Polling /\ cursor \in live /\ channel[cursor] # <<>>
  /\ Head(channel[cursor]) = "response"
  /\ terminal' = terminal \cup {cursor} /\ live' = live \ {cursor}
  /\ Take /\ Pass
  /\ UNCHANGED <<asked, phase, pendingSeen, budget, merging, client>>

(* "Stream ended without terminal message (shouldn't happen in this        *)
(* design)": it is left out of the merge.                                  *)
TakesEnd ==
  /\ Polling /\ cursor \in live /\ channel[cursor] # <<>>
  /\ Head(channel[cursor]) = "end"
  /\ live' = live \ {cursor}
  /\ Take /\ Pass
  /\ UNCHANGED <<asked, phase, pendingSeen, budget, terminal, merging, client>>

\* mutant: the failure is passed on and the other streams are polled on
TakesFailureOn ==
  /\ Polling /\ cursor \in live /\ channel[cursor] # <<>>
  /\ Head(channel[cursor]) = "fail"
  /\ live' = live \ {cursor} /\ Tells("fail", {cursor})
  /\ cursor' = 1 /\ pendingSeen' = FALSE
  /\ Take
  /\ UNCHANGED <<asked, phase, budget, terminal, merging>>

TakesFailure ==
  /\ Polling /\ cursor \in live /\ channel[cursor] # <<>>
  /\ Head(channel[cursor]) = "fail"
  /\ phase' = "complete" /\ Tells("fail", {cursor})
  /\ Take
  /\ UNCHANGED <<asked, cursor, pendingSeen, budget, live, terminal, merging>>

(* The poll returns with it; the next one starts from the first stream.    *)
TakesOther ==
  /\ Polling /\ cursor \in live /\ channel[cursor] # <<>>
  /\ Head(channel[cursor]) \in {"note", "error"}
  /\ Tells(Head(channel[cursor]), {cursor})
  /\ cursor' = 1 /\ pendingSeen' = FALSE
  /\ Take
  /\ UNCHANGED <<asked, phase, budget, live, terminal, merging>>

PollPending ==
  /\ phase = "polled" /\ cursor > Upstreams /\ pendingSeen
  /\ phase' = "waiting"
  /\ UNCHANGED <<asked, cursor, pendingSeen, channel, budget, live, terminal,
                 merging, client>>

(* A stream that was pending has a message: the task is woken.             *)
Woken ==
  /\ phase = "waiting" /\ \E u \in live : channel[u] # <<>>
  /\ phase' = "polled" /\ cursor' = 1 /\ pendingSeen' = FALSE
  /\ UNCHANGED <<asked, channel, budget, live, terminal, merging, client>>

MergeTerminal ==
  /\ phase = "polled" /\ cursor > Upstreams /\ ~pendingSeen
  /\ phase' = "complete"
  /\ IF merging THEN Tells("merged", terminal) ELSE UNCHANGED client
  /\ UNCHANGED <<asked, cursor, pendingSeen, channel, budget, live, terminal,
                 merging>>

PollStep ==
  \/ SkipDropped \/ MeetsPending \/ TakesResponse \/ TakesEnd
  \/ TakesFailure \/ TakesOther \/ PollPending \/ Woken \/ MergeTerminal

MergeNext ==
  \/ AskNext \/ AskFails \/ AllAsked
  \/ \E u \in U, k \in Kind : Sends(u, k)
  \/ PollStep

(* The client's connection polls the body of its response.                 *)
MergeFairness == WF_mergeVars(PollStep)

MergeSpec == MergeInit /\ [][MergeNext]_mergeVars

-----------------------------------------------------------------------------
(* Properties                                                              *)

Messages(k) == {i \in DOMAIN client : client[i].kind = k}

(* A merged answer leaves no upstream out that answered, or still may.     *)
MergedIsWhole ==
  \A i \in Messages("merged"), u \in U :
    u \notin client[i].from
      => budget[u] = 0 /\ \A j \in DOMAIN channel[u] : channel[u][j] # "response"

(* A merged answer and a failure exclude each other, and nothing follows   *)
(* either of them.                                                         *)
OneEnd ==
  \A i \in Messages("merged") \cup Messages("fail") : i = Len(client)

(* The client's stream has one end, and it stands for every upstream.      *)
MergeConsistent ==
  /\ MergeTypeOK
  /\ MergedIsWhole
  /\ OneEnd

Settles(u) ==
  \E j \in DOMAIN channel[u] : channel[u][j] \in Closing \cup {"response"}

(* When every upstream has answered or ended, the client's stream ends.    *)
StreamCompletes ==
  (phase \in {"polled", "waiting"} /\ \A u \in live : Settles(u))
    ~> phase = "complete"

(* The responses "may include any number of notifications on the same HTTP *)
(* response, and then finish with the response to the request": what       *)
(* answers the request comes last.                                         *)
FinishesWithAnswer ==
  \A i \in Messages("error") \cup Messages("merged") : i = Len(client)
=============================================================================
