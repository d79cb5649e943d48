--------------------------- MODULE Streams_proofs ---------------------------
(***************************************************************************)
(* Proofs about callers that share a connection: the connection to one MCP *)
(* upstream, the stream that merges many, a request and its response on    *)
(* their way through an external processor, and the pool of the client.    *)
(***************************************************************************)
EXTENDS McpUpstream, McpMerge, ClientPool, ExtProc, Integers,
        FiniteSetTheorems, WellFoundedInduction, TLAPS

-----------------------------------------------------------------------------
(***************************************************************************)
(* McpUpstream, for any requests, capacities, notifications and lives.     *)
(***************************************************************************)

InboxMessage == [kind : Kinds, to : Asker] \cup {[kind |-> "note"]}

(* What is on its way belongs to the connection there is, is on its way    *)
(* once, and to a request that waits or has gone; so an answer does not    *)
(* take the entry of a request that is still to be sent.                   *)
UnderWay(a) == asker[a] \in {"waiting", "gone"} /\ lifeOf[a] = life

OutboxInOrder ==
  \A i \in 1..Len(outbox) :
    /\ UnderWay(outbox[i]) /\ outbox[i] \notin received
    /\ \A j \in 1..Len(outbox) : outbox[j] = outbox[i] => j = i

InboxInOrder ==
  \A i \in 1..Len(inbox) : inbox[i].kind # "note" =>
    /\ UnderWay(inbox[i].to) /\ inbox[i].to \notin received
    /\ \A j \in 1..Len(outbox) : outbox[j] # inbox[i].to
    /\ \A j \in 1..Len(inbox) : inbox[j].kind # "note" /\ inbox[j].to = inbox[i].to => j = i

CurrentInOrder ==
  \A c \in Asker : current = <<c>> =>
    /\ loop = "sending" /\ UnderWay(c) /\ c \notin received
    /\ \A j \in 1..Len(outbox) : outbox[j] # c
    /\ \A j \in 1..Len(inbox) : inbox[j].kind # "note" => inbox[j].to # c

UpstreamInvariant ==
  /\ UpstreamTypeOK
  /\ OutboxInOrder /\ CurrentInOrder /\ InboxInOrder
  /\ \A a \in received : UnderWay(a)
  /\ \A a \in Asker : asker[a] \in {"inserted", "waiting"} => a \in pending[lifeOf[a]]
  /\ \A a \in Asker : lifeOf[a] <= life

LEMMA UpstreamBounds ==
  /\ OutCap \in Nat /\ OutCap > 0 /\ EventCap \in Nat /\ EventCap > 0
  /\ MaxNotes \in Nat /\ MaxLives \in Nat /\ MaxLives > 0
BY UpstreamAssumption

LEMMA UpstreamInvariantInit == UpstreamInit => UpstreamInvariant
BY UpstreamBounds
   DEF UpstreamInit, UpstreamInvariant, UpstreamTypeOK, OutboxInOrder, CurrentInOrder,
       InboxInOrder, AskerSteps

LEMMA InboxHead ==
  ASSUME UpstreamTypeOK, inbox # <<>>
  PROVE  /\ Head(inbox) = inbox[1] /\ Len(inbox) \in Nat /\ Len(inbox) > 0
         /\ inbox[1] \in InboxMessage /\ inbox \in Seq(InboxMessage)
         /\ Tail(inbox) \in Seq(InboxMessage) /\ Len(Tail(inbox)) = Len(inbox) - 1
         /\ \A i \in 1..Len(Tail(inbox)) : Tail(inbox)[i] = inbox[i + 1] /\ i + 1 \in 1..Len(inbox)
BY DEF UpstreamTypeOK, InboxMessage

LEMMA ToAsker ==
  ASSUME NEW m \in InboxMessage, m.kind # "note"
  PROVE  m.to \in Asker
BY DEF InboxMessage

(* A request's own step, while it is not under way.                        *)
LEMMA AskerMoves ==
  ASSUME UpstreamInvariant, NEW a \in Asker, asker[a] \in {"idle", "inserted"},
         NEW s \in AskerSteps, asker' = [asker EXCEPT ![a] = s],
         lifeOf' \in [Asker -> 0 .. MaxLives],
         \A b \in Asker : b # a => lifeOf'[b] = lifeOf[b],
         UNCHANGED <<life, loop, inbox, received, current>>,
         \/ UNCHANGED outbox
         \/ /\ s = "waiting" /\ outbox' = Append(outbox, a) /\ lifeOf'[a] = life
            /\ Len(outbox) < OutCap
  PROVE  /\ OutboxInOrder' /\ CurrentInOrder' /\ InboxInOrder'
         /\ \A b \in received' : UnderWay(b)'
         /\ asker' \in [Asker -> AskerSteps] /\ outbox' \in Seq(Asker) /\ Len(outbox') <= OutCap
<1>1. /\ asker \in [Asker -> AskerSteps] /\ outbox \in Seq(Asker) /\ Len(outbox) <= OutCap
      /\ received \in SUBSET Asker /\ inbox \in Seq(InboxMessage)
      /\ Len(outbox) \in Nat
  BY DEF UpstreamInvariant, UpstreamTypeOK, InboxMessage
<1>2. /\ asker' \in [Asker -> AskerSteps] /\ asker'[a] = s
      /\ \A b \in Asker : b # a => asker'[b] = asker[b]
  BY <1>1
<1>3. /\ a \notin received /\ \A i \in 1..Len(outbox) : outbox[i] # a /\ outbox[i] \in Asker
      /\ \A i \in 1..Len(inbox) : inbox[i].kind # "note" => inbox[i].to # a
      /\ current # <<a>>
  BY <1>1 DEF UpstreamInvariant, OutboxInOrder, CurrentInOrder, InboxInOrder, UnderWay
<1>4. \A i \in 1..Len(inbox) : inbox[i].kind # "note" => inbox[i].to \in Asker
  <2>1. \A i \in 1..Len(inbox) : inbox[i] \in InboxMessage
    BY <1>1
  <2> QED  BY <2>1, ToAsker
<1>5. \A b \in Asker : b # a /\ UnderWay(b) => UnderWay(b)'
  BY <1>2 DEF UnderWay
<1>6. \A b \in received' : UnderWay(b)'
  BY <1>1, <1>3, <1>5 DEF UpstreamInvariant
<1>7. CASE UNCHANGED outbox
  <2>1. OutboxInOrder'
    BY <1>3, <1>5, <1>7 DEF UpstreamInvariant, OutboxInOrder
  <2>2. InboxInOrder'
    BY <1>3, <1>4, <1>5, <1>7 DEF UpstreamInvariant, InboxInOrder
  <2>3. CurrentInOrder'
    BY <1>3, <1>5, <1>7 DEF UpstreamInvariant, CurrentInOrder
  <2> QED  BY <1>1, <1>2, <1>6, <1>7, <2>1, <2>2, <2>3
<1>8. CASE /\ s = "waiting" /\ outbox' = Append(outbox, a) /\ lifeOf'[a] = life
           /\ Len(outbox) < OutCap
  <2>1. /\ outbox' \in Seq(Asker) /\ Len(outbox') = Len(outbox) + 1
        /\ \A i \in 1..Len(outbox') : \/ i \in 1..Len(outbox) /\ outbox'[i] = outbox[i]
                                      \/ i = Len(outbox) + 1 /\ outbox'[i] = a
    BY <1>1, <1>8
  <2>2. UnderWay(a)'
    BY <1>2, <1>8 DEF UnderWay
  <2>3. ASSUME NEW i \in 1..Len(outbox')
        PROVE  /\ asker'[outbox'[i]] \in {"waiting", "gone"} /\ lifeOf'[outbox'[i]] = life'
               /\ outbox'[i] \notin received'
               /\ \A j \in 1..Len(outbox') : outbox'[j] = outbox'[i] => j = i
    <3>1. CASE i \in 1..Len(outbox) /\ outbox'[i] = outbox[i]
      <4>1. UnderWay(outbox[i]) /\ outbox[i] \notin received
        BY <3>1 DEF UpstreamInvariant, OutboxInOrder
      <4>2. UnderWay(outbox[i])' /\ UNCHANGED received
        BY <1>3, <1>5, <3>1, <4>1
      <4>3. \A j \in 1..Len(outbox') : outbox'[j] = outbox'[i] => j = i
        BY <1>3, <2>1, <3>1 DEF UpstreamInvariant, OutboxInOrder
      <4> QED  BY <3>1, <4>1, <4>2, <4>3 DEF UnderWay
    <3>2. CASE i = Len(outbox) + 1 /\ outbox'[i] = a
      BY <1>3, <2>1, <2>2, <3>2 DEF UnderWay
    <3> QED  BY <2>1, <3>1, <3>2
  <2>4. InboxInOrder'
    <3>1. ASSUME NEW i \in 1..Len(inbox), inbox[i].kind # "note"
          PROVE  \A j \in 1..Len(outbox') : outbox'[j] # inbox[i].to
      BY <1>3, <2>1, <3>1 DEF UpstreamInvariant, InboxInOrder
    <3> QED  BY <1>3, <1>4, <1>5, <3>1 DEF UpstreamInvariant, InboxInOrder
  <2>5. OutboxInOrder'
    BY <2>3 DEF OutboxInOrder, UnderWay
  <2>6. Len(outbox') <= OutCap
    BY <1>1, <1>8, <2>1, UpstreamBounds
  <2>7. CurrentInOrder'
    <3>1. ASSUME NEW c \in Asker, current = <<c>>
          PROVE  /\ loop' = "sending" /\ UnderWay(c)' /\ c \notin received'
                 /\ \A j \in 1..Len(outbox') : outbox'[j] # c
                 /\ \A j \in 1..Len(inbox') : inbox'[j].kind # "note" => inbox'[j].to # c
      <4>1. c # a
        BY <1>3, <3>1
      <4>2. /\ loop = "sending" /\ UnderWay(c) /\ c \notin received
            /\ \A j \in 1..Len(outbox) : outbox[j] # c
            /\ \A j \in 1..Len(inbox) : inbox[j].kind # "note" => inbox[j].to # c
        BY <3>1 DEF UpstreamInvariant, CurrentInOrder
      <4> QED  BY <1>5, <2>1, <4>1, <4>2
    <3> QED  BY <3>1 DEF CurrentInOrder
  <2> QED  BY <1>2, <1>6, <2>1, <2>4, <2>5, <2>6, <2>7
<1> QED  BY <1>7, <1>8

LEMMA UpstreamStep ==
  ASSUME UpstreamInvariant, [McpUpstreamNext]_upstreamVars
  PROVE  UpstreamInvariant'
<1> USE UpstreamBounds
<1> DEFINE Known == /\ \A a \in Asker : asker[a] \in {"inserted", "waiting"} => a \in pending[lifeOf[a]]
                    /\ \A a \in Asker : lifeOf[a] <= life
<1>1. /\ UpstreamTypeOK /\ OutboxInOrder /\ CurrentInOrder /\ InboxInOrder /\ Known
      /\ \A a \in received : UnderWay(a)
      /\ inbox \in Seq(InboxMessage) /\ Len(inbox) \in Nat /\ Len(outbox) \in Nat
      /\ \A i \in 1..Len(inbox) : inbox[i] \in InboxMessage
      /\ \A i \in 1..Len(inbox) : inbox[i].kind # "note" => inbox[i].to \in Asker
      /\ \A i \in 1..Len(outbox) : outbox[i] \in Asker
  <2>1. inbox \in Seq(InboxMessage) /\ \A i \in 1..Len(inbox) : inbox[i] \in InboxMessage
    BY DEF UpstreamInvariant, UpstreamTypeOK, InboxMessage
  <2>2. \A i \in 1..Len(inbox) : inbox[i].kind # "note" => inbox[i].to \in Asker
    BY <2>1, ToAsker
  <2> QED  BY <2>1, <2>2 DEF UpstreamInvariant, UpstreamTypeOK
<1>2. ASSUME UNCHANGED <<asker, lifeOf, life, outbox, current, received, inbox, pending>>,
             UpstreamTypeOK', current = <<>> \/ UNCHANGED loop
      PROVE  UpstreamInvariant'
  BY <1>1, <1>2 DEF UpstreamInvariant, OutboxInOrder, CurrentInOrder, InboxInOrder, UnderWay
<1>3. ASSUME NEW a \in Asker, EstablishSse(a)  PROVE UpstreamInvariant'
  <2>1. CASE asker' = [asker EXCEPT ![a] = "failed"] /\ UNCHANGED <<life, loop, outbox, current, received, inbox, events>>
    <3>1. /\ OutboxInOrder' /\ CurrentInOrder' /\ InboxInOrder'
          /\ \A b \in received' : UnderWay(b)'
          /\ asker' \in [Asker -> AskerSteps]
      BY <1>1, <1>3, <2>1, AskerMoves DEF EstablishSse, UpstreamTypeOK, AskerSteps
    <3>2. Known'
      BY <1>1, <1>3, <2>1 DEF EstablishSse, UpstreamTypeOK
    <3>3. UpstreamTypeOK'
      BY <1>1, <1>3, <2>1, <3>1 DEF EstablishSse, UpstreamTypeOK
    <3> QED  BY <3>1, <3>2, <3>3 DEF UpstreamInvariant
  <2>2. CASE outbox' = <<>> /\ current' = <<>> /\ received' = {} /\ inbox' = <<>> /\ UNCHANGED asker
             /\ life < MaxLives /\ life' = life + 1 /\ loop' = "run"
             /\ events' = [open |-> FALSE, held |-> 0]
    <3>1. UpstreamTypeOK'
      BY <1>1, <1>3, <2>2 DEF EstablishSse, UpstreamTypeOK
    <3>2. /\ OutboxInOrder' /\ CurrentInOrder' /\ InboxInOrder'
          /\ \A b \in received' : UnderWay(b)'
      BY <2>2 DEF OutboxInOrder, CurrentInOrder, InboxInOrder
    <3>3. Known'
      <4>1. \A b \in Asker : lifeOf[b] \in Nat /\ life \in Nat
        BY <1>1 DEF UpstreamTypeOK
      <4>2. \A b \in Asker : lifeOf[b] <= life + 1
        BY <1>1, <4>1
      <4> QED  BY <1>1, <1>3, <2>2, <4>2 DEF EstablishSse
    <3> QED  BY <3>1, <3>2, <3>3 DEF UpstreamInvariant
  <2> QED  BY <1>3, <2>1, <2>2 DEF EstablishSse, AskerTo
<1>4. ASSUME NEW a \in Asker, InsertPending(a)  PROVE UpstreamInvariant'
  <2>1. /\ asker[a] = "idle" /\ asker' = [asker EXCEPT ![a] = "inserted"]
        /\ lifeOf' = [lifeOf EXCEPT ![a] = life]
        /\ pending' = [pending EXCEPT ![life] = @ \cup {a}]
        /\ UNCHANGED <<sse, loop, life, outbox, current, received, inbox, notes, events, stop, errored>>
    BY <1>4 DEF InsertPending, AskerTo
  <2>2. lifeOf' \in [Asker -> 0 .. MaxLives] /\ \A b \in Asker : b # a => lifeOf'[b] = lifeOf[b]
    BY <1>1, <2>1 DEF UpstreamTypeOK
  <2>3. /\ OutboxInOrder' /\ CurrentInOrder' /\ InboxInOrder'
        /\ \A b \in received' : UnderWay(b)'
        /\ asker' \in [Asker -> AskerSteps]
    BY <2>1, <2>2, AskerMoves DEF AskerSteps
  <2>4. UpstreamTypeOK'
    <3>1. pending' \in [0 .. MaxLives -> SUBSET Asker]
      BY <1>1, <2>1 DEF UpstreamTypeOK
    <3> QED  BY <1>1, <2>1, <2>2, <2>3, <3>1 DEF UpstreamTypeOK
  <2>5. Known'
    BY <1>1, <2>1 DEF UpstreamTypeOK
  <2> QED  BY <2>3, <2>4, <2>5 DEF UpstreamInvariant
<1>5. ASSUME NEW a \in Asker, Enqueue(a)  PROVE UpstreamInvariant'
  <2>1. /\ asker[a] = "inserted"
        /\ UNCHANGED <<sse, loop, life, pending, lifeOf, current, received, inbox, notes, events, stop, errored>>
    BY <1>5 DEF Enqueue
  <2>2. PICK s \in {"failed", "waiting"} :
          /\ asker' = [asker EXCEPT ![a] = s]
          /\ \/ s = "failed" /\ UNCHANGED outbox
             \/ /\ s = "waiting" /\ outbox' = Append(outbox, a) /\ lifeOf[a] = life
                /\ Len(outbox) < OutCap
    BY <1>5 DEF Enqueue, AskerTo
  <2>3. lifeOf' \in [Asker -> 0 .. MaxLives]
    BY <1>1, <2>1 DEF UpstreamTypeOK
  <2>4. /\ OutboxInOrder' /\ CurrentInOrder' /\ InboxInOrder'
        /\ \A b \in received' : UnderWay(b)'
        /\ asker' \in [Asker -> AskerSteps] /\ outbox' \in Seq(Asker) /\ Len(outbox') <= OutCap
    <3>1. CASE s = "failed" /\ UNCHANGED outbox
      BY <1>1, <2>1, <2>2, <2>3, <3>1, AskerMoves DEF AskerSteps
    <3>2. CASE s = "waiting" /\ outbox' = Append(outbox, a) /\ lifeOf[a] = life
               /\ Len(outbox) < OutCap
      BY <1>1, <2>1, <2>2, <2>3, <3>2, AskerMoves DEF AskerSteps
    <3> QED  BY <2>2, <3>1, <3>2
  <2>5. UpstreamTypeOK'
    BY <1>1, <2>1, <2>4 DEF UpstreamTypeOK
  <2>6. Known'
    BY <1>1, <2>1, <2>2 DEF UpstreamTypeOK
  <2> QED  BY <2>4, <2>5, <2>6 DEF UpstreamInvariant
<1>6. ASSUME NEW a \in Asker, AskerLeaves(a)  PROVE UpstreamInvariant'
  <2>1. /\ asker[a] \in {"inserted", "waiting"} /\ asker' = [asker EXCEPT ![a] = "gone"]
        /\ UNCHANGED <<sse, loop, life, pending, lifeOf, outbox, current, received, inbox, notes, events, stop, errored>>
    BY <1>6 DEF AskerLeaves, AskerTo
  <2>2. asker' \in [Asker -> AskerSteps] /\ asker'[a] = "gone"
        /\ \A b \in Asker : b # a => asker'[b] = asker[b]
    BY <1>1, <2>1 DEF UpstreamTypeOK, AskerSteps
  <2>3. \A b \in Asker : UnderWay(b) => UnderWay(b)'
    BY <2>1, <2>2 DEF UnderWay
  <2>4. /\ OutboxInOrder' /\ CurrentInOrder' /\ InboxInOrder'
        /\ \A b \in received' : UnderWay(b)'
    BY <1>1, <2>1, <2>3 DEF OutboxInOrder, CurrentInOrder, InboxInOrder, UpstreamTypeOK
  <2>5. UpstreamTypeOK'
    BY <1>1, <2>1, <2>2 DEF UpstreamTypeOK
  <2>6. Known'
    BY <1>1, <2>1, <2>2
  <2> QED  BY <2>4, <2>5, <2>6 DEF UpstreamInvariant
<1>7. ASSUME NEW m \in InboxMessage, inbox' = Append(inbox, m),
             m.kind # "note" => m.to \in received /\ received' = received \ {m.to},
             m.kind = "note" => received' = received,
             notes' \in 0 .. MaxNotes,
             UNCHANGED <<sse, loop, life, pending, asker, lifeOf, outbox, current, events, stop, errored>>
      PROVE  UpstreamInvariant'
  <2>1. /\ inbox' \in Seq(InboxMessage) /\ Len(inbox') = Len(inbox) + 1
        /\ \A i \in 1..Len(inbox') : \/ i \in 1..Len(inbox) /\ inbox'[i] = inbox[i]
                                     \/ i = Len(inbox) + 1 /\ inbox'[i] = m
    BY <1>1, <1>7
  <2>2. received' \subseteq received /\ received \subseteq Asker
    BY <1>1, <1>7 DEF UpstreamTypeOK
  <2>3. OutboxInOrder'
    BY <1>1, <1>7, <2>2 DEF OutboxInOrder, UnderWay
  <2>4. InboxInOrder'
    <3>1. ASSUME m.kind # "note"
          PROVE  /\ UnderWay(m.to) /\ m.to \notin received'
                 /\ \A j \in 1..Len(outbox) : outbox[j] # m.to
                 /\ \A j \in 1..Len(inbox) : inbox[j].kind # "note" => inbox[j].to # m.to
      BY <1>1, <1>7, <3>1 DEF OutboxInOrder, InboxInOrder
    <3>2. ASSUME NEW i \in 1..Len(inbox'), inbox'[i].kind # "note"
          PROVE  /\ UnderWay(inbox'[i].to) /\ inbox'[i].to \notin received'
                 /\ \A j \in 1..Len(outbox) : outbox[j] # inbox'[i].to
                 /\ \A j \in 1..Len(inbox') :
                      inbox'[j].kind # "note" /\ inbox'[j].to = inbox'[i].to => j = i
      <4>1. CASE i \in 1..Len(inbox) /\ inbox'[i] = inbox[i]
        BY <1>1, <2>1, <2>2, <3>1, <3>2, <4>1 DEF InboxInOrder
      <4>2. CASE i = Len(inbox) + 1 /\ inbox'[i] = m
        BY <1>1, <2>1, <3>1, <3>2, <4>2
      <4> QED  BY <2>1, <4>1, <4>2
    <3> QED  BY <1>7, <3>2 DEF InboxInOrder, UnderWay
  <2>5. UpstreamTypeOK'
    BY <1>1, <1>7, <2>1, <2>2 DEF UpstreamTypeOK, InboxMessage
  <2>6. Known'
    BY <1>1, <1>7
  <2>7. \A b \in received' : UnderWay(b)'
    BY <1>1, <1>7, <2>2 DEF UnderWay
  <2>8. CurrentInOrder'
    <3>1. ASSUME NEW c \in Asker, current = <<c>>
          PROVE  /\ loop = "sending" /\ UnderWay(c) /\ c \notin received'
                 /\ \A j \in 1..Len(outbox) : outbox[j] # c
                 /\ \A j \in 1..Len(inbox') : inbox'[j].kind # "note" => inbox'[j].to # c
      <4>1. /\ loop = "sending" /\ UnderWay(c) /\ c \notin received
            /\ \A j \in 1..Len(outbox) : outbox[j] # c
            /\ \A j \in 1..Len(inbox) : inbox[j].kind # "note" => inbox[j].to # c
        BY <1>1, <3>1 DEF CurrentInOrder
      <4>2. m.kind # "note" => m.to # c
        BY <1>7, <4>1
      <4> QED  BY <2>1, <2>2, <4>1, <4>2
    <3> QED  BY <1>7, <3>1 DEF CurrentInOrder, UnderWay
  <2> QED  BY <2>3, <2>4, <2>5, <2>6, <2>7, <2>8 DEF UpstreamInvariant
<1>8. ASSUME NEW a \in Asker, NEW k \in Kinds, Responds(a, k)  PROVE UpstreamInvariant'
  <2> DEFINE m == [kind |-> k, to |-> a]
  <2>1. m \in InboxMessage /\ m.kind # "note" /\ m.to = a
    BY DEF InboxMessage, Kinds
  <2>2. inbox' = Append(inbox, m) /\ a \in received /\ received' = received \ {a}
    BY <1>8 DEF Responds
  <2>3. notes' \in 0 .. MaxNotes
        /\ UNCHANGED <<sse, loop, life, pending, asker, lifeOf, outbox, current, events, stop, errored>>
    BY <1>1, <1>8 DEF Responds, UpstreamTypeOK
  <2> HIDE DEF m
  <2> QED  BY <1>7, <2>1, <2>2, <2>3
<1>9. CASE Notifies
  <2> DEFINE m == [kind |-> "note"]
  <2>1. m \in InboxMessage /\ m.kind = "note"
    BY DEF InboxMessage
  <2>2. inbox' = Append(inbox, m) /\ received' = received /\ notes' \in 0 .. MaxNotes
        /\ UNCHANGED <<sse, loop, life, pending, asker, lifeOf, outbox, current, events, stop, errored>>
    BY <1>1, <1>9 DEF Notifies, UpstreamTypeOK
  <2> HIDE DEF m
  <2> QED  BY <1>7, <2>1, <2>2
<1>10. CASE Forward
  <2> DEFINE h == Head(outbox)
  <2>1. /\ outbox # <<>> /\ current' = <<h>> /\ outbox' = Tail(outbox)
        /\ loop' = "sending" /\ loop = "run"
        /\ UNCHANGED <<sse, life, pending, asker, lifeOf, received, inbox, notes, events, stop,
                       errored>>
    BY <1>10 DEF Forward
  <2>2. /\ h = outbox[1] /\ 1 \in 1..Len(outbox) /\ outbox' \in Seq(Asker)
        /\ Len(outbox') = Len(outbox) - 1
        /\ \A i \in 1..Len(outbox') : outbox'[i] = outbox[i + 1] /\ i + 1 \in 1..Len(outbox) /\ i + 1 # 1
    BY <1>1, <2>1 DEF UpstreamTypeOK
  <2> HIDE DEF h
  <2>3. /\ h \in Asker /\ UnderWay(h) /\ h \notin received
        /\ \A i \in 1..Len(inbox) : inbox[i].kind # "note" => inbox[i].to # h
    BY <1>1, <2>2 DEF OutboxInOrder, InboxInOrder
  <2>4. OutboxInOrder' /\ \A i \in 1..Len(outbox') : outbox'[i] # h
    <3>1. ASSUME NEW i \in 1..Len(outbox')
          PROVE  /\ UnderWay(outbox'[i]) /\ outbox'[i] \notin received /\ outbox'[i] # h
                 /\ \A j \in 1..Len(outbox') : outbox'[j] = outbox'[i] => j = i
      <4>1. UnderWay(outbox'[i]) /\ outbox'[i] \notin received /\ outbox'[i] # h
        BY <1>1, <2>2 DEF OutboxInOrder
      <4>2. ASSUME NEW j \in 1..Len(outbox'), outbox'[j] = outbox'[i]  PROVE j = i
        <5>1. j + 1 = i + 1
          BY <1>1, <2>2, <4>2 DEF OutboxInOrder
        <5> QED  BY <5>1
      <4> QED  BY <4>1, <4>2
    <3> QED  BY <2>1, <3>1 DEF OutboxInOrder, UnderWay
  <2>5. InboxInOrder'
    BY <1>1, <2>1, <2>2 DEF InboxInOrder, UnderWay
  <2>6. CurrentInOrder'
    <3>1. \A c : <<h>> = <<c>> => c = h
      OBVIOUS
    <3> QED  BY <2>1, <2>3, <2>4, <3>1 DEF CurrentInOrder, UnderWay
  <2>7. UpstreamTypeOK'
    <3>1. Len(outbox') <= OutCap
      BY <1>1, <2>2 DEF UpstreamTypeOK
    <3>2. current' \in {<<>>} \cup {<<c>> : c \in Asker}
      BY <2>1, <2>3
    <3> QED  BY <1>1, <2>1, <2>2, <3>1, <3>2 DEF UpstreamTypeOK
  <2>8. Known' /\ \A b \in received' : UnderWay(b)'
    BY <1>1, <2>1, <2>3 DEF UnderWay
  <2> QED  BY <2>4, <2>5, <2>6, <2>7, <2>8 DEF UpstreamInvariant
<1>21. CASE Arrives
  <2>1. PICK c \in Asker : current = <<c>>
    BY <1>1, <1>21 DEF Arrives, UpstreamTypeOK
  <2>2. Head(current) = c
    BY <2>1
  <2>3. /\ received' = received \cup {c} /\ current' = <<>>
        /\ UNCHANGED <<sse, loop, life, pending, asker, lifeOf, outbox, inbox, notes, events, stop,
                       errored>>
    BY <1>21, <2>2 DEF Arrives
  <2>4. /\ UnderWay(c) /\ \A j \in 1..Len(outbox) : outbox[j] # c
        /\ \A j \in 1..Len(inbox) : inbox[j].kind # "note" => inbox[j].to # c
    BY <1>1, <2>1 DEF CurrentInOrder
  <2>5. OutboxInOrder' /\ InboxInOrder'
    BY <1>1, <2>3, <2>4 DEF OutboxInOrder, InboxInOrder, UnderWay
  <2>6. CurrentInOrder'
    <3>1. \A b \in Asker : <<b>> # <<>>
      OBVIOUS
    <3> QED  BY <2>3, <3>1 DEF CurrentInOrder
  <2>7. UpstreamTypeOK'
    BY <1>1, <2>3 DEF UpstreamTypeOK
  <2>8. Known' /\ \A b \in received' : UnderWay(b)'
    BY <1>1, <2>3, <2>4 DEF UnderWay
  <2> QED  BY <2>5, <2>6, <2>7, <2>8 DEF UpstreamInvariant
<1>22. CASE SendReturns
  <2>1. UpstreamTypeOK'
    BY <1>1, <1>22 DEF SendReturns, UpstreamTypeOK
  <2> QED  BY <1>2, <1>22, <2>1 DEF SendReturns
<1>11. CASE SendFails \/ Shutdown
  <2>1. /\ outbox' = <<>>
        /\ UNCHANGED <<sse, life, pending, asker, lifeOf, received, inbox, notes, events, errored>>
    BY <1>11 DEF SendFails, Shutdown
  <2>2. /\ loop' \in {"none", "run", "sending", "handing", "ended"}
        /\ stop' \in {"no", "asked", "done", "failed"}
    BY <1>1, <1>11 DEF SendFails, Shutdown, UpstreamTypeOK
  <2>3. current' = <<>>
    <3>1. \A c \in Asker : current = <<c>> => loop = "sending"
      BY <1>1 DEF CurrentInOrder
    <3> QED  BY <1>1, <1>11, <3>1 DEF SendFails, Shutdown, UpstreamTypeOK
  <2>4. UpstreamTypeOK'
    BY <1>1, <2>1, <2>2, <2>3 DEF UpstreamTypeOK
  <2>5. OutboxInOrder' /\ InboxInOrder'
    BY <1>1, <2>1 DEF OutboxInOrder, InboxInOrder, UnderWay
  <2>6. CurrentInOrder'
    <3>1. \A b \in Asker : <<b>> # <<>>
      OBVIOUS
    <3> QED  BY <2>3, <3>1 DEF CurrentInOrder
  <2> QED  BY <1>1, <2>1, <2>4, <2>5, <2>6 DEF UpstreamInvariant, UnderWay
<1>23. ASSUME loop = "run"  PROVE current = <<>>
  BY <1>1, <1>23 DEF CurrentInOrder, UpstreamTypeOK
<1>12. ASSUME inbox # <<>>, inbox' = Tail(inbox)
       PROVE  /\ inbox' \in Seq(InboxMessage) /\ Len(inbox') = Len(inbox) - 1
              /\ Head(inbox) = inbox[1] /\ 1 \in 1..Len(inbox)
              /\ \A i \in 1..Len(inbox') :
                   /\ inbox'[i] = inbox[i + 1] /\ i + 1 \in 1..Len(inbox) /\ i + 1 # 1
  BY <1>1, <1>12
<1>13. ASSUME inbox # <<>>, inbox' = Tail(inbox),
              UNCHANGED <<life, lifeOf, outbox, received, current>>, current = <<>>,
              asker' \in [Asker -> AskerSteps],
              \A b \in Asker : UnderWay(b) => UnderWay(b)' \/ (inbox[1].kind # "note" /\ b = inbox[1].to)
       PROVE  /\ OutboxInOrder' /\ CurrentInOrder' /\ InboxInOrder'
              /\ \A b \in received' : UnderWay(b)'
  <2>1. /\ inbox' \in Seq(InboxMessage) /\ 1 \in 1..Len(inbox)
        /\ \A i \in 1..Len(inbox') :
             /\ inbox'[i] = inbox[i + 1] /\ i + 1 \in 1..Len(inbox) /\ i + 1 # 1
    BY <1>12, <1>13
  <2>2. inbox[1].kind # "note" =>
          /\ inbox[1].to \notin received /\ \A j \in 1..Len(outbox) : outbox[j] # inbox[1].to
          /\ \A j \in 1..Len(inbox) : j # 1 /\ inbox[j].kind # "note" => inbox[j].to # inbox[1].to
    BY <1>1, <2>1 DEF InboxInOrder
  <2>3. OutboxInOrder'
    BY <1>1, <1>13, <2>2 DEF OutboxInOrder
  <2>4. \A b \in received' : UnderWay(b)'
    BY <1>1, <1>13, <2>2 DEF UpstreamTypeOK
  <2>5. ASSUME NEW i \in 1..Len(inbox'), inbox'[i].kind # "note"
        PROVE  /\ asker'[inbox'[i].to] \in {"waiting", "gone"} /\ lifeOf'[inbox'[i].to] = life'
               /\ inbox'[i].to \notin received'
               /\ \A j \in 1..Len(outbox') : outbox'[j] # inbox'[i].to
               /\ \A j \in 1..Len(inbox') :
                    inbox'[j].kind # "note" /\ inbox'[j].to = inbox'[i].to => j = i
    <3>1. inbox'[i] = inbox[i + 1] /\ i + 1 \in 1..Len(inbox) /\ i + 1 # 1
      BY <2>1
    <3> DEFINE b == inbox[i + 1].to
    <3>2. b \in Asker /\ UnderWay(b) /\ b \notin received
          /\ (\A j \in 1..Len(outbox) : outbox[j] # b)
          /\ (inbox[1].kind # "note" => b # inbox[1].to)
      BY <1>1, <2>2, <2>5, <3>1 DEF InboxInOrder
    <3>3. asker'[b] \in {"waiting", "gone"} /\ lifeOf'[b] = life'
      <4>1. \A c \in Asker : UnderWay(c) /\ (inbox[1].kind # "note" => c # inbox[1].to) =>
              asker'[c] \in {"waiting", "gone"} /\ lifeOf'[c] = life'
        BY <1>13 DEF UnderWay
      <4> HIDE DEF b
      <4> QED  BY <3>2, <4>1
    <3>4. ASSUME NEW j \in 1..Len(inbox'), inbox'[j].kind # "note", inbox'[j].to = inbox'[i].to
          PROVE  j = i
      <4>1. /\ j + 1 \in 1..Len(inbox) /\ inbox[j + 1].kind # "note"
            /\ inbox[j + 1].to = inbox[i + 1].to
        BY <2>1, <3>1, <3>4
      <4>2. inbox[i + 1].kind # "note"
        BY <2>5, <3>1
      <4>3. j + 1 = i + 1
        BY <1>1, <3>1, <4>1, <4>2 DEF InboxInOrder
      <4> QED  BY <4>3
    <3> QED  BY <1>13, <3>1, <3>2, <3>3, <3>4
  <2>6. CurrentInOrder'
    <3>1. \A b \in Asker : <<b>> # <<>>
      OBVIOUS
    <3> QED  BY <1>13, <3>1 DEF CurrentInOrder
  <2> QED  BY <2>3, <2>4, <2>5, <2>6 DEF InboxInOrder, UnderWay
<1>14. CASE Deliver
  <2> DEFINE a == inbox[1].to
  <2>1. /\ inbox # <<>> /\ inbox' = Tail(inbox) /\ Head(inbox) = inbox[1]
        /\ inbox[1].kind = "response" /\ 1 \in 1..Len(inbox)
    BY <1>1, <1>14 DEF Deliver
  <2>2. a \in Asker /\ UnderWay(a)
    BY <1>1, <2>1 DEF InboxInOrder
  <2>3. /\ pending' = [pending EXCEPT ![life] = @ \ {a}]
        /\ asker' = IF asker[a] = "waiting" THEN [asker EXCEPT ![a] = "answered"] ELSE asker
        /\ UNCHANGED <<sse, loop, life, lifeOf, outbox, current, received, notes, events, stop, errored>>
        /\ current = <<>>
    BY <1>14, <1>23, <2>1 DEF Deliver
  <2>4. asker' \in [Asker -> AskerSteps] /\ \A b \in Asker : b # a => asker'[b] = asker[b]
    BY <1>1, <2>2, <2>3 DEF UpstreamTypeOK, AskerSteps
  <2>5. /\ OutboxInOrder' /\ CurrentInOrder' /\ InboxInOrder'
        /\ \A b \in received' : UnderWay(b)'
    <3>1. \A b \in Asker : UnderWay(b) => UnderWay(b)' \/ (inbox[1].kind # "note" /\ b = inbox[1].to)
      BY <2>1, <2>3, <2>4 DEF UnderWay
    <3> QED  BY <1>13, <2>1, <2>3, <2>4, <3>1
  <2>6. inbox' \in Seq(InboxMessage)
    BY <1>12, <2>1
  <2>7. UpstreamTypeOK'
    BY <1>1, <2>2, <2>3, <2>4, <2>6 DEF UpstreamTypeOK, InboxMessage
  <2>8. Known'
    <3>1. asker'[a] \notin {"inserted", "waiting"}
      BY <1>1, <2>2, <2>3 DEF UnderWay, UpstreamTypeOK
    <3> QED  BY <1>1, <2>2, <2>3, <2>4, <3>1 DEF UpstreamTypeOK
  <2> QED  BY <2>5, <2>7, <2>8 DEF UpstreamInvariant
<1>15. CASE HandOver
  <2>1. /\ inbox # <<>> /\ inbox' = Tail(inbox)
        /\ UNCHANGED <<sse, life, pending, asker, lifeOf, outbox, current, received, notes, stop>>
        /\ current = <<>> /\ inbox[1].kind # "response" /\ Head(inbox) = inbox[1]
        /\ 1 \in 1..Len(inbox)
    BY <1>12, <1>15, <1>23 DEF HandOver
  <2>2. /\ OutboxInOrder' /\ CurrentInOrder' /\ InboxInOrder'
        /\ \A b \in received' : UnderWay(b)'
    <3>1. asker' \in [Asker -> AskerSteps] /\ \A b \in Asker : UnderWay(b) => UnderWay(b)'
      BY <1>1, <2>1 DEF UnderWay, UpstreamTypeOK
    <3> QED  BY <1>13, <2>1, <3>1
  <2>3. inbox' \in Seq(InboxMessage)
    BY <1>12, <2>1
  <2>4. /\ loop' \in {"none", "run", "sending", "handing", "ended"}
        /\ events' \in [open : BOOLEAN, held : 0 .. EventCap]
    <3>1. CASE ~events.open
      BY <1>1, <1>15, <3>1 DEF HandOver, UpstreamTypeOK
    <3>2. CASE events.open /\ events.held < EventCap
      <4> DEFINE e == [events EXCEPT !.held = events.held + 1]
      <4>0. events \in [open : BOOLEAN, held : 0 .. EventCap]
        BY <1>1 DEF UpstreamTypeOK
      <4>1. e \in [open : BOOLEAN, held : 0 .. EventCap]
        BY <3>2, <4>0
      <4>2. events' = e /\ UNCHANGED loop
        BY <1>15, <3>2 DEF HandOver
      <4> HIDE DEF e
      <4> QED  BY <1>1, <4>1, <4>2 DEF UpstreamTypeOK
    <3>3. CASE events.open /\ ~(events.held < EventCap)
      BY <1>1, <1>15, <3>3 DEF HandOver, UpstreamTypeOK
    <3> QED  BY <3>1, <3>2, <3>3
  <2>5. UpstreamTypeOK'
    <3>1. errored' \in SUBSET Asker
      <4>1. inbox[1].kind = "error" => inbox[1].to \in Asker
        BY <1>1, <2>1
      <4>2. \/ errored' = errored
            \/ inbox[1].kind = "error" /\ errored' = errored \cup {inbox[1].to}
        BY <1>15, <2>1 DEF HandOver
      <4> QED  BY <1>1, <4>1, <4>2 DEF UpstreamTypeOK
    <3> QED  BY <1>1, <2>1, <2>3, <2>4, <3>1 DEF UpstreamTypeOK, InboxMessage
  <2>6. Known'
    BY <1>1, <2>1
  <2> QED  BY <2>2, <2>5, <2>6 DEF UpstreamInvariant
<1>16. CASE Handed
  <2>1. events' \in [open : BOOLEAN, held : 0 .. EventCap]
    <3>1. CASE events.open
      <4> DEFINE e == [events EXCEPT !.held = events.held + 1]
      <4>1. e \in [open : BOOLEAN, held : 0 .. EventCap]
        BY <1>1, <1>16, <3>1 DEF Handed, UpstreamTypeOK
      <4>2. events' = e
        BY <1>16, <3>1 DEF Handed
      <4> QED  BY <4>1, <4>2
    <3>2. CASE ~events.open
      BY <1>1, <1>16, <3>2 DEF Handed, UpstreamTypeOK
    <3> QED  BY <3>1, <3>2
  <2>2. UpstreamTypeOK'
    BY <1>1, <1>16, <2>1 DEF Handed, UpstreamTypeOK
  <2>3. current = <<>>
    BY <1>1, <1>16 DEF CurrentInOrder, UpstreamTypeOK, Handed
  <2> QED  BY <1>2, <1>16, <2>2, <2>3 DEF Handed
<1>17. CASE Stop
  <2>1. stop' \in {"no", "asked", "done", "failed"}
    BY <1>17 DEF Stop
  <2>2. UpstreamTypeOK'
    BY <1>1, <1>17, <2>1 DEF Stop, UpstreamTypeOK
  <2> QED  BY <1>2, <1>17, <2>2 DEF Stop
<1>18. CASE OpenEvents \/ CloseEvents
  <2>1. \A b \in BOOLEAN : [open |-> b, held |-> 0] \in [open : BOOLEAN, held : 0 .. EventCap]
    OBVIOUS
  <2>2. events' \in [open : BOOLEAN, held : 0 .. EventCap]
    BY <1>18, <2>1 DEF OpenEvents, CloseEvents
  <2>3. UpstreamTypeOK'
    BY <1>1, <1>18, <2>2 DEF OpenEvents, CloseEvents, UpstreamTypeOK
  <2> QED  BY <1>2, <1>18, <2>3 DEF OpenEvents, CloseEvents
<1>19. CASE ReadEvent
  <2> DEFINE e == [events EXCEPT !.held = events.held - 1]
  <2>1. e \in [open : BOOLEAN, held : 0 .. EventCap]
    <3>1. events \in [open : BOOLEAN, held : 0 .. EventCap] /\ events.held > 0
      BY <1>1, <1>19 DEF ReadEvent, UpstreamTypeOK
    <3>2. events.held - 1 \in 0 .. EventCap
      BY <3>1
    <3> QED  BY <3>1, <3>2
  <2>2. events' = e
    BY <1>19 DEF ReadEvent
  <2>3. UpstreamTypeOK'
    BY <1>1, <1>19, <2>1, <2>2 DEF ReadEvent, UpstreamTypeOK
  <2> QED  BY <1>2, <1>19, <2>3 DEF ReadEvent
<1>20. CASE UNCHANGED upstreamVars
  <2>1. UpstreamTypeOK'
    BY <1>1, <1>20 DEF upstreamVars, UpstreamTypeOK
  <2> QED  BY <1>2, <1>20, <2>1 DEF upstreamVars
<1> QED
  <2>1. CASE \E a \in Asker : \/ EstablishSse(a) \/ InsertPending(a) \/ Enqueue(a) \/ AskerLeaves(a)
                              \/ \E k \in Kinds : Responds(a, k)
    BY <1>3, <1>4, <1>5, <1>6, <1>8, <2>1
  <2> QED  BY <1>9, <1>10, <1>11, <1>14, <1>15, <1>16, <1>17, <1>18, <1>19, <1>20,
              <1>21, <1>22, <2>1
           DEF McpUpstreamNext

(* Where the request or the answer of whoever waits is.                    *)
OnItsWay(a) ==
  \/ \E i \in 1..Len(outbox) : outbox[i] = a
  \/ current = <<a>> \/ a \in received
  \/ \E i \in 1..Len(inbox) : inbox[i].kind # "note" /\ inbox[i].to = a

Excused(a) == lifeOf[a] # life \/ loop \in {"none", "ended"} \/ a \in errored

Accounted == \A a \in Asker : asker[a] = "waiting" => Excused(a) \/ OnItsWay(a)

LEMMA AccountedStep ==
  ASSUME UpstreamInvariant, Accounted, [McpUpstreamNext]_upstreamVars
  PROVE  Accounted'
<1>1. /\ UpstreamTypeOK /\ OutboxInOrder /\ CurrentInOrder /\ InboxInOrder
      /\ \A b \in received : UnderWay(b)
      /\ inbox \in Seq(InboxMessage) /\ Len(inbox) \in Nat /\ Len(outbox) \in Nat
      /\ outbox \in Seq(Asker) /\ asker \in [Asker -> AskerSteps]
  BY DEF UpstreamInvariant, UpstreamTypeOK, InboxMessage
<1> SUFFICES ASSUME NEW a \in Asker, asker'[a] = "waiting"
             PROVE  Excused(a)' \/ OnItsWay(a)'
  BY DEF Accounted
<1>2. ASSUME asker[a] = "waiting"  PROVE Excused(a) \/ OnItsWay(a)
  BY <1>2 DEF Accounted
(* Nothing moves, or the connection ends.                                  *)
<1>3. ASSUME UNCHANGED <<asker, lifeOf, life, outbox, current, received, inbox, errored>>,
             loop \in {"none", "ended"} => loop' = loop
      PROVE  Excused(a)' \/ OnItsWay(a)'
  BY <1>2, <1>3 DEF Excused, OnItsWay
<1>4. ASSUME NEW b \in Asker, EstablishSse(b)  PROVE Excused(a)' \/ OnItsWay(a)'
  <2>1. CASE asker' = [asker EXCEPT ![b] = "failed"] /\ UNCHANGED <<loop>>
    BY <1>1, <1>4, <2>1 DEF EstablishSse, Excused
  <2>2. CASE UNCHANGED asker /\ life' = life + 1
    <3>1. lifeOf[a] \in 0 .. MaxLives /\ life \in Nat
      BY <1>1, UpstreamBounds DEF UpstreamTypeOK
    <3>2. lifeOf[a] # life + 1
      <4>1. life + 1 > life /\ (lifeOf[a] <= life => lifeOf[a] # life + 1)
        BY <3>1
      <4>2. lifeOf[a] <= life
        BY <1>1, <2>2 DEF UpstreamInvariant
      <4> QED  BY <4>1, <4>2
    <3> QED  BY <1>4, <2>2, <3>2 DEF EstablishSse, Excused
  <2> QED  BY <1>4, <2>1, <2>2 DEF EstablishSse, AskerTo
<1>5. ASSUME NEW b \in Asker, InsertPending(b)  PROVE Excused(a)' \/ OnItsWay(a)'
  <2>1. a # b /\ asker[a] = "waiting"
    BY <1>1, <1>5 DEF InsertPending, AskerTo
  <2>2. lifeOf'[a] = lifeOf[a]
    BY <1>1, <1>5, <2>1 DEF InsertPending, UpstreamTypeOK
  <2> QED  BY <1>2, <1>5, <2>1, <2>2 DEF InsertPending, Excused, OnItsWay
<1>6. ASSUME NEW b \in Asker, Enqueue(b)  PROVE Excused(a)' \/ OnItsWay(a)'
  <2>0. UNCHANGED <<loop, life, lifeOf, current, received, inbox, errored>>
    BY <1>6 DEF Enqueue
  <2>1. CASE asker' = [asker EXCEPT ![b] = "failed"] /\ UNCHANGED outbox
    <3>1. asker[a] = "waiting"
      BY <1>1, <2>1
    <3> QED  BY <1>2, <2>0, <2>1, <3>1 DEF Excused, OnItsWay
  <2>2. CASE asker' = [asker EXCEPT ![b] = "waiting"] /\ outbox' = Append(outbox, b)
    <3>1. /\ Len(outbox') = Len(outbox) + 1 /\ outbox'[Len(outbox) + 1] = b
          /\ \A i \in 1..Len(outbox) : outbox'[i] = outbox[i] /\ i \in 1..Len(outbox')
          /\ Len(outbox) + 1 \in 1..Len(outbox')
      BY <1>1, <2>2
    <3>2. CASE a = b
      BY <3>1, <3>2 DEF OnItsWay
    <3>3. CASE a # b
      <4>1. asker[a] = "waiting"
        BY <1>1, <2>2, <3>3
      <4> QED  BY <1>2, <2>0, <3>1, <4>1 DEF Excused, OnItsWay
    <3> QED  BY <3>2, <3>3
  <2> QED  BY <1>6, <2>1, <2>2 DEF Enqueue, AskerTo
<1>7. ASSUME NEW b \in Asker, AskerLeaves(b)  PROVE Excused(a)' \/ OnItsWay(a)'
  <2>1. asker[a] = "waiting"
    BY <1>1, <1>7 DEF AskerLeaves, AskerTo
  <2> QED  BY <1>2, <1>7, <2>1 DEF AskerLeaves, Excused, OnItsWay
<1>8. ASSUME NEW m \in InboxMessage, inbox' = Append(inbox, m),
             \A b \in received : b \in received' \/ (m.kind # "note" /\ m.to = b),
             UNCHANGED <<asker, loop, life, lifeOf, outbox, current, errored>>
      PROVE  Excused(a)' \/ OnItsWay(a)'
  <2>1. /\ Len(inbox') = Len(inbox) + 1 /\ inbox'[Len(inbox) + 1] = m
        /\ \A i \in 1..Len(inbox) : inbox'[i] = inbox[i] /\ i \in 1..Len(inbox')
        /\ Len(inbox) + 1 \in 1..Len(inbox')
    BY <1>1, <1>8
  <2>2. asker[a] = "waiting"
    BY <1>8
  <2> QED  BY <1>2, <1>8, <2>1, <2>2 DEF Excused, OnItsWay
<1>9. ASSUME NEW b \in Asker, NEW k \in Kinds, Responds(b, k)
      PROVE  Excused(a)' \/ OnItsWay(a)'
  <2> DEFINE m == [kind |-> k, to |-> b]
  <2>1. m \in InboxMessage /\ m.kind # "note" /\ m.to = b
    BY DEF InboxMessage, Kinds
  <2>2. /\ inbox' = Append(inbox, m) /\ \A c \in received : c \in received' \/ b = c
        /\ UNCHANGED <<asker, loop, life, lifeOf, outbox, current, errored>>
    BY <1>9 DEF Responds
  <2> HIDE DEF m
  <2> QED  BY <1>8, <2>1, <2>2
<1>10. CASE Notifies
  <2> DEFINE m == [kind |-> "note"]
  <2>1. m \in InboxMessage
    BY DEF InboxMessage
  <2>2. /\ inbox' = Append(inbox, m)
        /\ UNCHANGED <<asker, loop, life, lifeOf, outbox, current, received, errored>>
    BY <1>10 DEF Notifies
  <2> HIDE DEF m
  <2> QED  BY <1>8, <2>1, <2>2
<1>11. CASE Forward
  <2>1. /\ current' = <<Head(outbox)>> /\ loop' = "sending" /\ loop = "run" /\ outbox # <<>>
        /\ outbox' = Tail(outbox)
        /\ UNCHANGED <<life, asker, lifeOf, received, inbox, errored>>
    BY <1>11 DEF Forward
  <2>2. /\ Head(outbox) = outbox[1] /\ Len(outbox') = Len(outbox) - 1
        /\ \A i \in 1..Len(outbox) : i = 1 \/ (i - 1 \in 1..Len(outbox') /\ outbox'[i - 1] = outbox[i])
    BY <1>1, <2>1
  <2>3. current # <<a>>
    BY <1>1, <2>1 DEF CurrentInOrder
  <2>4. ASSUME NEW i \in 1..Len(outbox), outbox[i] = a  PROVE OnItsWay(a)'
    <3>1. CASE i = 1
      BY <2>1, <2>2, <2>4, <3>1 DEF OnItsWay
    <3>2. CASE i # 1
      BY <2>2, <2>4, <3>2 DEF OnItsWay
    <3> QED  BY <3>1, <3>2
  <2> QED  BY <1>2, <2>1, <2>3, <2>4 DEF Excused, OnItsWay
<1>12. CASE Arrives
  <2>1. current = <<a>> => Head(current) = a
    OBVIOUS
  <2> QED  BY <1>2, <1>12, <2>1 DEF Arrives, Excused, OnItsWay
<1>13. CASE SendReturns
  BY <1>3, <1>13 DEF SendReturns
<1>14. CASE SendFails \/ Shutdown
  BY <1>14 DEF SendFails, Shutdown, Excused
(* The first message of the upstream is taken: whoever it was for is       *)
(* answered, or had an error.                                              *)
<1>15. ASSUME inbox # <<>>, inbox' = Tail(inbox), asker[a] = "waiting",
              inbox[1].kind = "note" \/ inbox[1].to # a \/ a \in errored',
              errored \subseteq errored',
              loop' \in {"none", "ended"} \/ loop \notin {"none", "ended"},
              UNCHANGED <<life, lifeOf, outbox, current, received>>
       PROVE  Excused(a)' \/ OnItsWay(a)'
  <2>1. \A i \in 1..Len(inbox) : i = 1 \/ (i - 1 \in 1..Len(inbox') /\ inbox'[i - 1] = inbox[i])
    BY <1>1, <1>15
  <2>2. ASSUME NEW i \in 1..Len(inbox), inbox[i].kind # "note", inbox[i].to = a
        PROVE  Excused(a)' \/ OnItsWay(a)'
    <3>1. CASE i = 1
      BY <1>15, <2>2, <3>1 DEF Excused
    <3>2. CASE i # 1
      BY <2>1, <2>2, <3>2 DEF OnItsWay
    <3> QED  BY <3>1, <3>2
  <2>3. CASE Excused(a)
    BY <1>15, <2>3 DEF Excused
  <2> QED  BY <1>2, <1>15, <2>2, <2>3 DEF OnItsWay
<1>16. inbox # <<>> => Head(inbox) = inbox[1] /\ inbox[1] \in InboxMessage /\ 1 \in 1..Len(inbox)
  BY <1>1
<1>17. CASE Deliver
  <2>1. /\ inbox # <<>> /\ inbox' = Tail(inbox) /\ inbox[1].kind = "response" /\ loop = "run"
        /\ UNCHANGED <<loop, life, lifeOf, outbox, current, received, errored>>
        /\ asker' = IF asker[inbox[1].to] = "waiting"
                    THEN [asker EXCEPT ![inbox[1].to] = "answered"] ELSE asker
    BY <1>16, <1>17 DEF Deliver
  <2>2. inbox[1].to \in Asker
    BY <1>16, <2>1, ToAsker
  <2>3. asker[a] = "waiting" /\ inbox[1].to # a
    BY <1>1, <2>1, <2>2
  <2> QED  BY <1>15, <2>1, <2>3
<1>18. CASE HandOver
  <2>1. /\ inbox # <<>> /\ inbox' = Tail(inbox) /\ inbox[1].kind # "response" /\ loop = "run"
        /\ UNCHANGED <<life, asker, lifeOf, outbox, current, received>>
        /\ errored' = IF inbox[1].kind = "error" THEN errored \cup {inbox[1].to} ELSE errored
    BY <1>16, <1>18 DEF HandOver
  <2>2. inbox[1].kind \in {"note", "error"}
    BY <1>16, <2>1 DEF InboxMessage, Kinds
  <2>3. errored \subseteq errored' /\ (inbox[1].kind = "note" \/ inbox[1].to # a \/ a \in errored')
    BY <2>1, <2>2
  <2>4. asker[a] = "waiting" /\ loop \notin {"none", "ended"}
    BY <2>1
  <2> QED  BY <1>15, <2>1, <2>3, <2>4
<1>19. CASE Handed \/ Stop \/ OpenEvents \/ ReadEvent \/ CloseEvents \/ UNCHANGED upstreamVars
  <2>1. /\ UNCHANGED <<asker, lifeOf, life, outbox, current, received, inbox, errored>>
        /\ loop \in {"none", "ended"} => loop' = loop
    BY <1>19 DEF Handed, Stop, OpenEvents, ReadEvent, CloseEvents, upstreamVars
  <2> QED  BY <1>3, <2>1
<1> QED
  <2>1. CASE \E b \in Asker : \/ EstablishSse(b) \/ InsertPending(b) \/ Enqueue(b) \/ AskerLeaves(b)
                              \/ \E k \in Kinds : Responds(b, k)
    BY <1>4, <1>5, <1>6, <1>7, <1>9, <2>1
  <2> QED  BY <1>10, <1>11, <1>12, <1>13, <1>14, <1>17, <1>18, <1>19, <2>1
           DEF McpUpstreamNext

(* Whoever waits has an entry that its answer will find, an answer is for  *)
(* a request the upstream has seen, and the request or the answer of       *)
(* whoever waits is still on its way, unless its connection is over or its *)
(* answer was an error, which the code hands to the event stream: across   *)
(* connections that are made again, requests that leave, sends that fail   *)
(* and channels that are full.                                             *)
THEOREM AnswersStayMatched == McpUpstreamSpec => []AnswersMatched
<1>1. UpstreamInvariant /\ Accounted => AnswersMatched
  <2> SUFFICES ASSUME UpstreamInvariant, Accounted  PROVE AnswersMatched
    OBVIOUS
  <2>0. /\ outbox \in Seq(Asker) /\ inbox \in Seq(InboxMessage)
        /\ DOMAIN outbox = 1..Len(outbox) /\ DOMAIN inbox = 1..Len(inbox)
        /\ current \in {<<>>} \cup {<<c>> : c \in Asker}
    BY DEF UpstreamInvariant, UpstreamTypeOK, InboxMessage
  <2>1. ASSUME NEW a \in Asker, asker[a] = "answered"
        PROVE  /\ a \notin received
               /\ \A i \in DOMAIN outbox : outbox[i] # a
               /\ \A i \in DOMAIN inbox : inbox[i].kind = "note" \/ inbox[i].to # a
    BY <2>0, <2>1 DEF UpstreamInvariant, OutboxInOrder, InboxInOrder, UnderWay
  <2>2. AnsweredByUpstream /\ WaitersAreKnown
    BY <2>1 DEF AnsweredByUpstream, WaitersAreKnown, UpstreamInvariant
  <2>3. WaitersAccounted
    <3>1. ASSUME NEW a \in Asker, OnItsWay(a)
          PROVE  \/ a \in Range(outbox) \/ a \in Range(current) \/ a \in received
                 \/ \E m \in Range(inbox) : m.kind # "note" /\ m.to = a
      <4>1. current = <<a>> => DOMAIN current = {1} /\ current[1] = a
        BY <2>0
      <4> QED  BY <2>0, <3>1, <4>1 DEF OnItsWay, Range
    <3> QED  BY <3>1 DEF WaitersAccounted, Accounted, Excused
  <2> QED  BY <2>2, <2>3 DEF AnswersMatched, UpstreamInvariant
<1>2. UpstreamInvariant /\ [McpUpstreamNext]_upstreamVars => UpstreamInvariant'
  BY UpstreamStep
<1>3. UpstreamInvariant /\ Accounted /\ [McpUpstreamNext]_upstreamVars => Accounted'
  BY AccountedStep
<1>4. UpstreamInit => Accounted
  BY DEF UpstreamInit, Accounted
<1> QED  BY <1>1, <1>2, <1>3, <1>4, UpstreamInvariantInit, PTL DEF McpUpstreamSpec

-----------------------------------------------------------------------------
(***************************************************************************)
(* McpMerge, for any number of upstreams and messages.                     *)
(***************************************************************************)

(* What closes a stream is the last that its upstream sends, and what the  *)
(* poll went past without meeting a pending stream is not live any more:   *)
(* so a merge comes when whoever did not answer has closed.                *)
EndsAreLast ==
  \A u \in U : \A j \in 1..Len(channel[u]) :
    channel[u][j] \in Closing => j = Len(channel[u]) /\ budget[u] = 0

Left(u) == budget[u] = 0 /\ channel[u] = <<>>

PhasesAgree ==
  /\ phase = "asking" => /\ cursor = 1 /\ ~pendingSeen /\ live = 1..asked
                         /\ terminal = {} /\ client = <<>>
  /\ phase \in {"polled", "waiting"} => \A u \in U : u \in live \/ u \in terminal \/ Left(u)
  /\ phase = "polled" /\ ~pendingSeen => \A u \in U : u < cursor => u \notin live
  /\ phase \in {"asking", "polled", "waiting"} =>
       \A i \in 1..Len(client) : client[i].kind \notin {"merged", "fail"}

MergeInvariant ==
  /\ MergeTypeOK /\ MergedIsWhole /\ OneEnd
  /\ EndsAreLast /\ PhasesAgree

LEMMA MergeConstants ==
  /\ Upstreams \in Nat /\ Upstreams > 0 /\ MaxMessages \in Nat /\ MaxMessages > 0
BY MergeAssumption

(* The parts of the state that the poll moves are of their types.          *)
LEMMA PollTyped ==
  ASSUME MergeTypeOK, UNCHANGED <<asked, merging>>,
         cursor' \in 1 .. Upstreams + 1, pendingSeen' \in BOOLEAN,
         phase' \in {"asking", "refused", "polled", "waiting", "complete"},
         channel' \in [U -> Seq(Kind)], budget' \in [U -> 0 .. MaxMessages],
         live' \in SUBSET U, terminal' \in SUBSET U, client' \in Seq(Message)
  PROVE  MergeTypeOK'
<1>1. asked' \in 0 .. Upstreams /\ merging' \in BOOLEAN
  BY DEF MergeTypeOK
<1> QED  BY <1>1 DEF MergeTypeOK

LEMMA MergeInvariantInit == MergeInit => MergeInvariant
<1> SUFFICES ASSUME MergeInit  PROVE MergeInvariant
  OBVIOUS
<1> USE MergeConstants DEF MergeInit
<1>1. MergeTypeOK
  <2>1. /\ asked \in 0 .. Upstreams /\ cursor \in 1 .. Upstreams + 1
        /\ budget \in [U -> 0 .. MaxMessages] /\ channel \in [U -> Seq(Kind)]
        /\ client \in Seq(Message) /\ live \in SUBSET U /\ terminal \in SUBSET U
    OBVIOUS
  <2>2. pendingSeen \in BOOLEAN /\ merging \in BOOLEAN
    OBVIOUS
  <2> QED  BY <2>1, <2>2 DEF MergeTypeOK
<1>2. MergedIsWhole /\ OneEnd
  BY DEF MergedIsWhole, OneEnd, Messages
<1>3. EndsAreLast /\ PhasesAgree
  BY DEF EndsAreLast, PhasesAgree
<1> QED  BY <1>1, <1>2, <1>3 DEF MergeInvariant

(* The end of the client's stream: nothing was there that ends it before.  *)
LEMMA ClientTold ==
  ASSUME MergeTypeOK, phase \in {"asking", "polled", "waiting"}, PhasesAgree,
         NEW m \in Message, client' = Append(client, m)
  PROVE  /\ client' \in Seq(Message)
         /\ OneEnd'
         /\ m.kind \notin {"merged", "fail"} =>
              \A i \in 1..Len(client') : client'[i].kind \notin {"merged", "fail"}
         /\ m.kind # "merged" => Messages("merged")' = {}
         /\ \A i \in Messages("merged")' : client'[i] = m
<1>1. /\ client \in Seq(Message) /\ Len(client) \in Nat
      /\ client' \in Seq(Message) /\ Len(client') = Len(client) + 1
      /\ DOMAIN client' = 1..Len(client')
      /\ \A i \in 1..Len(client') : \/ i \in 1..Len(client) /\ client'[i] = client[i]
                                    \/ i = Len(client') /\ client'[i] = m
  BY DEF MergeTypeOK
<1>2. \A i \in 1..Len(client) : client[i].kind \notin {"merged", "fail"}
  BY DEF PhasesAgree
<1>3. \A i \in 1..Len(client') : client'[i].kind \in {"merged", "fail"} =>
        i = Len(client') /\ client'[i] = m
  BY <1>1, <1>2
<1> QED  BY <1>1, <1>2, <1>3 DEF OneEnd, Messages

(* A step of the poll that tells the client nothing: it takes a message,   *)
(* or none, from the stream at the cursor.                                 *)
LEMMA StreamsTaken ==
  ASSUME MergeTypeOK, EndsAreLast, NEW u \in U, channel[u] # <<>>,
         channel' = [channel EXCEPT ![u] = Tail(@)], UNCHANGED budget
  PROVE  /\ channel' \in [U -> Seq(Kind)] /\ EndsAreLast'
         /\ \A v \in U : Left(v) => Left(v)' /\ channel'[v] = channel[v]
         /\ \A v \in U : v # u => channel'[v] = channel[v]
         /\ Head(channel[u]) \in Closing => Left(u)'
         /\ \A v \in U : \A j \in 1..Len(channel'[v]) :
              \E i \in 1..Len(channel[v]) : channel'[v][j] = channel[v][i]
<1>1. /\ channel[u] \in Seq(Kind) /\ Len(channel[u]) \in Nat /\ Len(channel[u]) > 0
      /\ Head(channel[u]) = channel[u][1] /\ Tail(channel[u]) \in Seq(Kind)
      /\ Len(Tail(channel[u])) = Len(channel[u]) - 1
      /\ \A j \in 1..Len(Tail(channel[u])) : Tail(channel[u])[j] = channel[u][j + 1]
                                             /\ j + 1 \in 1..Len(channel[u])
  BY DEF MergeTypeOK
<1>2. /\ channel' \in [U -> Seq(Kind)] /\ channel'[u] = Tail(channel[u])
      /\ \A v \in U : v # u => channel'[v] = channel[v]
  BY <1>1 DEF MergeTypeOK
<1>3. EndsAreLast'
  <2>1. ASSUME NEW v \in U, NEW j \in 1..Len(channel'[v]), channel'[v][j] \in Closing
        PROVE  j = Len(channel'[v]) /\ budget'[v] = 0
    <3>1. CASE v = u
      <4>1. channel[u][j + 1] \in Closing /\ j + 1 \in 1..Len(channel[u])
        BY <1>1, <1>2, <2>1, <3>1
      <4>2. j + 1 = Len(channel[u]) /\ budget[u] = 0
        BY <4>1 DEF EndsAreLast
      <4>3. j + 1 = Len(Tail(channel[u])) + 1
        BY <1>1, <4>2
      <4>4. Len(channel'[v]) = Len(Tail(channel[u])) /\ budget'[v] = budget[u]
        BY <1>2, <3>1
      <4> QED  BY <1>1, <4>2, <4>3, <4>4
    <3>2. CASE v # u
      BY <1>2, <2>1, <3>2 DEF EndsAreLast
    <3> QED  BY <3>1, <3>2
  <2> QED  BY <2>1 DEF EndsAreLast
<1>4. Head(channel[u]) \in Closing => Left(u)'
  <2> SUFFICES ASSUME Head(channel[u]) \in Closing  PROVE Left(u)'
    OBVIOUS
  <2>1. 1 \in 1..Len(channel[u])
    BY <1>1
  <2>2. Len(channel[u]) = 1 /\ budget[u] = 0
    BY <1>1, <2>1 DEF EndsAreLast
  <2>3. Tail(channel[u]) = <<>>
    BY <1>1, <2>2
  <2> QED  BY <1>2, <2>2, <2>3 DEF Left
<1>5. \A v \in U : Left(v) => Left(v)' /\ channel'[v] = channel[v]
  BY <1>2 DEF Left
<1>6. \A v \in U : \A j \in 1..Len(channel'[v]) :
        \E i \in 1..Len(channel[v]) : channel'[v][j] = channel[v][i]
  BY <1>1, <1>2
<1> QED  BY <1>2, <1>3, <1>4, <1>5, <1>6

LEMMA MergeStep ==
  ASSUME MergeInvariant, [MergeNext]_mergeVars
  PROVE  MergeInvariant'
<1> USE MergeConstants
<1>1. /\ MergeTypeOK /\ MergedIsWhole /\ OneEnd /\ EndsAreLast /\ PhasesAgree
      /\ client \in Seq(Message) /\ DOMAIN client = 1..Len(client)
      /\ channel \in [U -> Seq(Kind)] /\ budget \in [U -> 0 .. MaxMessages]
      /\ live \in SUBSET U /\ terminal \in SUBSET U
  BY DEF MergeInvariant, MergeTypeOK
(* What is not about the streams changes, the client is told nothing.      *)
<1>2. ASSUME UNCHANGED <<client, channel, budget>>, MergeTypeOK', PhasesAgree'
      PROVE  MergeInvariant'
  <2>1. MergedIsWhole' /\ OneEnd' /\ EndsAreLast'
    BY <1>1, <1>2 DEF MergedIsWhole, OneEnd, EndsAreLast, Messages
  <2> QED  BY <1>2, <2>1 DEF MergeInvariant
<1>3. CASE AskNext
  <2>1. MergeTypeOK'
    <3>1. asked' \in 0 .. Upstreams /\ live' \in SUBSET U
      BY <1>1, <1>3 DEF AskNext, MergeTypeOK, U
    <3> QED  BY <1>1, <1>3, <3>1 DEF AskNext, MergeTypeOK
  <2>2. PhasesAgree'
    BY <1>1, <1>3 DEF AskNext, PhasesAgree, MergeTypeOK
  <2> QED  BY <1>2, <1>3, <2>1, <2>2 DEF AskNext
<1>4. CASE AskFails
  <2> DEFINE m == [kind |-> "fail", from |-> {asked + 1}]
  <2>1. m \in Message /\ m.kind = "fail"
    BY <1>1, <1>4 DEF AskFails, MergeTypeOK, Message, Kind, U
  <2>2. client' = <<m>>
    BY <1>4 DEF AskFails
  <2> HIDE DEF m
  <2>3. client' \in Seq(Message) /\ Len(client') = 1 /\ DOMAIN client' = 1..1 /\ client'[1] = m
    BY <2>1, <2>2
  <2>4. OneEnd' /\ MergedIsWhole'
    BY <2>1, <2>3 DEF OneEnd, MergedIsWhole, Messages
  <2>5. MergeTypeOK' /\ EndsAreLast'
    BY <1>1, <1>4, <2>3 DEF AskFails, MergeTypeOK, EndsAreLast
  <2>6. PhasesAgree'
    BY <1>4 DEF AskFails, PhasesAgree
  <2> QED  BY <2>4, <2>5, <2>6 DEF MergeInvariant
<1>5. CASE AllAsked
  <2>1. MergeTypeOK'
    BY <1>1, <1>5 DEF AllAsked, MergeTypeOK
  <2>2. PhasesAgree'
    BY <1>1, <1>5 DEF AllAsked, PhasesAgree, MergeTypeOK, U
  <2> QED  BY <1>2, <1>5, <2>1, <2>2 DEF AllAsked
<1>6. ASSUME NEW u \in U, NEW k \in Kind, Sends(u, k)  PROVE MergeInvariant'
  <2>1. /\ budget[u] > 0 /\ channel' = [channel EXCEPT ![u] = Append(@, k)]
        /\ budget' = [budget EXCEPT ![u] = IF k \in Closing THEN 0 ELSE @ - 1]
        /\ UNCHANGED <<asked, phase, cursor, pendingSeen, live, terminal, merging, client>>
    BY <1>6 DEF Sends
  <2>2. /\ channel' \in [U -> Seq(Kind)] /\ budget' \in [U -> 0 .. MaxMessages]
        /\ channel'[u] = Append(channel[u], k)
        /\ budget'[u] = IF k \in Closing THEN 0 ELSE budget[u] - 1
        /\ \A v \in U : v # u => channel'[v] = channel[v] /\ budget'[v] = budget[v]
    BY <1>1, <2>1
  <2>3. MergeTypeOK'
    BY <1>1, <2>1, <2>2 DEF MergeTypeOK
  <2>4. MergedIsWhole'
    <3>1. ASSUME NEW i \in Messages("merged")', NEW v \in U, v \notin client'[i].from
          PROVE  budget'[v] = 0 /\ \A j \in DOMAIN channel'[v] : channel'[v][j] # "response"
      <4>1. i \in Messages("merged") /\ v \notin client[i].from
        BY <2>1, <3>1 DEF Messages
      <4>2. budget[v] = 0 /\ \A j \in DOMAIN channel[v] : channel[v][j] # "response"
        BY <1>1, <4>1 DEF MergedIsWhole
      <4>3. v # u
        BY <2>1, <4>2
      <4> QED  BY <2>2, <4>2, <4>3
    <3> QED  BY <3>1 DEF MergedIsWhole
  <2>5. EndsAreLast'
    <3>1. ASSUME NEW v \in U, NEW j \in 1..Len(channel'[v]), channel'[v][j] \in Closing
          PROVE  j = Len(channel'[v]) /\ budget'[v] = 0
      <4>1. CASE v # u
        BY <1>1, <2>2, <3>1, <4>1 DEF EndsAreLast
      <4>2. CASE v = u
        <5>1. /\ channel[u] \in Seq(Kind) /\ Len(channel[u]) \in Nat
              /\ Len(channel'[u]) = Len(channel[u]) + 1
              /\ j \in 1..Len(channel[u]) => channel'[u][j] = channel[u][j]
              /\ j \notin 1..Len(channel[u]) => j = Len(channel'[u]) /\ channel'[u][j] = k
          BY <1>1, <2>2, <3>1, <4>2
        <5>2. j \notin 1..Len(channel[u])
          BY <1>1, <2>1, <3>1, <4>2, <5>1 DEF EndsAreLast
        <5> QED  BY <2>2, <3>1, <4>2, <5>1, <5>2
      <4> QED  BY <4>1, <4>2
    <3> QED  BY <3>1 DEF EndsAreLast
  <2>6. OneEnd'
    BY <1>1, <2>1 DEF OneEnd, Messages
  <2>7. PhasesAgree'
    <3>1. \A v \in U : Left(v) => Left(v)'
      BY <2>1, <2>2 DEF Left
    <3> QED  BY <1>1, <2>1, <3>1 DEF PhasesAgree
  <2> QED  BY <2>3, <2>4, <2>5, <2>6, <2>7 DEF MergeInvariant
<1>7. CASE SkipDropped \/ MeetsPending
  <2>1. /\ Polling /\ cursor' = cursor + 1
        /\ UNCHANGED <<asked, phase, channel, budget, live, terminal, merging, client>>
        /\ \/ cursor \notin live /\ UNCHANGED pendingSeen
           \/ pendingSeen' = TRUE
    BY <1>7 DEF SkipDropped, MeetsPending, Pass
  <2>2. MergeTypeOK'
    <3>1. cursor' \in 1 .. Upstreams + 1
      BY <1>1, <2>1 DEF Polling, MergeTypeOK
    <3>2. pendingSeen' \in BOOLEAN
      BY <1>1, <2>1 DEF MergeTypeOK
    <3> QED  BY <1>1, <2>1, <3>1, <3>2, PollTyped DEF MergeTypeOK
  <2>3. PhasesAgree'
    <3>1. \A v \in U : v \in live' \/ v \in terminal' \/ Left(v)'
      BY <1>1, <2>1 DEF PhasesAgree, Polling, Left
    <3>2. ~pendingSeen' => \A v \in U : v < cursor' => v \notin live'
      <4>1. ASSUME ~pendingSeen', NEW v \in U, v < cursor'  PROVE v \notin live'
        <5>1. cursor \notin live /\ ~pendingSeen
          BY <2>1, <4>1
        <5>2. v = cursor \/ v < cursor
          BY <1>1, <2>1, <4>1 DEF U, MergeTypeOK
        <5> QED  BY <1>1, <2>1, <5>1, <5>2 DEF PhasesAgree, Polling
      <4> QED  BY <4>1
    <3>3. phase' = "polled" /\ \A i \in 1..Len(client') : client'[i].kind \notin {"merged", "fail"}
      BY <1>1, <2>1 DEF PhasesAgree, Polling
    <3> QED  BY <3>1, <3>2, <3>3 DEF PhasesAgree
  <2> QED  BY <1>2, <2>1, <2>2, <2>3
<1>8. ASSUME Polling, cursor \in live, channel[cursor] # <<>>, Take, UNCHANGED budget
      PROVE  /\ channel' \in [U -> Seq(Kind)] /\ EndsAreLast' /\ cursor \in U
             /\ \A v \in U : Left(v) => Left(v)' /\ channel'[v] = channel[v]
             /\ Head(channel[cursor]) \in Closing =>
                  budget'[cursor] = 0 /\ channel'[cursor] = <<>>
  <2>1. \A u \in U : u = cursor => \/ Head(channel[u]) \notin Closing
                                   \/ budget'[u] = 0 /\ channel'[u] = <<>>
    <3>1. ASSUME NEW u \in U, u = cursor, Head(channel[u]) \in Closing
          PROVE  budget'[u] = 0 /\ channel'[u] = <<>>
      <4>1. Left(u)'
        BY <1>1, <1>8, <3>1, StreamsTaken DEF Take
      <4> QED  BY <4>1 DEF Left
    <3> QED  BY <3>1
  <2>2. /\ channel' \in [U -> Seq(Kind)] /\ EndsAreLast' /\ cursor \in U
        /\ \A v \in U : Left(v) => Left(v)' /\ channel'[v] = channel[v]
    <3>1. cursor \in U
      BY <1>1, <1>8
    <3>2. PICK u \in U : u = cursor
      BY <3>1
    <3> QED  BY <1>1, <1>8, <3>1, <3>2, StreamsTaken DEF Take
  <2> QED  BY <1>8, <2>1, <2>2
<1>9. CASE TakesResponse \/ TakesEnd
  <2>1. /\ Polling /\ cursor \in live /\ channel[cursor] # <<>> /\ Take
        /\ cursor' = cursor + 1 /\ live' = live \ {cursor}
        /\ UNCHANGED <<asked, phase, pendingSeen, budget, merging, client>>
        /\ \/ terminal' = terminal \cup {cursor}
           \/ UNCHANGED terminal /\ Head(channel[cursor]) \in Closing
    BY <1>9 DEF TakesResponse, TakesEnd, Pass, Closing
  <2>2. /\ channel' \in [U -> Seq(Kind)] /\ EndsAreLast' /\ cursor \in U
        /\ \A v \in U : Left(v) => Left(v)' /\ channel'[v] = channel[v]
        /\ Head(channel[cursor]) \in Closing =>
             budget'[cursor] = 0 /\ channel'[cursor] = <<>>
    BY <1>8, <2>1
  <2>3. MergeTypeOK'
    <3>1. cursor' \in 1 .. Upstreams + 1
      BY <1>1, <2>1 DEF Polling, MergeTypeOK
    <3>2. live' \in SUBSET U
      BY <1>1, <2>1
    <3>3. terminal' \in SUBSET U
      BY <1>1, <2>1, <2>2
    <3> QED  BY <1>1, <2>1, <2>2, <3>1, <3>2, <3>3, PollTyped DEF MergeTypeOK
  <2>4. PhasesAgree'
    <3>1. \A v \in U : v \in live' \/ v \in terminal' \/ Left(v)'
      <4>1. ASSUME NEW v \in U  PROVE v \in live' \/ v \in terminal' \/ Left(v)'
        BY <1>1, <2>1, <2>2 DEF PhasesAgree, Polling, Left
      <4> QED  BY <4>1
    <3> QED  BY SMTT(60), <1>1, <2>1, <2>2, <3>1 DEF PhasesAgree, Polling, U
  <2>5. MergedIsWhole' /\ OneEnd'
    BY <1>1, <2>1 DEF PhasesAgree, Polling, MergedIsWhole, OneEnd, Messages
  <2> QED  BY <2>2, <2>3, <2>4, <2>5 DEF MergeInvariant
<1>10. CASE TakesFailure \/ TakesOther
  <2> DEFINE m == [kind |-> Head(channel[cursor]), from |-> {cursor}]
  <2>1. /\ Polling /\ cursor \in live /\ channel[cursor] # <<>> /\ Take
        /\ client' = Append(client, m)
        /\ UNCHANGED <<asked, budget, live, terminal, merging>>
        /\ \/ phase' = "complete" /\ UNCHANGED <<cursor, pendingSeen>>
           \/ /\ phase' = phase /\ cursor' = 1 /\ pendingSeen' = FALSE
              /\ m.kind \in {"note", "error"}
    BY <1>10 DEF TakesFailure, TakesOther, Tells
  <2>2. /\ channel' \in [U -> Seq(Kind)] /\ EndsAreLast' /\ cursor \in U
        /\ \A v \in U : Left(v) => Left(v)' /\ channel'[v] = channel[v]
    BY <1>8, <2>1
  <2>3. m \in Message /\ m.kind # "merged"
    <3>1. Head(channel[cursor]) \in Kind
      BY <1>1, <2>1, <2>2
    <3> QED  BY <2>2, <3>1 DEF Message, Kind
  <2> HIDE DEF m
  <2>4. /\ client' \in Seq(Message) /\ OneEnd' /\ Messages("merged")' = {}
        /\ m.kind \notin {"merged", "fail"} =>
             \A i \in 1..Len(client') : client'[i].kind \notin {"merged", "fail"}
    BY <1>1, <2>1, <2>3, ClientTold DEF Polling
  <2>5. MergeTypeOK'
    <3>1. /\ cursor' \in 1 .. Upstreams + 1
          /\ phase' \in {"asking", "refused", "polled", "waiting", "complete"}
      BY <1>1, <2>1 DEF Polling, MergeTypeOK
    <3>2. pendingSeen' \in BOOLEAN
      BY <1>1, <2>1 DEF MergeTypeOK
    <3> QED  BY <1>1, <2>1, <2>2, <2>4, <3>1, <3>2, PollTyped DEF MergeTypeOK
  <2>6. PhasesAgree'
    <3>1. CASE phase' = "complete"
      BY <3>1 DEF PhasesAgree
    <3>2. CASE phase' = phase /\ cursor' = 1 /\ pendingSeen' = FALSE /\ m.kind \in {"note", "error"}
      <4>1. \A v \in U : v \in live' \/ v \in terminal' \/ Left(v)'
        BY <1>1, <2>1, <2>2 DEF PhasesAgree, Polling
      <4>2. \A v \in U : ~(v < 1)
        BY DEF U
      <4>3. \A i \in 1..Len(client') : client'[i].kind \notin {"merged", "fail"}
        BY <2>4, <3>2
      <4> QED  BY <2>1, <3>2, <4>1, <4>2, <4>3 DEF PhasesAgree, Polling
    <3> QED  BY <2>1, <3>1, <3>2
  <2>7. MergedIsWhole'
    BY <2>4 DEF MergedIsWhole
  <2> QED  BY <2>2, <2>4, <2>5, <2>6, <2>7 DEF MergeInvariant
<1>11. CASE PollPending \/ Woken
  <2>1. /\ UNCHANGED <<asked, channel, budget, live, terminal, merging, client>>
        /\ \/ phase = "polled" /\ phase' = "waiting" /\ UNCHANGED <<cursor, pendingSeen>>
           \/ phase = "waiting" /\ phase' = "polled" /\ cursor' = 1 /\ pendingSeen' = FALSE
    BY <1>11 DEF PollPending, Woken
  <2>2. MergeTypeOK'
    <3>1. cursor' \in 1 .. Upstreams + 1
      BY <1>1, <2>1 DEF MergeTypeOK
    <3>2. pendingSeen' \in BOOLEAN
      BY <1>1, <2>1 DEF MergeTypeOK
    <3> QED  BY <1>1, <2>1, <3>1, <3>2, PollTyped DEF MergeTypeOK
  <2>3. PhasesAgree'
    <3>1. \A v \in U : v \in live' \/ v \in terminal' \/ Left(v)'
      BY <1>1, <2>1 DEF PhasesAgree, Left
    <3>2. phase' = "polled" => \A v \in U : v < cursor' => v \notin live'
      BY <2>1 DEF U
    <3>3. \A i \in 1..Len(client') : client'[i].kind \notin {"merged", "fail"}
      BY <1>1, <2>1 DEF PhasesAgree
    <3> QED  BY <2>1, <3>1, <3>2, <3>3 DEF PhasesAgree
  <2> QED  BY <1>2, <2>1, <2>2, <2>3
<1>12. CASE MergeTerminal
  <2>1. /\ phase = "polled" /\ cursor > Upstreams /\ ~pendingSeen /\ phase' = "complete"
        /\ UNCHANGED <<asked, cursor, pendingSeen, channel, budget, live, terminal, merging>>
    BY <1>12 DEF MergeTerminal
  <2>2. PhasesAgree'
    BY <2>1 DEF PhasesAgree
  <2>3. EndsAreLast'
    BY <1>1, <2>1 DEF EndsAreLast
  <2>4. \A v \in U : v \in terminal \/ Left(v)
    BY <1>1, <2>1 DEF PhasesAgree, MergeTypeOK, U
  <2>5. CASE merging
    <3> DEFINE m == [kind |-> "merged", from |-> terminal]
    <3>1. m \in Message /\ client' = Append(client, m) /\ m.from = terminal
      BY <1>1, <1>12, <2>5 DEF MergeTerminal, Tells, Message
    <3> HIDE DEF m
    <3>2. /\ client' \in Seq(Message) /\ OneEnd'
          /\ \A i \in Messages("merged")' : client'[i] = m
      BY <1>1, <2>1, <3>1, ClientTold
    <3>3. MergedIsWhole'
      <4>1. ASSUME NEW i \in Messages("merged")', NEW v \in U, v \notin client'[i].from
            PROVE  budget'[v] = 0 /\ \A j \in DOMAIN channel'[v] : channel'[v][j] # "response"
        <5>1. Left(v)
          BY <2>4, <3>1, <3>2, <4>1
        <5> QED  BY <2>1, <5>1 DEF Left
      <4> QED  BY <4>1 DEF MergedIsWhole
    <3>4. MergeTypeOK'
      BY <1>1, <2>1, <3>2 DEF MergeTypeOK
    <3> QED  BY <2>2, <2>3, <3>2, <3>3, <3>4 DEF MergeInvariant
  <2>6. CASE ~merging
    <3>1. UNCHANGED <<client, channel, budget>>
      BY <1>12, <2>6 DEF MergeTerminal
    <3>2. MergeTypeOK'
      BY <1>1, <2>1, <3>1 DEF MergeTypeOK
    <3> QED  BY <1>2, <2>2, <3>1, <3>2
  <2> QED  BY <2>5, <2>6
<1>13. CASE UNCHANGED mergeVars
  <2>1. MergeTypeOK'
    BY <1>1, <1>13 DEF mergeVars, MergeTypeOK
  <2>2. PhasesAgree'
    BY <1>1, <1>13 DEF mergeVars, PhasesAgree, Left
  <2> QED  BY <1>2, <1>13, <2>1, <2>2 DEF mergeVars
<1> QED
  <2>1. CASE \E u \in U, k \in Kind : Sends(u, k)
    BY <1>6, <2>1
  <2> QED  BY <1>3, <1>4, <1>5, <1>7, <1>9, <1>10, <1>11, <1>12, <1>13, <2>1
           DEF MergeNext, PollStep

(* The client's stream has one end, and when that is the merged response,  *)
(* it leaves out no upstream that answered or still may.                   *)
THEOREM MergeStaysConsistent == MergeSpec => []MergeConsistent
<1>1. MergeInvariant => MergeConsistent
  BY DEF MergeInvariant, MergeConsistent
<1>2. MergeInvariant /\ [MergeNext]_mergeVars => MergeInvariant'
  BY MergeStep
<1> QED  BY <1>1, <1>2, MergeInvariantInit, PTL DEF MergeSpec

-----------------------------------------------------------------------------
(***************************************************************************)
(* ExtProc, for channels of any size, bodies of any length and any answers.*)
(***************************************************************************)

(* What is on its way from the server, the server has said.                *)
Backed(m, s) ==
  /\ m[2] = "headers" => s[m[1]].answered
  /\ m[2] = "immediate" => \E e \in Direction : s[e].last

AnswersBacked ==
  /\ \A i \in 1..Len(fromServer) : Backed(fromServer[i], server)
  /\ \A i \in 1..Len(carried) : Backed(carried[i], server)
  /\ \A d \in Direction : \A i \in 1..Len(forward[d]) : Backed(<<d, forward[d][i]>>, server)

(* A direction waits for its verdict only while the proxy does, and a      *)
(* request fails open only by configuration.                               *)
VerdictsAgree ==
  /\ PassedWasProcessed /\ OnlyRequestsFailOpen
  /\ verdict["request"] = "none" => stage = "start"
  /\ verdict["request"] = "pending" => stage = "request"
  /\ verdict["request"] = "original" => failOpen
  /\ stage = "start" => verdict["request"] = "none" /\ handler["request"] = "off"

(* Before its response is mutated, and for good when the request passed    *)
(* unprocessed, nothing of a response is with the processor.               *)
ResponseQuiet ==
  stage \in {"start", "request", "upstream", "answered"} \/ verdict["request"] = "original" =>
    /\ server["response"] = Unread /\ pump["response"] = 0
    /\ handler["response"] = "off" /\ verdict["response"] \in {"none", "untouched"}
    /\ \A i \in 1..Len(toServer) : toServer[i][1] = "request"

(* A new body is read after its message passed; and who feeds it stops for *)
(* one of four reasons.                                                    *)
BodiesAgree ==
  \A d \in Direction :
    /\ newBody[d] # "unread" => verdict[d] = "passed"
    /\ newBody[d] = "complete" => ~feeding[d]
    /\ feeding[d] \/ ended[d] \/ link = "down" \/ handler[d] = "panicked"
         \/ verdict[d] = "immediate"

ExchangeInvariant ==
  ProcTypeOK /\ AnswersBacked /\ VerdictsAgree /\ ResponseQuiet /\ BodiesAgree

LEMMA ProcConstants ==
  /\ Room \in Nat /\ Room > 0 /\ MaxFrames \in Nat /\ MaxChunks \in Nat
  /\ "request" \in Direction /\ "response" \in Direction
  /\ \A d \in Direction : d = "request" \/ d = "response"
BY RoomAssumption DEF Direction

LEMMA ExchangeInvariantInit == ProcInit => ExchangeInvariant
<1> SUFFICES ASSUME ProcInit  PROVE ExchangeInvariant
  OBVIOUS
<1> USE ProcConstants DEF ProcInit, ProcBegin
<1>1. ProcTypeOK
  <2>1. /\ toServer \in Seq(Direction \X {"headers", "frame", "eos"}) /\ Len(toServer) <= Room
        /\ fromServer \in Seq(Direction \X Answers) /\ Len(fromServer) <= Room
        /\ carried \in Seq(Direction \X Answers) /\ Len(carried) <= 2
    OBVIOUS
  <2>2. /\ forward \in [Direction -> Seq(Answers)] /\ \A d \in Direction : Len(forward[d]) <= 1
        /\ chunks \in [Direction -> 0 .. 1] /\ pump \in [Direction -> 0 .. MaxFrames + 1]
    OBVIOUS
  <2>3. server \in [Direction -> [read : {"nothing", "headers", "eos"}, answered : BOOLEAN,
                                  streamed : 0 .. MaxChunks, last : BOOLEAN]]
    BY DEF Unread
  <2>4. /\ failOpen \in BOOLEAN /\ hadBody \in [Direction -> BOOLEAN]
        /\ feeding \in [Direction -> BOOLEAN] /\ ended \in [Direction -> BOOLEAN]
    OBVIOUS
  <2> QED  BY <2>1, <2>2, <2>3, <2>4 DEF ProcTypeOK
<1>2. AnswersBacked
  BY DEF AnswersBacked
<1>3. VerdictsAgree
  BY DEF VerdictsAgree, PassedWasProcessed, OnlyRequestsFailOpen
<1>4. ResponseQuiet
  BY DEF ResponseQuiet
<1>5. BodiesAgree
  BY DEF BodiesAgree
<1> QED  BY <1>1, <1>2, <1>3, <1>4, <1>5 DEF ExchangeInvariant

(* The server takes back nothing that it said.                             *)
LEMMA AnswersStayBacked ==
  ASSUME ProcTypeOK, AnswersBacked, UNCHANGED <<fromServer, carried, forward>>,
         \A e \in Direction : /\ server[e].answered => server'[e].answered
                              /\ server[e].last => server'[e].last
  PROVE  AnswersBacked'
<1>1. \A a \in Answers : \A d \in Direction : Backed(<<d, a>>, server) => Backed(<<d, a>>, server')
  BY DEF Backed
<1>2. \A m \in Direction \X Answers : Backed(m, server) => Backed(m, server')
  BY <1>1
<1>3. /\ \A i \in 1..Len(fromServer) : fromServer[i] \in Direction \X Answers
      /\ \A i \in 1..Len(carried) : carried[i] \in Direction \X Answers
      /\ \A d \in Direction : \A i \in 1..Len(forward[d]) : forward[d][i] \in Answers
  BY DEF ProcTypeOK
<1> QED  BY <1>1, <1>2, <1>3 DEF AnswersBacked

(* A place in the channel to the server is taken.                          *)
LEMMA SentToServer ==
  ASSUME ProcTypeOK, NEW d \in Direction, NEW k \in {"headers", "frame", "eos"},
         ProcSends(<<d, k>>)
  PROVE  /\ toServer' \in Seq(Direction \X {"headers", "frame", "eos"})
         /\ Len(toServer') <= Room
         /\ \A i \in 1..Len(toServer') :
              \/ i \in 1..Len(toServer) /\ toServer'[i] = toServer[i]
              \/ toServer'[i] = <<d, k>>
<1> DEFINE m == <<d, k>>
<1>1. m \in Direction \X {"headers", "frame", "eos"}
  OBVIOUS
<1>2. toServer' = Append(toServer, m) /\ Len(toServer) < Room
  BY DEF ProcSends
<1>3. toServer \in Seq(Direction \X {"headers", "frame", "eos"}) /\ Len(toServer) \in Nat
  BY DEF ProcTypeOK
<1> HIDE DEF m
<1>4. /\ toServer' \in Seq(Direction \X {"headers", "frame", "eos"})
      /\ Len(toServer') = Len(toServer) + 1
      /\ \A i \in 1..Len(toServer') :
           \/ i \in 1..Len(toServer) /\ toServer'[i] = toServer[i]
           \/ toServer'[i] = m
  BY <1>1, <1>2, <1>3
<1>5. Len(toServer') <= Room
  BY <1>2, <1>3, <1>4, ProcConstants
<1> QED  BY <1>4, <1>5 DEF m

(* A mutation starts, or fails because the exchange is over.               *)
LEMMA MutationStarts ==
  ASSUME ExchangeInvariant, NEW d \in Direction, StartMutation(d),
         UNCHANGED <<failOpen, hadBody, serverSide, chunks, feeding, newBody, ended>>,
         \/ stage = "start" /\ d = "request"
         \/ stage = "answered" /\ d = "response" /\ verdict["request"] # "original"
  PROVE  ExchangeInvariant'
<1> USE ProcConstants
<1>1. /\ ProcTypeOK /\ AnswersBacked /\ VerdictsAgree /\ ResponseQuiet /\ BodiesAgree
      /\ UNCHANGED <<link, fromServer, carried, forward, server>>
  BY DEF ExchangeInvariant, serverSide
<1>2. verdict[d] \in {"none", "untouched"} /\ handler[d] = "off"
  BY <1>1 DEF VerdictsAgree, ResponseQuiet
<1>3. \/ /\ ProcSends(<<d, "headers">>)
         /\ handler' = [handler EXCEPT ![d] = "loop"]
         /\ verdict' = [verdict EXCEPT ![d] = "pending"]
         /\ \E n \in 0 .. MaxFrames : pump' = [pump EXCEPT ![d] = IF hadBody[d] THEN n + 1 ELSE 0]
         /\ stage' = d
      \/ /\ UNCHANGED <<toServer, handler, pump>>
         /\ verdict' = [verdict EXCEPT ![d] = "error"] /\ stage' = "done"
  BY DEF StartMutation, ProcSendFails
<1>4. /\ verdict' \in [Direction -> {"none", "pending", "passed", "original", "untouched",
                                     "immediate", "error"}]
      /\ \/ verdict'[d] = "pending" /\ stage' = d
         \/ verdict'[d] = "error" /\ stage' = "done"
      /\ \A e \in Direction : e # d => verdict'[e] = verdict[e]
      /\ handler' \in [Direction -> {"off", "loop", "chunk", "last", "over", "panicked"}]
      /\ \A e \in Direction : e # d => handler'[e] = handler[e]
      /\ handler'[d] \in {"off", "loop"}
      /\ pump' \in [Direction -> 0 .. MaxFrames + 1]
      /\ \A e \in Direction : e # d => pump'[e] = pump[e]
      /\ stage' \in {"request", "response", "done"}
  <2>1. /\ pump' \in [Direction -> 0 .. MaxFrames + 1]
        /\ \A e \in Direction : e # d => pump'[e] = pump[e]
    <3>1. CASE UNCHANGED pump
      BY <1>1, <3>1 DEF ProcTypeOK
    <3>2. ASSUME NEW n \in 0 .. MaxFrames,
                 pump' = [pump EXCEPT ![d] = IF hadBody[d] THEN n + 1 ELSE 0]
          PROVE  /\ pump' \in [Direction -> 0 .. MaxFrames + 1]
                 /\ \A e \in Direction : e # d => pump'[e] = pump[e]
      <4>1. (IF hadBody[d] THEN n + 1 ELSE 0) \in 0 .. MaxFrames + 1
        OBVIOUS
      <4> QED  BY <1>1, <3>2, <4>1 DEF ProcTypeOK
    <3> QED  BY <1>3, <3>1, <3>2
  <2> QED  BY ZenonT(60), <1>1, <1>2, <1>3, <2>1 DEF ProcTypeOK
<1>5. /\ toServer' \in Seq(Direction \X {"headers", "frame", "eos"}) /\ Len(toServer') <= Room
      /\ \A i \in 1..Len(toServer') :
           \/ i \in 1..Len(toServer) /\ toServer'[i] = toServer[i]
           \/ toServer'[i] = <<d, "headers">>
  BY <1>1, <1>3, SentToServer DEF ProcTypeOK
<1>6. ProcTypeOK'
  BY <1>1, <1>4, <1>5 DEF ProcTypeOK
<1>7. AnswersBacked'
  BY <1>1 DEF AnswersBacked
<1>8. VerdictsAgree'
  <2>1. PassedWasProcessed'
    BY <1>1, <1>4 DEF VerdictsAgree, PassedWasProcessed
  <2>2. OnlyRequestsFailOpen'
    BY <1>1, <1>2, <1>4 DEF VerdictsAgree, OnlyRequestsFailOpen, ResponseQuiet
  <2>3. /\ verdict'["request"] = "none" => stage' = "start"
        /\ verdict'["request"] = "pending" => stage' = "request"
        /\ verdict'["request"] = "original" => failOpen'
        /\ stage' # "start"
    BY <1>1, <1>4 DEF VerdictsAgree
  <2> QED  BY <2>1, <2>2, <2>3 DEF VerdictsAgree
<1>9. ResponseQuiet'
  <2>1. CASE stage = "start" /\ d = "request"
    <3>1. /\ server'["response"] = Unread /\ pump'["response"] = 0
          /\ handler'["response"] = "off" /\ verdict'["response"] \in {"none", "untouched"}
      BY <1>1, <1>4, <2>1 DEF ResponseQuiet
    <3>2. \A i \in 1..Len(toServer') : toServer'[i][1] = "request"
      BY <1>1, <1>5, <2>1 DEF ResponseQuiet
    <3> QED  BY <3>1, <3>2 DEF ResponseQuiet
  <2>2. CASE d = "response" /\ verdict["request"] # "original"
    BY <1>4, <2>2 DEF ResponseQuiet
  <2> QED  BY <2>1, <2>2
<1>10. BodiesAgree'
  <2>1. ASSUME NEW e \in Direction
        PROVE  /\ newBody'[e] # "unread" => verdict'[e] = "passed"
               /\ newBody'[e] = "complete" => ~feeding'[e]
               /\ feeding'[e] \/ ended'[e] \/ link' = "down" \/ handler'[e] = "panicked"
                    \/ verdict'[e] = "immediate"
    BY <1>1, <1>2, <1>4 DEF BodiesAgree
  <2> QED  BY <2>1 DEF BodiesAgree
<1> QED  BY <1>6, <1>7, <1>8, <1>9, <1>10 DEF ExchangeInvariant

(* The exchange: what the server reads, and what it says.                  *)
LEMMA ServerStepKeeps ==
  ASSUME ExchangeInvariant, ServerStep
  PROVE  ExchangeInvariant'
<1> USE ProcConstants
<1>1. /\ ProcTypeOK /\ AnswersBacked /\ VerdictsAgree /\ ResponseQuiet /\ BodiesAgree
      /\ UNCHANGED <<failOpen, hadBody, stage, link, carried, forward, handlerSide, pump>>
  BY DEF ExchangeInvariant, ServerStep, ServerReads, ServerAnswers
<1> DEFINE State == [read : {"nothing", "headers", "eos"}, answered : BOOLEAN,
                     streamed : 0 .. MaxChunks, last : BOOLEAN]
<1>2. /\ \A e \in Direction : server[e] \in State
      /\ toServer \in Seq(Direction \X {"headers", "frame", "eos"}) /\ Len(toServer) \in Nat
      /\ Len(toServer) <= Room
      /\ fromServer \in Seq(Direction \X Answers) /\ Len(fromServer) \in Nat
      /\ Len(fromServer) <= Room
  BY <1>1 DEF ProcTypeOK
(* It grows, and where it does so for the response, that is not quiet.     *)
<1>3. ASSUME server' \in [Direction -> State],
             \A e \in Direction : /\ server[e].answered => server'[e].answered
                                  /\ server[e].last => server'[e].last,
             toServer' \in Seq(Direction \X {"headers", "frame", "eos"}), Len(toServer') <= Room,
             fromServer' \in Seq(Direction \X Answers), Len(fromServer') <= Room,
             AnswersBacked', ResponseQuiet'
      PROVE  ExchangeInvariant'
  <2>1. ProcTypeOK'
    BY <1>1, <1>3 DEF ProcTypeOK, handlerSide
  <2>2. VerdictsAgree'
    <3>1. PassedWasProcessed'
      BY <1>1, <1>3 DEF VerdictsAgree, PassedWasProcessed, handlerSide
    <3> QED  BY <1>1, <3>1 DEF VerdictsAgree, OnlyRequestsFailOpen, handlerSide
  <2>3. BodiesAgree'
    BY <1>1 DEF BodiesAgree, handlerSide
  <2> QED  BY <1>3, <2>1, <2>2, <2>3 DEF ExchangeInvariant
<1>4. CASE ServerReads
  <2> DEFINE d == Head(toServer)[1]
             k == Head(toServer)[2]
             s == [server[d] EXCEPT !.read = IF k = "frame" THEN @ ELSE k]
  <2>1. /\ toServer # <<>> /\ toServer' = Tail(toServer) /\ UNCHANGED fromServer
        /\ server' = [server EXCEPT ![d].read = IF k = "frame" THEN @ ELSE k]
    BY <1>4 DEF ServerReads
  <2>2. /\ Head(toServer) = toServer[1] /\ 1 \in 1..Len(toServer)
        /\ Head(toServer) \in Direction \X {"headers", "frame", "eos"}
        /\ d \in Direction /\ k \in {"headers", "frame", "eos"}
        /\ Tail(toServer) \in Seq(Direction \X {"headers", "frame", "eos"})
        /\ Len(Tail(toServer)) <= Room
        /\ \A i \in 1..Len(Tail(toServer)) : i + 1 \in 1..Len(toServer)
                                             /\ Tail(toServer)[i] = toServer[i + 1]
    BY <1>2, <2>1
  <2>3. s \in State /\ s.answered = server[d].answered /\ s.last = server[d].last
    BY ZenonT(60), <1>2, <2>2
  <2>4. server' = [server EXCEPT ![d] = s]
    BY <2>1
  <2> HIDE DEF s, State
  <2>5. server' \in [Direction -> State]
    BY <1>1, <2>2, <2>3, <2>4 DEF ProcTypeOK, State
  <2>6. \A e \in Direction : server'[e].answered = server[e].answered
                             /\ server'[e].last = server[e].last /\ (e # d => server'[e] = server[e])
    BY <1>1, <2>2, <2>3, <2>4 DEF ProcTypeOK
  <2>7. AnswersBacked'
    BY <1>1, <2>1, <2>6, AnswersStayBacked
  <2>8. ResponseQuiet'
    <3>1. ASSUME stage \in {"start", "request", "upstream", "answered"}
                 \/ verdict["request"] = "original"
          PROVE  server'["response"] = server["response"]
                 /\ \A i \in 1..Len(toServer') : toServer'[i][1] = "request"
      <4>1. \A i \in 1..Len(toServer) : toServer[i][1] = "request"
        BY <1>1, <3>1 DEF ResponseQuiet
      <4>2. d = "request"
        BY <2>2, <4>1
      <4> QED  BY <2>1, <2>2, <2>6, <4>1, <4>2
    <3> QED  BY <1>1, <3>1 DEF ResponseQuiet, handlerSide
  <2> QED  BY <1>2, <1>3, <2>1, <2>2, <2>5, <2>6, <2>7, <2>8
<1>5. ASSUME NEW d \in Direction, NEW a \in Answers, ServerAnswers(d, a)
      PROVE  ExchangeInvariant'
  <2> DEFINE s == [server[d] EXCEPT !.answered = @ \/ a = "headers",
                                    !.streamed = IF a = "chunk" THEN @ + 1 ELSE @,
                                    !.last = a \in {"last", "immediate"}]
             m == <<d, a>>
  <2>1. /\ Len(fromServer) < Room /\ server[d].read # "nothing" /\ ~server[d].last
        /\ a = "chunk" => server[d].streamed < MaxChunks
        /\ server' = [server EXCEPT ![d] = s] /\ fromServer' = Append(fromServer, m)
        /\ UNCHANGED toServer
    <3>1. a = "chunk" => server[d].streamed < MaxChunks
      BY <1>5 DEF ServerAnswers
    <3>2. server' = [server EXCEPT ![d] = s]
      BY <1>5 DEF ServerAnswers
    <3>3. /\ Len(fromServer) < Room /\ server[d].read # "nothing" /\ ~server[d].last
          /\ fromServer' = Append(fromServer, m) /\ UNCHANGED toServer
      BY <1>5 DEF ServerAnswers
    <3> QED  BY <3>1, <3>2, <3>3
  <2>2. /\ s \in State /\ (server[d].answered \/ a = "headers" => s.answered)
        /\ (a = "immediate" => s.last)
    <3>1. /\ server[d] \in State /\ (a \in {"last", "immediate"}) \in BOOLEAN
          /\ (server[d].answered \/ a = "headers") \in BOOLEAN
      BY <1>2
    <3>2. (IF a = "chunk" THEN server[d].streamed + 1 ELSE server[d].streamed) \in 0 .. MaxChunks
      BY <2>1, <3>1
    <3> QED  BY <3>1, <3>2
  <2>3. m \in Direction \X Answers /\ m[1] = d /\ m[2] = a
    OBVIOUS
  <2> HIDE DEF s, State, m
  <2>4. server' \in [Direction -> State] /\ server'[d] = s
    BY <1>1, <2>1, <2>2 DEF ProcTypeOK, State
  <2>5. \A e \in Direction : e # d => server'[e] = server[e]
    BY <1>1, <2>1 DEF ProcTypeOK
  <2>6. \A e \in Direction : /\ server[e].answered => server'[e].answered
                             /\ server[e].last => server'[e].last
    BY <2>1, <2>2, <2>4, <2>5
  <2>7. /\ fromServer' \in Seq(Direction \X Answers) /\ Len(fromServer') = Len(fromServer) + 1
        /\ \A i \in 1..Len(fromServer') :
             \/ i \in 1..Len(fromServer) /\ fromServer'[i] = fromServer[i]
             \/ fromServer'[i] = m
    BY <1>2, <2>1, <2>3
  <2>8. Backed(m, server')
    BY <2>2, <2>3, <2>4 DEF Backed
  <2>9. \A n \in Direction \X Answers : Backed(n, server) => Backed(n, server')
    BY <2>6 DEF Backed
  <2>10. AnswersBacked'
    <3>1. ASSUME NEW i \in 1..Len(fromServer')  PROVE Backed(fromServer'[i], server')
      <4>1. CASE i \in 1..Len(fromServer) /\ fromServer'[i] = fromServer[i]
        <5>1. fromServer[i] \in Direction \X Answers
          BY <1>2, <4>1
        <5>2. Backed(fromServer[i], server)
          BY <1>1, <4>1 DEF AnswersBacked
        <5> QED  BY <2>9, <4>1, <5>1, <5>2
      <4>2. CASE fromServer'[i] = m
        BY <2>8, <4>2
      <4> QED  BY <2>7, <3>1, <4>1, <4>2
    <3>2. \A i \in 1..Len(carried') : Backed(carried'[i], server')
      <4>1. carried \in Seq(Direction \X Answers) /\ UNCHANGED carried
        BY <1>1 DEF ProcTypeOK
      <4>2. \A i \in 1..Len(carried) : carried[i] \in Direction \X Answers
        BY <4>1
      <4> QED  BY <1>1, <2>9, <4>1, <4>2 DEF AnswersBacked
    <3>3. ASSUME NEW e \in Direction, NEW i \in 1..Len(forward'[e])
          PROVE  Backed(<<e, forward'[e][i]>>, server')
      <4>1. <<e, forward[e][i]>> \in Direction \X Answers
        BY SMTT(60), <1>1, <3>3 DEF ProcTypeOK
      <4> QED  BY <1>1, <2>9, <3>3, <4>1 DEF AnswersBacked
    <3> QED  BY <3>1, <3>2, <3>3 DEF AnswersBacked
  <2>11. ResponseQuiet'
    <3>1. server["response"] = Unread => d # "response"
      BY <2>1 DEF Unread
    <3> QED  BY <1>1, <2>1, <2>5, <3>1 DEF ResponseQuiet, handlerSide
  <2> QED  BY <1>2, <1>3, <2>1, <2>4, <2>6, <2>7, <2>10, <2>11
<1> QED  BY <1>4, <1>5 DEF ServerStep

(* The dispatcher takes an answer, or hands one on.                        *)
LEMMA DispatcherKeeps ==
  ASSUME ExchangeInvariant, Dispatch \/ ForwardAnswer
  PROVE  ExchangeInvariant'
<1> USE ProcConstants
<1>1. /\ ProcTypeOK /\ AnswersBacked /\ VerdictsAgree /\ ResponseQuiet /\ BodiesAgree
      /\ UNCHANGED <<failOpen, hadBody, stage, link, toServer, server, handlerSide, pump>>
  BY DEF ExchangeInvariant, Dispatch, ForwardAnswer
<1>2. /\ fromServer \in Seq(Direction \X Answers) /\ Len(fromServer) \in Nat
      /\ carried \in Seq(Direction \X Answers) /\ Len(carried) \in Nat
      /\ forward \in [Direction -> Seq(Answers)] /\ \A e \in Direction : Len(forward[e]) <= 1
      /\ Len(fromServer) <= Room /\ Len(carried) <= 2
  BY <1>1 DEF ProcTypeOK
<1>3. ASSUME fromServer' \in Seq(Direction \X Answers), Len(fromServer') <= Room,
             carried' \in Seq(Direction \X Answers), Len(carried') <= 2,
             forward' \in [Direction -> Seq(Answers)],
             \A e \in Direction : Len(forward'[e]) <= 1, AnswersBacked'
      PROVE  ExchangeInvariant'
  <2>1. ProcTypeOK'
    BY <1>1, <1>3 DEF ProcTypeOK, handlerSide
  <2>2. VerdictsAgree'
    BY <1>1 DEF VerdictsAgree, PassedWasProcessed, OnlyRequestsFailOpen, handlerSide
  <2>3. ResponseQuiet' /\ BodiesAgree'
    BY <1>1 DEF ResponseQuiet, BodiesAgree, handlerSide
  <2> QED  BY <1>3, <2>1, <2>2, <2>3 DEF ExchangeInvariant
<1>4. CASE Dispatch
  <2> DEFINE m == Head(fromServer)
             both == <<<<"request", m[2]>>, <<"response", m[2]>>>>
  <2>1. /\ fromServer # <<>> /\ fromServer' = Tail(fromServer) /\ carried' = Recipients(m)
        /\ UNCHANGED forward
    BY <1>4 DEF Dispatch
  <2>2. /\ m = fromServer[1] /\ 1 \in 1..Len(fromServer) /\ m \in Direction \X Answers
        /\ Tail(fromServer) \in Seq(Direction \X Answers)
        /\ Len(Tail(fromServer)) <= Room
        /\ \A i \in 1..Len(Tail(fromServer)) : i + 1 \in 1..Len(fromServer)
                                               /\ Tail(fromServer)[i] = fromServer[i + 1]
    BY <1>2, <2>1
  <2>3. Backed(m, server)
    BY <1>1, <2>2 DEF AnswersBacked
  <2>4. /\ carried' \in Seq(Direction \X Answers) /\ Len(carried') <= 2
        /\ \A i \in 1..Len(carried') : Backed(carried'[i], server)
    <3>1. CASE m[2] = "immediate"
      <4>1. carried' = both /\ \E e \in Direction : server[e].last
        BY <2>1, <2>3, <3>1 DEF Recipients, Backed
      <4>2. /\ both[1] = <<"request", "immediate">> /\ both[2] = <<"response", "immediate">>
            /\ Len(both) = 2 /\ both \in Seq(Direction \X Answers)
        BY <3>1 DEF Answers
      <4>3. \A e \in Direction : Backed(<<e, "immediate">>, server)
        BY <4>1 DEF Backed
      <4> HIDE DEF both
      <4>4. \A i \in 1..Len(both) : i = 1 \/ i = 2
        BY <4>2
      <4> QED  BY <4>1, <4>2, <4>3, <4>4
    <3>2. CASE m[2] # "immediate"
      <4>1. carried' = <<m>>
        BY <2>1, <3>2 DEF Recipients
      <4> HIDE DEF m
      <4>2. Len(<<m>>) = 1 /\ <<m>>[1] = m /\ <<m>> \in Seq(Direction \X Answers)
        BY <2>2
      <4> QED  BY <2>3, <4>1, <4>2
    <3> QED  BY <3>1, <3>2
  <2>5. AnswersBacked'
    <3>1. \A i \in 1..Len(fromServer') : Backed(fromServer'[i], server)
      BY <1>1, <2>1, <2>2 DEF AnswersBacked
    <3> QED  BY <1>1, <2>1, <2>4, <3>1 DEF AnswersBacked
  <2> QED  BY <1>2, <1>3, <2>1, <2>2, <2>4, <2>5
<1>5. CASE ForwardAnswer
  <2> DEFINE d == Head(carried)[1]
             a == Head(carried)[2]
  <2>1. /\ carried # <<>> /\ carried' = Tail(carried) /\ UNCHANGED fromServer
        /\ \/ UNCHANGED forward
           \/ forward' = [forward EXCEPT ![d] = <<a>>]
    BY <1>5 DEF ForwardAnswer
  <2>2. /\ Head(carried) = carried[1] /\ 1 \in 1..Len(carried)
        /\ Head(carried) \in Direction \X Answers
        /\ Head(carried) = <<d, a>> /\ d \in Direction /\ a \in Answers
        /\ Tail(carried) \in Seq(Direction \X Answers) /\ Len(Tail(carried)) <= 2
        /\ \A i \in 1..Len(Tail(carried)) : i + 1 \in 1..Len(carried)
                                            /\ Tail(carried)[i] = carried[i + 1]
    BY <1>2, <2>1
  <2>3. Backed(<<d, a>>, server)
    BY <1>1, <2>2 DEF AnswersBacked
  <2> HIDE DEF d, a
  <2>4. <<a>> \in Seq(Answers) /\ Len(<<a>>) = 1 /\ <<a>>[1] = a
    BY <2>2
  <2>5. /\ forward' \in [Direction -> Seq(Answers)]
        /\ \A e \in Direction : \/ forward'[e] = forward[e]
                                \/ e = d /\ forward'[e] = <<a>>
    BY <1>2, <2>1, <2>2, <2>4
  <2>6. ASSUME NEW e \in Direction  PROVE Len(forward'[e]) <= 1
    <3>1. CASE forward'[e] = forward[e]
      BY <1>2, <3>1
    <3>2. CASE forward'[e] = <<a>>
      BY <2>4, <3>2
    <3> QED  BY <2>5, <3>1, <3>2
  <2>7. AnswersBacked'
    <3>1. \A i \in 1..Len(carried') : Backed(carried'[i], server)
      BY <1>1, <2>1, <2>2 DEF AnswersBacked
    <3>2. ASSUME NEW e \in Direction, NEW i \in 1..Len(forward'[e])
          PROVE  Backed(<<e, forward'[e][i]>>, server)
      <4>1. CASE forward'[e] = forward[e]
        BY <1>1, <3>2, <4>1 DEF AnswersBacked
      <4>2. CASE e = d /\ forward'[e] = <<a>>
        <5>1. i = 1
          BY <2>4, <3>2, <4>2
        <5> QED  BY <2>3, <2>4, <4>2, <5>1
      <4> QED  BY <2>5, <4>1, <4>2
    <3>3. \A i \in 1..Len(fromServer) : Backed(fromServer[i], server)
      BY <1>1 DEF AnswersBacked
    <3> QED  BY <1>1, <2>1, <3>1, <3>2, <3>3 DEF AnswersBacked
  <2> QED  BY <1>2, <1>3, <2>1, <2>2, <2>5, <2>6, <2>7
<1> QED  BY <1>4, <1>5

LEMMA FlagSet ==
  ASSUME NEW S, NEW f \in [S -> BOOLEAN], NEW x \in S, NEW b \in BOOLEAN,
         NEW g, g = [f EXCEPT ![x] = b]
  PROVE  g \in [S -> BOOLEAN] /\ g[x] = b /\ \A y \in S : y # x => g[y] = f[y]
OBVIOUS

(* A handler decides at most once, for a reason; and when it stops feeding *)
(* the new body, there is one for that.                                    *)
LEMMA HandlerMoves ==
  ASSUME ProcTypeOK, VerdictsAgree, ResponseQuiet, BodiesAgree, NEW d \in Direction,
         UNCHANGED <<stage, server, toServer, pump, link, failOpen, newBody>>,
         handler[d] # "off", handler[d] # "panicked",
         \A e \in Direction : e # d => /\ handler'[e] = handler[e] /\ verdict'[e] = verdict[e]
                                       /\ feeding'[e] = feeding[e] /\ ended'[e] = ended[e],
         \/ verdict'[d] = verdict[d]
         \/ /\ verdict[d] = "pending"
            /\ verdict'[d] \in {"passed", "original", "immediate", "error"},
         verdict'[d] = "passed" => server[d].answered,
         verdict'[d] = "immediate" => \E e \in Direction : server[e].last,
         verdict'[d] = "original" => d = "request" /\ failOpen,
         feeding'[d] => feeding[d],
         \/ feeding'[d] \/ ended'[d] \/ link = "down" \/ handler'[d] = "panicked"
         \/ verdict'[d] = "immediate"
  PROVE  VerdictsAgree' /\ ResponseQuiet' /\ BodiesAgree'
<1> USE ProcConstants
<1>1. VerdictsAgree'
  <2>1. PassedWasProcessed'
    BY DEF VerdictsAgree, PassedWasProcessed
  <2>2. OnlyRequestsFailOpen'
    <3>1. verdict'["response"] # "original"
      BY DEF VerdictsAgree, OnlyRequestsFailOpen
    <3>2. verdict'["response"] = "untouched" => verdict'["request"] = "original"
      BY DEF VerdictsAgree, OnlyRequestsFailOpen
    <3> QED  BY <3>1, <3>2 DEF OnlyRequestsFailOpen
  <2>3. /\ verdict'["request"] = "none" => stage' = "start"
        /\ verdict'["request"] = "pending" => stage' = "request"
        /\ verdict'["request"] = "original" => failOpen'
        /\ stage' = "start" => verdict'["request"] = "none" /\ handler'["request"] = "off"
    BY DEF VerdictsAgree
  <2> QED  BY <2>1, <2>2, <2>3 DEF VerdictsAgree
<1>2. ResponseQuiet'
  <2> SUFFICES ASSUME \/ stage \in {"start", "request", "upstream", "answered"}
                      \/ verdict'["request"] = "original"
               PROVE  /\ server["response"] = Unread /\ pump["response"] = 0
                      /\ handler'["response"] = "off"
                      /\ verdict'["response"] \in {"none", "untouched"}
                      /\ \A i \in 1..Len(toServer) : toServer[i][1] = "request"
    BY DEF ResponseQuiet
  <2>1. \/ stage \in {"start", "request", "upstream", "answered"}
        \/ verdict["request"] = "original"
    BY DEF VerdictsAgree
  <2>2. d # "response"
    BY <2>1 DEF ResponseQuiet
  <2> QED  BY <2>1, <2>2 DEF ResponseQuiet
<1>3. BodiesAgree'
  <2>1. ASSUME NEW e \in Direction
        PROVE  /\ newBody'[e] # "unread" => verdict'[e] = "passed"
               /\ newBody'[e] = "complete" => ~feeding'[e]
               /\ feeding'[e] \/ ended'[e] \/ link' = "down" \/ handler'[e] = "panicked"
                    \/ verdict'[e] = "immediate"
    <3>1. CASE e = d
      BY <3>1 DEF BodiesAgree
    <3>2. CASE e # d
      BY <3>2 DEF BodiesAgree
    <3> QED  BY <3>1, <3>2
  <2> QED  BY <2>1 DEF BodiesAgree
<1> QED  BY <1>1, <1>2, <1>3

(* What a decision leaves behind.                                          *)
LEMMA DecisionMade ==
  ASSUME ProcTypeOK, NEW d \in Direction,
         NEW v \in {"passed", "original", "immediate", "error"}, Decided(d, v)
  PROVE  /\ verdict' \in [Direction -> {"none", "pending", "passed", "original", "untouched",
                                        "immediate", "error"}]
         /\ \A e \in Direction : e # d => verdict'[e] = verdict[e]
         /\ \/ verdict[d] = "pending" /\ verdict'[d] = v
            \/ verdict[d] # "pending" /\ verdict'[d] = verdict[d]
BY DEF ProcTypeOK, Decided

LEMMA HandlerTakesKeeps ==
  ASSUME ExchangeInvariant, NEW d \in Direction, HandlerTakes(d)
  PROVE  ExchangeInvariant'
<1> USE ProcConstants
<1> DEFINE a == Head(forward[d])
           Verdicts == {"none", "pending", "passed", "original", "untouched", "immediate", "error"}
           Places == {"off", "loop", "chunk", "last", "over", "panicked"}
<1>1. /\ ProcTypeOK /\ AnswersBacked /\ VerdictsAgree /\ ResponseQuiet /\ BodiesAgree
      /\ handler[d] = "loop" /\ forward[d] # <<>>
      /\ forward' = [forward EXCEPT ![d] = <<>>]
      /\ UNCHANGED <<failOpen, hadBody, stage, link, toServer, fromServer, carried, server,
                     chunks, newBody, pump>>
  BY DEF ExchangeInvariant, HandlerTakes
<1>2. /\ forward \in [Direction -> Seq(Answers)] /\ \A e \in Direction : Len(forward[e]) <= 1
      /\ hadBody \in [Direction -> BOOLEAN] /\ feeding \in [Direction -> BOOLEAN]
      /\ ended \in [Direction -> BOOLEAN] /\ handler \in [Direction -> Places]
      /\ verdict \in [Direction -> Verdicts]
  BY <1>1 DEF ProcTypeOK
<1>3. /\ a = forward[d][1] /\ 1 \in 1..Len(forward[d]) /\ a \in Answers
  BY <1>1, <1>2
<1>4. Backed(<<d, a>>, server)
  BY <1>1, <1>3 DEF AnswersBacked
<1>5. /\ a = "headers" => server[d].answered
      /\ a = "immediate" => \E e \in Direction : server[e].last
  BY <1>4 DEF Backed
<1>6. /\ forward' \in [Direction -> Seq(Answers)]
      /\ \A e \in Direction : forward'[e] = forward[e] \/ forward'[e] = <<>>
  BY <1>1, <1>2
<1>7. \A e \in Direction : Len(forward'[e]) <= 1
  BY <1>2, <1>6
<1>8. AnswersBacked'
  <2>1. ASSUME NEW e \in Direction, NEW i \in 1..Len(forward'[e])
        PROVE  Backed(<<e, forward'[e][i]>>, server)
    <3>1. forward'[e] = forward[e]
      BY <1>6, <2>1
    <3> QED  BY <1>1, <2>1, <3>1 DEF AnswersBacked
  <2> QED  BY <1>1, <2>1 DEF AnswersBacked
(* It is enough to know what becomes of its place, its verdict and its     *)
(* flags.                                                                  *)
<1>9. ASSUME handler' \in [Direction -> Places], verdict' \in [Direction -> Verdicts],
             feeding' \in [Direction -> BOOLEAN], ended' \in [Direction -> BOOLEAN],
             \A e \in Direction : e # d => /\ handler'[e] = handler[e] /\ verdict'[e] = verdict[e]
                                           /\ feeding'[e] = feeding[e] /\ ended'[e] = ended[e],
             \/ verdict'[d] = verdict[d]
             \/ verdict[d] = "pending" /\ verdict'[d] \in {"passed", "immediate", "error"},
             verdict'[d] = "passed" => server[d].answered,
             verdict'[d] = "immediate" => \E e \in Direction : server[e].last,
             feeding'[d] => feeding[d],
             \/ feeding'[d] \/ ended'[d] \/ link = "down" \/ handler'[d] = "panicked"
             \/ verdict'[d] = "immediate"
      PROVE  ExchangeInvariant'
  <2>1. ProcTypeOK'
    BY <1>1, <1>6, <1>7, <1>9 DEF ProcTypeOK
  <2>2. verdict'[d] = "original" => d = "request" /\ failOpen
    BY <1>1, <1>9 DEF VerdictsAgree, OnlyRequestsFailOpen
  <2>3. VerdictsAgree' /\ ResponseQuiet' /\ BodiesAgree'
    BY <1>1, <1>9, <2>2, HandlerMoves
  <2> QED  BY <1>8, <2>1, <2>3 DEF ExchangeInvariant
<1>10. /\ verdict[d] = "passed" => server[d].answered
       /\ verdict[d] = "immediate" => \E e \in Direction : server[e].last
       /\ \/ feeding[d] \/ ended[d] \/ link = "down" \/ verdict[d] = "immediate"
  BY <1>1 DEF VerdictsAgree, PassedWasProcessed, BodiesAgree
<1>11. CASE a = "immediate"
  <2>1. TakesImmediate(d)
    BY <1>11 DEF HandlerTakes
  <2>2. /\ handler' = [handler EXCEPT ![d] = IF verdict[d] = "pending" THEN "over" ELSE "panicked"]
        /\ Decided(d, "immediate") /\ feeding' = [feeding EXCEPT ![d] = FALSE] /\ UNCHANGED ended
    BY <2>1 DEF TakesImmediate
  <2>3. /\ handler' \in [Direction -> Places]
        /\ \A e \in Direction : e # d => handler'[e] = handler[e]
        /\ verdict[d] # "pending" => handler'[d] = "panicked"
    BY <1>2, <2>2
  <2>4. /\ feeding' \in [Direction -> BOOLEAN] /\ feeding'[d] = FALSE
        /\ \A e \in Direction : e # d => feeding'[e] = feeding[e]
    BY <1>2, <2>2, FlagSet
  <2> HIDE DEF a
  <2> QED  BY <1>1, <1>2, <1>5, <1>9, <1>10, <1>11, <2>2, <2>3, <2>4, DecisionMade
<1>12. CASE a # "immediate" /\ ~feeding[d]
  <2>1. /\ handler' = [handler EXCEPT ![d] = "over"] /\ Decided(d, "error")
        /\ UNCHANGED <<feeding, ended>>
    BY <1>12 DEF HandlerTakes
  <2>2. /\ handler' \in [Direction -> Places]
        /\ \A e \in Direction : e # d => handler'[e] = handler[e]
    BY <1>2, <2>1
  <2>3. /\ ended[d] \/ link = "down" \/ verdict[d] = "immediate"
        /\ verdict'[d] = verdict[d] \/ (verdict[d] = "pending" /\ verdict'[d] = "error")
        /\ \A e \in Direction : e # d => verdict'[e] = verdict[e]
        /\ verdict' \in [Direction -> Verdicts]
    BY <1>1, <1>10, <1>12, <2>1, DecisionMade
  <2> HIDE DEF a
  <2> QED  BY <1>1, <1>2, <1>9, <1>10, <2>1, <2>2, <2>3
<1>13. CASE a = "headers" /\ feeding[d]
  <2>1. TakesHeaders(d)
    BY <1>13 DEF HandlerTakes
  <2>2. /\ Decided(d, "passed") /\ feeding' = [feeding EXCEPT ![d] = hadBody[d]]
        /\ ended' = [ended EXCEPT ![d] = ~hadBody[d]] /\ UNCHANGED handler
    BY <2>1 DEF TakesHeaders
  <2>3. /\ feeding' \in [Direction -> BOOLEAN] /\ feeding'[d] = hadBody[d]
        /\ \A e \in Direction : e # d => feeding'[e] = feeding[e]
    BY <1>2, <2>2, FlagSet
  <2>4. /\ ended' \in [Direction -> BOOLEAN] /\ ended'[d] = ~hadBody[d]
        /\ \A e \in Direction : e # d => ended'[e] = ended[e]
    <3>1. (~hadBody[d]) \in BOOLEAN
      OBVIOUS
    <3> QED  BY <1>2, <2>2, <3>1, FlagSet
  <2>5. /\ verdict'[d] = verdict[d] \/ (verdict[d] = "pending" /\ verdict'[d] = "passed")
        /\ \A e \in Direction : e # d => verdict'[e] = verdict[e]
        /\ verdict' \in [Direction -> Verdicts]
    BY <1>1, <2>2, DecisionMade
  <2>6. feeding'[d] \/ ended'[d]
    BY <1>2, <2>3, <2>4
  <2>7. server[d].answered
    BY <1>5, <1>13
  <2>8. verdict'[d] = "immediate" => \E e \in Direction : server[e].last
    BY <1>10, <2>5
  <2>9. /\ handler' \in [Direction -> Places] /\ UNCHANGED handler /\ feeding[d]
    BY <1>2, <1>13, <2>2
  <2> HIDE DEF a, Places, Verdicts
  <2> QED  BY <1>9, <2>3, <2>4, <2>5, <2>6, <2>7, <2>8, <2>9
<1>14. CASE a \in {"chunk", "last"} /\ feeding[d]
  <2>1. handler' = [handler EXCEPT ![d] = a] /\ UNCHANGED <<verdict, feeding, ended>>
    BY <1>14 DEF HandlerTakes
  <2> HIDE DEF a
  <2>2. /\ handler' \in [Direction -> Places]
        /\ \A e \in Direction : e # d => handler'[e] = handler[e]
    BY <1>2, <1>14, <2>1
  <2> QED  BY <1>2, <1>9, <1>10, <1>14, <2>1, <2>2
<1> QED  BY <1>3, <1>11, <1>12, <1>13, <1>14 DEF Answers

LEMMA HandlerSendsKeeps ==
  ASSUME ExchangeInvariant, NEW d \in Direction, HandlerSends(d)
  PROVE  ExchangeInvariant'
<1> USE ProcConstants
<1>1. /\ ProcTypeOK /\ AnswersBacked /\ VerdictsAgree /\ ResponseQuiet /\ BodiesAgree
      /\ handler[d] \in {"chunk", "last"} /\ handler' = [handler EXCEPT ![d] = "loop"]
      /\ chunks' = [chunks EXCEPT ![d] = IF newBody[d] = "dropped" THEN @ ELSE 1]
      /\ feeding' = [feeding EXCEPT ![d] = @ /\ handler[d] = "chunk"]
      /\ ended' = [ended EXCEPT ![d] = @ \/ handler[d] = "last"]
      /\ UNCHANGED <<failOpen, hadBody, stage, link, fromServer, carried, forward, server,
                     toServer, verdict, newBody, pump>>
  BY DEF ExchangeInvariant, HandlerSends, serverSide
<1>2. /\ feeding \in [Direction -> BOOLEAN] /\ ended \in [Direction -> BOOLEAN]
      /\ handler \in [Direction -> {"off", "loop", "chunk", "last", "over", "panicked"}]
      /\ chunks \in [Direction -> 0 .. 1]
  BY <1>1 DEF ProcTypeOK
<1>3. /\ feeding' \in [Direction -> BOOLEAN] /\ feeding'[d] = (feeding[d] /\ handler[d] = "chunk")
      /\ \A e \in Direction : e # d => feeding'[e] = feeding[e]
  <2>1. (feeding[d] /\ handler[d] = "chunk") \in BOOLEAN
    OBVIOUS
  <2> QED  BY <1>1, <1>2, <2>1, FlagSet
<1>4. /\ ended' \in [Direction -> BOOLEAN] /\ ended'[d] = (ended[d] \/ handler[d] = "last")
      /\ \A e \in Direction : e # d => ended'[e] = ended[e]
  <2>1. (ended[d] \/ handler[d] = "last") \in BOOLEAN
    OBVIOUS
  <2> QED  BY <1>1, <1>2, <2>1, FlagSet
<1>5. /\ handler' \in [Direction -> {"off", "loop", "chunk", "last", "over", "panicked"}]
      /\ \A e \in Direction : e # d => handler'[e] = handler[e]
      /\ chunks' \in [Direction -> 0 .. 1]
  BY <1>1, <1>2
<1>6. ProcTypeOK'
  BY <1>1, <1>3, <1>4, <1>5 DEF ProcTypeOK
<1>7. AnswersBacked'
  BY <1>1 DEF AnswersBacked
<1>8. \/ feeding'[d] \/ ended'[d] \/ link = "down" \/ verdict[d] = "immediate"
  BY <1>1, <1>3, <1>4 DEF BodiesAgree
<1>9. /\ verdict'[d] = verdict[d] /\ handler[d] # "off" /\ handler[d] # "panicked"
      /\ verdict'[d] = "passed" => server[d].answered
      /\ verdict'[d] = "immediate" => \E e \in Direction : server[e].last
      /\ verdict'[d] = "original" => d = "request" /\ failOpen
      /\ feeding'[d] => feeding[d]
      /\ \A e \in Direction : e # d => verdict'[e] = verdict[e]
      /\ \/ feeding'[d] \/ ended'[d] \/ link = "down" \/ handler'[d] = "panicked"
         \/ verdict'[d] = "immediate"
  BY <1>1, <1>3, <1>8 DEF VerdictsAgree, PassedWasProcessed, OnlyRequestsFailOpen
<1>10. VerdictsAgree' /\ ResponseQuiet' /\ BodiesAgree'
  BY <1>1, <1>3, <1>4, <1>5, <1>9, HandlerMoves
<1> QED  BY <1>6, <1>7, <1>10 DEF ExchangeInvariant

LEMMA HearsEndKeeps ==
  ASSUME ExchangeInvariant, NEW d \in Direction, HearsEnd(d)
  PROVE  ExchangeInvariant'
<1> USE ProcConstants
<1> DEFINE v == IF d = "request" /\ failOpen THEN "original" ELSE "error"
<1>1. /\ ProcTypeOK /\ AnswersBacked /\ VerdictsAgree /\ ResponseQuiet /\ BodiesAgree
      /\ handler[d] = "loop" /\ link = "down" /\ handler' = [handler EXCEPT ![d] = "over"]
      /\ Decided(d, v) /\ feeding' = [feeding EXCEPT ![d] = FALSE]
      /\ UNCHANGED <<failOpen, hadBody, stage, link, fromServer, carried, forward, server,
                     toServer, chunks, newBody, pump, ended>>
  BY DEF ExchangeInvariant, HearsEnd, serverSide, DispatcherOver
<1>2. /\ feeding \in [Direction -> BOOLEAN]
      /\ handler \in [Direction -> {"off", "loop", "chunk", "last", "over", "panicked"}]
  BY <1>1 DEF ProcTypeOK
<1>3. v \in {"original", "error"} /\ (v = "original" => d = "request" /\ failOpen)
  OBVIOUS
<1> HIDE DEF v
<1>4. /\ feeding' \in [Direction -> BOOLEAN] /\ feeding'[d] = FALSE
      /\ \A e \in Direction : e # d => feeding'[e] = feeding[e]
  BY <1>1, <1>2, FlagSet
<1>5. /\ handler' \in [Direction -> {"off", "loop", "chunk", "last", "over", "panicked"}]
      /\ \A e \in Direction : e # d => handler'[e] = handler[e]
  BY <1>1, <1>2
<1>6. /\ verdict' \in [Direction -> {"none", "pending", "passed", "original", "untouched",
                                     "immediate", "error"}]
      /\ \A e \in Direction : e # d => verdict'[e] = verdict[e]
      /\ \/ verdict[d] = "pending" /\ verdict'[d] = v
         \/ verdict[d] # "pending" /\ verdict'[d] = verdict[d]
  BY <1>1, <1>3, DecisionMade
<1>7. ProcTypeOK'
  BY <1>1, <1>4, <1>5, <1>6 DEF ProcTypeOK
<1>8. AnswersBacked'
  BY <1>1 DEF AnswersBacked
<1>9. /\ handler[d] # "off" /\ handler[d] # "panicked"
      /\ \/ verdict'[d] = verdict[d]
         \/ verdict[d] = "pending" /\ verdict'[d] \in {"passed", "original", "immediate", "error"}
      /\ verdict'[d] = "passed" => server[d].answered
      /\ verdict'[d] = "immediate" => \E e \in Direction : server[e].last
      /\ verdict'[d] = "original" => d = "request" /\ failOpen
      /\ feeding'[d] => feeding[d]
      /\ \A e \in Direction : e # d => ended'[e] = ended[e]
      /\ \/ feeding'[d] \/ ended'[d] \/ link = "down" \/ handler'[d] = "panicked"
         \/ verdict'[d] = "immediate"
  BY <1>1, <1>3, <1>4, <1>6 DEF VerdictsAgree, PassedWasProcessed, OnlyRequestsFailOpen
<1>10. VerdictsAgree' /\ ResponseQuiet' /\ BodiesAgree'
  <2>1. /\ ProcTypeOK /\ VerdictsAgree /\ ResponseQuiet /\ BodiesAgree
        /\ UNCHANGED <<stage, server, toServer, pump, link, failOpen, newBody>>
        /\ \A e \in Direction : e # d => /\ handler'[e] = handler[e] /\ verdict'[e] = verdict[e]
                                         /\ feeding'[e] = feeding[e] /\ ended'[e] = ended[e]
    BY <1>1, <1>4, <1>5, <1>6
  <2> QED  BY ONLY <1>9, <2>1, HandlerMoves
<1> QED  BY <1>7, <1>8, <1>10 DEF ExchangeInvariant

LEMMA PumpsKeeps ==
  ASSUME ExchangeInvariant, NEW d \in Direction, Pumps(d)
  PROVE  ExchangeInvariant'
<1> USE ProcConstants
<1>1. /\ ProcTypeOK /\ AnswersBacked /\ VerdictsAgree /\ ResponseQuiet /\ BodiesAgree
      /\ UNCHANGED <<failOpen, hadBody, stage, link, fromServer, carried, forward, server,
                     handler, verdict, chunks, feeding, newBody, ended>>
  BY DEF ExchangeInvariant, Pumps, serverSide, handlerSide
<1>2. pump \in [Direction -> 0 .. MaxFrames + 1] /\ pump[d] > 0
  BY <1>1 DEF ProcTypeOK, Pumps
<1>3. \/ /\ \E k \in {"frame", "eos"} : ProcSends(<<d, k>>)
         /\ pump' = [pump EXCEPT ![d] = @ - 1]
      \/ UNCHANGED toServer /\ \E n \in 0 .. 1 : pump' = [pump EXCEPT ![d] = n]
  BY DEF Pumps, ProcSendFails
<1>4. /\ pump' \in [Direction -> 0 .. MaxFrames + 1]
      /\ \A e \in Direction : e # d => pump'[e] = pump[e]
  BY <1>2, <1>3
<1>5. /\ toServer' \in Seq(Direction \X {"headers", "frame", "eos"}) /\ Len(toServer') <= Room
      /\ \A i \in 1..Len(toServer') :
           \/ i \in 1..Len(toServer) /\ toServer'[i] = toServer[i]
           \/ toServer'[i][1] = d
  <2>1. CASE UNCHANGED toServer
    BY <1>1, <2>1 DEF ProcTypeOK
  <2>2. ASSUME NEW k \in {"frame", "eos"}, ProcSends(<<d, k>>)
        PROVE  /\ toServer' \in Seq(Direction \X {"headers", "frame", "eos"})
               /\ Len(toServer') <= Room
               /\ \A i \in 1..Len(toServer') :
                    \/ i \in 1..Len(toServer) /\ toServer'[i] = toServer[i]
                    \/ toServer'[i] = <<d, k>>
    BY <1>1, <2>2, SentToServer
  <2> QED  BY <1>3, <2>1, <2>2
<1>6. ProcTypeOK'
  BY <1>1, <1>4, <1>5 DEF ProcTypeOK
<1>7. AnswersBacked' /\ VerdictsAgree' /\ BodiesAgree'
  BY <1>1 DEF AnswersBacked, VerdictsAgree, PassedWasProcessed, OnlyRequestsFailOpen, BodiesAgree
<1>8. ResponseQuiet'
  <2> SUFFICES ASSUME \/ stage \in {"start", "request", "upstream", "answered"}
                      \/ verdict["request"] = "original"
               PROVE  pump'["response"] = 0 /\ \A i \in 1..Len(toServer') : toServer'[i][1] = "request"
    BY <1>1 DEF ResponseQuiet
  <2>1. d = "request"
    BY <1>1, <1>2 DEF ResponseQuiet
  <2> QED  BY <1>1, <1>4, <1>5, <2>1 DEF ResponseQuiet
<1> QED  BY <1>6, <1>7, <1>8 DEF ExchangeInvariant

(* The stage moves on, or the new body's reader does.                      *)
LEMMA ReaderKeeps ==
  ASSUME ExchangeInvariant, NEW d \in Direction, ReadsBody(d) \/ DropsBody(d)
  PROVE  ExchangeInvariant'
<1> USE ProcConstants
<1>1. /\ ProcTypeOK /\ AnswersBacked /\ VerdictsAgree /\ ResponseQuiet /\ BodiesAgree
      /\ UNCHANGED <<failOpen, hadBody, stage, link, fromServer, carried, forward, server,
                     toServer, handler, verdict, feeding, pump, ended>>
      /\ newBody[d] = "reading"
      /\ chunks' = chunks \/ chunks' = [chunks EXCEPT ![d] = 0]
      /\ \/ newBody' = newBody
         \/ newBody' = [newBody EXCEPT ![d] = "dropped"]
         \/ newBody' = [newBody EXCEPT ![d] = "complete"] /\ ~feeding[d]
  BY DEF ExchangeInvariant, ReadsBody, DropsBody, serverSide
<1>2. /\ chunks' \in [Direction -> 0 .. 1]
      /\ newBody' \in [Direction -> {"unread", "reading", "complete", "dropped"}]
      /\ \A e \in Direction : e # d => newBody'[e] = newBody[e]
      /\ newBody'[d] = "complete" => ~feeding[d]
  <2>1. /\ chunks \in [Direction -> 0 .. 1]
        /\ newBody \in [Direction -> {"unread", "reading", "complete", "dropped"}]
    BY <1>1 DEF ProcTypeOK
  <2>2. chunks' \in [Direction -> 0 .. 1]
    BY <1>1, <2>1
  <2>3. /\ newBody' \in [Direction -> {"unread", "reading", "complete", "dropped"}]
        /\ \A e \in Direction : e # d => newBody'[e] = newBody[e]
        /\ newBody'[d] = "complete" => ~feeding[d]
    BY <1>1, <2>1
  <2> QED  BY <2>2, <2>3
<1>3. ProcTypeOK'
  BY <1>1, <1>2 DEF ProcTypeOK
<1>4. AnswersBacked' /\ VerdictsAgree' /\ ResponseQuiet'
  BY <1>1 DEF AnswersBacked, VerdictsAgree, PassedWasProcessed, OnlyRequestsFailOpen, ResponseQuiet
<1>5. BodiesAgree'
  BY <1>1, <1>2 DEF BodiesAgree
<1> QED  BY <1>3, <1>4, <1>5 DEF ExchangeInvariant

LEMMA StageKeeps ==
  ASSUME ExchangeInvariant,
         \/ UpstreamAnswers \/ ServerCloses \/ \E s \in {"up", "down"} : Connect(s)
         \/ \E d \in Direction : VerdictIn(d)
         \/ MutateResponse /\ verdict["request"] = "original"
  PROVE  ExchangeInvariant'
<1> USE ProcConstants
<1>1. /\ ProcTypeOK /\ AnswersBacked /\ VerdictsAgree /\ ResponseQuiet /\ BodiesAgree
      /\ UNCHANGED <<failOpen, hadBody, fromServer, carried, forward, server, toServer,
                     handler, chunks, feeding, pump, ended>>
  BY DEF ExchangeInvariant, UpstreamAnswers, ServerCloses, Connect, VerdictIn, MutateResponse,
         serverSide, handlerSide
<1>2. AnswersBacked'
  BY <1>1 DEF AnswersBacked
<1>3. CASE ServerCloses \/ \E s \in {"up", "down"} : Connect(s)
  <2>1. UNCHANGED <<stage, verdict, newBody>> /\ link' \in {"up", "down"} /\ link # "down"
    BY <1>3 DEF ServerCloses, Connect, handlerSide
  <2>2. ProcTypeOK' /\ VerdictsAgree' /\ ResponseQuiet' /\ BodiesAgree'
    BY <1>1, <2>1 DEF ProcTypeOK, VerdictsAgree, PassedWasProcessed, OnlyRequestsFailOpen,
                      ResponseQuiet, BodiesAgree
  <2> QED  BY <1>2, <2>2 DEF ExchangeInvariant
<1>4. CASE UpstreamAnswers
  <2>1. UNCHANGED <<link, verdict, newBody>> /\ stage = "upstream" /\ stage' \in {"answered", "done"}
    BY <1>4 DEF UpstreamAnswers, serverSide, handlerSide
  <2>2. ProcTypeOK' /\ VerdictsAgree' /\ ResponseQuiet' /\ BodiesAgree'
    BY <1>1, <2>1 DEF ProcTypeOK, VerdictsAgree, PassedWasProcessed, OnlyRequestsFailOpen,
                      ResponseQuiet, BodiesAgree
  <2> QED  BY <1>2, <2>2 DEF ExchangeInvariant
<1>5. ASSUME NEW d \in Direction, VerdictIn(d)  PROVE ExchangeInvariant'
  <2>1. /\ UNCHANGED <<link, verdict>> /\ stage = d /\ verdict[d] # "pending"
        /\ stage' \in {"upstream", "done"} /\ (stage' = "upstream" => d = "request")
        /\ newBody' = [newBody EXCEPT ![d] = IF verdict[d] = "passed" THEN "reading" ELSE @]
    BY <1>5 DEF VerdictIn, serverSide
  <2>2. /\ newBody' \in [Direction -> {"unread", "reading", "complete", "dropped"}]
        /\ \A e \in Direction : \/ newBody'[e] = newBody[e]
                                \/ newBody'[e] = "reading" /\ verdict[e] = "passed"
    BY <1>1, <2>1 DEF ProcTypeOK
  <2>3. ProcTypeOK'
    BY <1>1, <2>1, <2>2 DEF ProcTypeOK
  <2>4. VerdictsAgree'
    BY <1>1, <2>1 DEF VerdictsAgree, PassedWasProcessed, OnlyRequestsFailOpen
  <2>5. ResponseQuiet'
    BY <1>1, <2>1 DEF ResponseQuiet
  <2>6. BodiesAgree'
    BY <1>1, <2>1, <2>2 DEF BodiesAgree
  <2> QED  BY <1>2, <2>3, <2>4, <2>5, <2>6 DEF ExchangeInvariant
<1>6. CASE MutateResponse /\ verdict["request"] = "original"
  <2>1. /\ UNCHANGED <<link, newBody>> /\ stage = "answered" /\ stage' = "done"
        /\ verdict' = [verdict EXCEPT !["response"] = "untouched"]
    BY <1>6 DEF MutateResponse, serverSide
  <2>2. /\ verdict' \in [Direction -> {"none", "pending", "passed", "original", "untouched",
                                       "immediate", "error"}]
        /\ verdict'["response"] = "untouched" /\ verdict'["request"] = "original"
    BY <1>1, <1>6, <2>1 DEF ProcTypeOK
  <2>3. verdict["response"] \in {"none", "untouched"}
    BY <1>1, <2>1 DEF ResponseQuiet
  <2>4. ProcTypeOK'
    BY <1>1, <2>1, <2>2 DEF ProcTypeOK
  <2>5. VerdictsAgree'
    <3>1. PassedWasProcessed' /\ OnlyRequestsFailOpen'
      BY <1>1, <1>6, <2>2 DEF VerdictsAgree, PassedWasProcessed, OnlyRequestsFailOpen
    <3> QED  BY <1>1, <1>6, <2>1, <2>2, <3>1 DEF VerdictsAgree
  <2>6. ResponseQuiet'
    BY <1>1, <2>1, <2>2 DEF ResponseQuiet
  <2>7. BodiesAgree'
    <3>1. ASSUME NEW e \in Direction
          PROVE  /\ newBody'[e] # "unread" => verdict'[e] = "passed"
                 /\ newBody'[e] = "complete" => ~feeding'[e]
                 /\ feeding'[e] \/ ended'[e] \/ link' = "down" \/ handler'[e] = "panicked"
                      \/ verdict'[e] = "immediate"
      BY <1>1, <1>6, <2>1, <2>2, <2>3 DEF BodiesAgree
    <3> QED  BY <3>1 DEF BodiesAgree
  <2> QED  BY <1>2, <2>4, <2>5, <2>6, <2>7 DEF ExchangeInvariant
<1> QED  BY <1>3, <1>4, <1>5, <1>6

LEMMA ExchangeStep ==
  ASSUME ExchangeInvariant, [ProcNext]_procVars
  PROVE  ExchangeInvariant'
<1>1. CASE MutateRequest
  <2>1. /\ stage = "start" /\ StartMutation("request")
        /\ UNCHANGED <<failOpen, hadBody, serverSide, chunks, feeding, newBody, ended>>
    BY <1>1 DEF MutateRequest
  <2> QED  BY <2>1, ProcConstants, MutationStarts
<1>2. CASE MutateResponse /\ verdict["request"] # "original"
  <2>1. /\ stage = "answered" /\ StartMutation("response")
        /\ UNCHANGED <<failOpen, hadBody, serverSide, chunks, feeding, newBody, ended>>
    BY <1>2 DEF MutateResponse
  <2> QED  BY <1>2, <2>1, ProcConstants, MutationStarts
<1>3. CASE MutateResponse /\ verdict["request"] = "original"
  BY <1>3, StageKeeps
<1>4. CASE UpstreamAnswers \/ ServerCloses \/ \E s \in {"up", "down"} : Connect(s)
  BY <1>4, StageKeeps
<1>5. CASE ServerStep
  BY <1>5, ServerStepKeeps
<1>6. CASE Dispatch \/ ForwardAnswer
  BY <1>6, DispatcherKeeps
<1>7. ASSUME NEW d \in Direction, TaskStep(d) \/ DropsBody(d)  PROVE ExchangeInvariant'
  BY <1>7, StageKeeps, PumpsKeeps, HandlerTakesKeeps, HandlerSendsKeeps, HearsEndKeeps, ReaderKeeps
     DEF TaskStep
<1>8. CASE UNCHANGED procVars
  <2>1. /\ ProcTypeOK /\ AnswersBacked /\ VerdictsAgree /\ ResponseQuiet /\ BodiesAgree
        /\ UNCHANGED procVars
    BY <1>8 DEF ExchangeInvariant
  <2>2. ProcTypeOK' /\ AnswersBacked'
    BY <2>1 DEF ProcTypeOK, AnswersBacked, procVars
  <2>3. VerdictsAgree' /\ ResponseQuiet' /\ BodiesAgree'
    BY <2>1 DEF VerdictsAgree, PassedWasProcessed, OnlyRequestsFailOpen, ResponseQuiet,
                BodiesAgree, procVars
  <2> QED  BY <2>2, <2>3 DEF ExchangeInvariant
<1>9. \/ MutateRequest \/ UpstreamAnswers \/ MutateResponse
      \/ \E s \in {"up", "down"} : Connect(s)
      \/ ServerCloses \/ ServerStep \/ Dispatch \/ ForwardAnswer
      \/ \E d \in Direction : TaskStep(d) \/ DropsBody(d)
      \/ UNCHANGED procVars
  BY DEF ProcNext
<1> QED  BY <1>1, <1>2, <1>3, <1>4, <1>5, <1>6, <1>7, <1>8, <1>9

(* What goes on under the processor's name was seen by it, a request that  *)
(* passed unprocessed leaves no trace, a response fails open only then,    *)
(* and a new body ends where the server ended it.                          *)
THEOREM ExchangesStayConsistent == ProcSpec => []ExchangesConsistent
<1>1. ExchangeInvariant => ExchangesConsistent
  <2> SUFFICES ASSUME ExchangeInvariant  PROVE ExchangesConsistent
    OBVIOUS
  <2>1. ProcTypeOK /\ VerdictsAgree /\ ResponseQuiet /\ BodiesAgree
    BY DEF ExchangeInvariant
  <2>2. UnprocessedStaysSo
    BY <2>1, ProcConstants DEF UnprocessedStaysSo, VerdictsAgree, ResponseQuiet, BodiesAgree, ProcTypeOK
  <2>3. BodyEndsWithServer
    BY <2>1 DEF BodyEndsWithServer, BodiesAgree
  <2> QED  BY <2>1, <2>2, <2>3 DEF ExchangesConsistent, VerdictsAgree
<1>2. ExchangeInvariant /\ [ProcNext]_procVars => ExchangeInvariant'
  BY ExchangeStep
<1> QED  BY <1>1, <1>2, ExchangeInvariantInit, PTL DEF ProcSpec

-----------------------------------------------------------------------------
(***************************************************************************)
(* ClientPool, for any calls, connection attempts and size of the pool.    *)
(***************************************************************************)

Entry == [socket : Socket, old : BOOLEAN]
PoolState == [connecting : BOOLEAN, idle : Seq(Entry), waiters : Seq(Call),
              rx : [Call -> {"closed", "waiting", "dropped"} \cup Socket]]
SocketState == [phase : {"unused", "dialing", "handshake", "up"}, by : Call \cup {NoCall},
                locked : BOOLEAN, proto : {"none", "h1", "h2"}, open : BOOLEAN]
CallRecord == [phase : {"new", "connect", "racing", "waiting", "connecting", "sending"} \cup Over,
               socket : Socket \cup {NoSocket}, reused : BOOLEAN]
CallState == {r \in CallRecord : r.phase = "sending" => r.socket \in Socket}

ClientTypes ==
  /\ ver \in {"h2", "auto"}
  /\ socket \in [Socket -> SocketState]
  /\ call \in [Call -> CallState]
  /\ returning \subseteq Socket

(* Who waits is in the queue; while a connection is idle nobody waits.     *)
Listed(p) ==
  \A c \in Call : p.rx[c] = "waiting" => \E i \in 1..Len(p.waiters) : p.waiters[i] = c
Quiet(p) == p.idle # <<>> => \A c \in Call : p.rx[c] # "waiting"
PoolGood(p) ==
  /\ p \in PoolState /\ Len(p.idle) <= PoolMax
  /\ Listed(p) /\ Quiet(p)

(* The lock is that of one attempt, one that goes on, and of which it is   *)
(* known whether it holds the lock: by the version of the key, and once it *)
(* has dialled by its protocol too.                                        *)
LocksHeld ==
  /\ \A s \in Socket : socket[s].locked =>
       pool.connecting /\ socket[s].phase \in {"dialing", "handshake"}
  /\ \A s, t \in Socket : socket[s].locked /\ socket[t].locked => s = t
  /\ pool.connecting => \E s \in Socket : socket[s].locked
  /\ \A s \in Socket :
       /\ socket[s].phase = "dialing" => (socket[s].locked <=> ver = "h2")
       /\ socket[s].phase = "handshake" =>
            (socket[s].locked <=> (socket[s].proto = "h2" \/ ver = "h2"))

(* A connection that somebody holds is up, and one that is not shared has  *)
(* one place.                                                              *)
InIdle(p, s) == \E i \in 1..Len(p.idle) : p.idle[i].socket = s
OnceInIdle(p, s) ==
  \A i, j \in 1..Len(p.idle) : p.idle[i].socket = s /\ p.idle[j].socket = s => i = j
OneHome(s) ==
  /\ s \in returning => /\ \A c \in Call : call[c].socket # s /\ pool.rx[c] # s
                        /\ ~InIdle(pool, s)
  /\ \A c \in Call : call[c].socket = s =>
       /\ \A d \in Call : pool.rx[d] # s /\ (call[d].socket = s => d = c)
       /\ ~InIdle(pool, s)
  /\ \A c \in Call : pool.rx[c] = s =>
       /\ \A d \in Call : pool.rx[d] = s => d = c
       /\ ~InIdle(pool, s)
  /\ OnceInIdle(pool, s)

Homes ==
  \A s \in Socket :
    /\ Held(s) => socket[s].phase = "up"
    /\ socket[s].proto = "h1" => OneHome(s)

ClientInvariant ==
  /\ ClientTypes /\ PoolGood(pool)
  /\ LocksHeld /\ WaitersHaveHope
  /\ Homes

LEMMA SmallestFinite ==
  ASSUME NEW F, F # {}, \A S \in F : IsFiniteSet(S)
  PROVE  \E S \in F : \A R \in F : R \subseteq S => R = S
<1> DEFINE W == UNION F
<1>1. F \subseteq FiniteSubsetsOf(W)
  BY DEF FiniteSubsetsOf
<1>2. PICK S \in F : \A R \in F : <<R, S>> \notin StrictSubsetOrdering(W)
  BY <1>1, FS_StrictSubsetOrderingWellFounded, WFMin
<1>3. \A R \in F : R \subseteq S => R = S
  BY <1>2 DEF StrictSubsetOrdering
<1> QED  BY <1>3

LEMMA Largest ==
  ASSUME NEW n \in Nat, NEW T \in SUBSET (1..n), T # {}
  PROVE  \E x \in T : \A y \in T : y <= x
<1> DEFINE F == {x..n : x \in T}
<1>1. F # {}
  OBVIOUS
<1>2. \A S \in F : \E x \in T : S = x..n
  OBVIOUS
<1>3. \A x \in T : x..n \in F
  OBVIOUS
<1>4. \A S \in F : IsFiniteSet(S)
  BY <1>2, FS_Interval
<1> HIDE DEF F
<1>5. PICK S \in F : \A R \in F : R \subseteq S => R = S
  BY <1>1, <1>4, SmallestFinite
<1>6. PICK x \in T : S = x..n
  BY <1>2, <1>5
<1>7. ASSUME NEW y \in T, y > x PROVE FALSE
  <2>1. y..n \in F /\ y..n \subseteq S
    BY <1>3, <1>6, <1>7
  <2>2. x \in y..n
    BY <1>5, <1>6, <2>1
  <2> QED  BY <1>7, <2>2
<1> QED  BY <1>6, <1>7

LEMMA Smallest ==
  ASSUME NEW n \in Nat, NEW T \in SUBSET (1..n), T # {}
  PROVE  \E x \in T : \A y \in T : x <= y
<1> DEFINE M == {i \in 1..n : n + 1 - i \in T}
<1>1. M # {}
  <2>1. PICK x \in T : TRUE
    OBVIOUS
  <2>2. n + 1 - x \in 1..n /\ n + 1 - (n + 1 - x) = x
    BY <2>1
  <2> QED  BY <2>1, <2>2
<1>2. PICK x \in M : \A y \in M : y <= x
  <2> HIDE DEF M
  <2>1. M \in SUBSET (1..n)
    BY DEF M
  <2> QED  BY <1>1, <2>1, Largest
<1>3. ASSUME NEW y \in T PROVE n + 1 - x <= y
  <2>1. n + 1 - y \in M
    <3>1. n + 1 - y \in 1..n /\ n + 1 - (n + 1 - y) = y
      OBVIOUS
    <3> QED  BY <3>1
  <2> QED  BY <1>2, <2>1
<1> QED  BY <1>2, <1>3

(* Kept is a sequence of the elements at the places given, each once.      *)
Keeps(s, P, kept) ==
  \E at \in [1..Len(kept) -> P] :
    /\ \A k \in 1..Len(kept) : kept[k] = s[at[k]]
    /\ \A k, l \in 1..Len(kept) : at[k] = at[l] => k = l
    /\ \A i \in P : \E k \in 1..Len(kept) : at[k] = i

LEMMA KeptElements ==
  ASSUME NEW S, NEW s \in Seq(S), NEW P \in SUBSET (1..Len(s))
  PROVE  /\ Kept(s, P) \in Seq(S)
         /\ Len(Kept(s, P)) \in Nat /\ Len(Kept(s, P)) <= Len(s)
         /\ Keeps(s, P, Kept(s, P))
<1> DEFINE n == Cardinality(P)
           Upto(i) == {j \in P : j <= i}
           rank == [i \in P |-> Cardinality(Upto(i))]
           at == [k \in 1..n |-> CHOOSE i \in P : Cardinality(Upto(i)) = k]
<1>1. IsFiniteSet(P) /\ n \in Nat /\ n <= Len(s)
  <2>1. Len(s) \in Nat
    OBVIOUS
  <2>2. IsFiniteSet(1..Len(s)) /\ Cardinality(1..Len(s)) = Len(s)
    BY SMTT(60), <2>1, FS_Interval
  <2> QED  BY <2>1, <2>2, FS_Subset, FS_CardinalityType
<1>2. ASSUME NEW i \in P
      PROVE  IsFiniteSet(Upto(i)) /\ rank[i] \in 1..n
  <2>1. IsFiniteSet(Upto(i)) /\ Cardinality(Upto(i)) <= n
    BY <1>1, FS_Subset
  <2>2. Cardinality(Upto(i)) \in Nat
    BY <2>1, FS_CardinalityType
  <2>3. i \in Upto(i)
    OBVIOUS
  <2>4. Cardinality(Upto(i)) # 0
    <3> HIDE DEF Upto
    <3> QED  BY <2>1, <2>3, FS_EmptySet
  <2> QED  BY <2>1, <2>2, <2>4
<1>3. ASSUME NEW i \in P, NEW j \in P, i < j PROVE rank[i] # rank[j]
  <2>1. Upto(i) \in SUBSET Upto(j) /\ Upto(i) # Upto(j)
    <3>1. \A x \in P : x \in Int
      OBVIOUS
    <3>2. j \in Upto(j) /\ j \notin Upto(i)
      BY <1>3, <3>1
    <3>3. \A x \in Upto(i) : x \in Upto(j)
      BY <1>3, <3>1
    <3> HIDE DEF Upto
    <3> QED  BY <3>2, <3>3
  <2> HIDE DEF Upto
  <2>2. Cardinality(Upto(i)) # Cardinality(Upto(j))
    BY <1>2, <2>1, FS_Subset
  <2> QED  BY <2>2
<1>4. rank \in Injection(P, 1..n)
  <2>1. rank \in [P -> 1..n]
    BY <1>2
  <2>2. \A i, j \in P : rank[i] = rank[j] => i = j
    <3> HIDE DEF rank
    <3> QED  BY <1>3
  <2> HIDE DEF rank
  <2> QED  BY <2>1, <2>2 DEF Injection, IsInjective
<1>5. \A k \in 1..n : \E i \in P : rank[i] = k
  <2>1. IsFiniteSet(1..n) /\ Cardinality(1..n) = n
    BY <1>1, FS_Interval
  <2> HIDE DEF rank
  <2>2. rank \in Surjection(P, 1..n)
    BY <1>4, <2>1, FS_Injection
  <2> QED  BY <2>2 DEF Surjection
<1>6. \A k \in 1..n : at[k] \in P /\ rank[at[k]] = k
  <2>1. \A i \in P : rank[i] = Cardinality(Upto(i))
    OBVIOUS
  <2> HIDE DEF rank, Upto
  <2> QED  BY <1>5, <2>1
<1>7. Kept(s, P) = [k \in 1..n |-> s[at[k]]]
  BY DEF Kept
<1>8. \A k \in 1..n : s[at[k]] \in S
  <2>1. \A i \in P : s[i] \in S
    OBVIOUS
  <2> HIDE DEF at, rank
  <2> QED  BY <1>6, <2>1
<1>9. Kept(s, P) \in Seq(S) /\ Len(Kept(s, P)) = n
  <2> HIDE DEF at, rank
  <2> QED  BY <1>1, <1>7, <1>8
<1>10. \A k \in 1..n : Kept(s, P)[k] = s[at[k]]
  BY <1>7
<1>11. \A k, l \in 1..n : at[k] = at[l] => k = l
  <2> HIDE DEF at, rank
  <2> QED  BY <1>6
<1>12. \A i \in P : \E k \in 1..n : at[k] = i
  <2>1. ASSUME NEW i \in P PROVE at[rank[i]] = i
    <3>1. rank[i] \in 1..n
      BY <1>2
    <3>2. \A j \in P : rank[j] = rank[i] => j = i
      BY <1>4 DEF Injection, IsInjective
    <3> HIDE DEF rank
    <3> QED  BY <1>6, <3>1, <3>2
  <2> QED  BY <1>2, <2>1
<1>13. at \in [1..n -> P]
  BY <1>6
<1> HIDE DEF at
<1>14. Keeps(s, P, Kept(s, P))
  BY <1>9, <1>10, <1>11, <1>12, <1>13 DEF Keeps
<1> QED  BY <1>1, <1>9, <1>14

(* What the operations of the pool leave of it.                            *)
Served(p, q, s) ==
  /\ q.connecting = p.connecting
  /\ \A c \in Call : q.rx[c] = p.rx[c] \/ (p.rx[c] = "waiting" /\ q.rx[c] = s)
  /\ q.idle = p.idle \/ q.idle = Append(p.idle, [socket |-> s, old |-> FALSE])
  /\ socket[s].proto = "h1" =>
       /\ \A c, d \in Call : q.rx[c] # p.rx[c] /\ q.rx[d] # p.rx[d] => c = d
       /\ (\E c \in Call : q.rx[c] # p.rx[c]) => q.idle = p.idle

Withdrawn(p, q) ==
  /\ q.idle = p.idle
  /\ \A c \in Call : q.rx[c] = p.rx[c] \/ q.rx[c] \in {"closed", "dropped"}

LEMMA PoolFields ==
  ASSUME NEW p, p \in PoolState
  PROVE  /\ p.connecting \in BOOLEAN /\ p.idle \in Seq(Entry) /\ p.waiters \in Seq(Call)
         /\ p.rx \in [Call -> {"closed", "waiting", "dropped"} \cup Socket]
         /\ Len(p.idle) \in Nat /\ Len(p.waiters) \in Nat
BY DEF PoolState

LEMMA NamesApart ==
  /\ PoolMax \in Nat /\ PoolMax > 0
  /\ "waiting" \notin Socket /\ "closed" \notin Socket /\ "dropped" \notin Socket
  /\ NoSocket \notin Socket /\ NoCall \notin Call
BY PoolMaxAssumption, NoneAssumption

LEMMA ConnectedFields ==
  ASSUME NEW p, PoolGood(p)
  PROVE  /\ PoolGood(Connected(p)) /\ Withdrawn(p, Connected(p))
         /\ ~Connected(p).connecting /\ \A c \in Call : Connected(p).rx[c] # "waiting"
<1> DEFINE q == Connected(p)
<1>1. p \in PoolState
  BY DEF PoolGood
<1>2. q.connecting = FALSE /\ q.waiters = <<>> /\ q.idle = p.idle
  BY <1>1 DEF Connected, PoolState
<1>3. /\ q.rx \in [Call -> {"closed", "waiting", "dropped"} \cup Socket]
      /\ \A c \in Call : q.rx[c] = IF p.rx[c] = "waiting" /\ \E i \in 1..Len(p.waiters) : p.waiters[i] = c
                                   THEN "dropped" ELSE p.rx[c]
  <2>1. q.rx = [c \in Call |-> IF p.rx[c] = "waiting" /\ c \in {p.waiters[i] : i \in DOMAIN p.waiters}
                               THEN "dropped" ELSE p.rx[c]]
    BY <1>1 DEF Connected, PoolState
  <2>2. DOMAIN p.waiters = 1..Len(p.waiters)
    BY <1>1, PoolFields
  <2> QED  BY <1>1, <2>1, <2>2, PoolFields
<1>4. q \in PoolState
  <2>1. q = [connecting |-> q.connecting, idle |-> q.idle, waiters |-> q.waiters, rx |-> q.rx]
    <3>1. p = [connecting |-> p.connecting, idle |-> p.idle, waiters |-> p.waiters, rx |-> p.rx]
      BY <1>1 DEF PoolState
    <3> DEFINE rx == [c \in Call |-> IF p.rx[c] = "waiting" /\ c \in {p.waiters[i] : i \in DOMAIN p.waiters}
                                     THEN "dropped" ELSE p.rx[c]]
    <3>2. q = [p EXCEPT !.connecting = FALSE, !.waiters = <<>>, !.rx = rx]
      BY DEF Connected
    <3> HIDE DEF q, rx
    <3>3. q = [connecting |-> FALSE, idle |-> p.idle, waiters |-> <<>>, rx |-> rx]
      BY ONLY <3>1, <3>2
    <3> QED  BY <3>3
  <2>2. q.waiters \in Seq(Call)
    BY <1>2
  <2> HIDE DEF q
  <2> QED  BY <1>1, <1>2, <1>3, <2>1, <2>2, PoolFields DEF PoolState
<1> HIDE DEF q
<1>5. \A c \in Call : q.rx[c] # "waiting"
  BY <1>3 DEF PoolGood, Listed
<1>6. PoolGood(q)
  BY <1>2, <1>4, <1>5 DEF PoolGood, Listed, Quiet
<1>7. Withdrawn(p, q)
  BY <1>2, <1>3 DEF Withdrawn
<1> QED  BY <1>2, <1>5, <1>6, <1>7 DEF q

LEMMA ClosedFields ==
  ASSUME NEW p, PoolGood(p), NEW c \in Call
  PROVE  /\ PoolGood(Closed(p, c)) /\ Withdrawn(p, Closed(p, c))
         /\ Closed(p, c).connecting = p.connecting /\ Closed(p, c).rx[c] = "closed"
         /\ \A d \in Call : d # c => Closed(p, c).rx[d] = p.rx[d]
<1> DEFINE q == Closed(p, c)
<1>1. p \in PoolState
  BY DEF PoolGood
<1>2. q.connecting = p.connecting /\ q.waiters = p.waiters /\ q.idle = p.idle
  BY <1>1 DEF Closed, PoolState
<1>3. q.rx = [p.rx EXCEPT ![c] = "closed"]
  BY <1>1 DEF Closed, PoolState
<1>4. q \in PoolState
  <2>1. q = [connecting |-> q.connecting, idle |-> q.idle, waiters |-> q.waiters, rx |-> q.rx]
    <3>1. p = [connecting |-> p.connecting, idle |-> p.idle, waiters |-> p.waiters, rx |-> p.rx]
      BY <1>1 DEF PoolState
    <3>2. q = [connecting |-> p.connecting, idle |-> p.idle, waiters |-> p.waiters,
               rx |-> [p.rx EXCEPT ![c] = "closed"]]
      BY ONLY <3>1 DEF Closed
    <3> HIDE DEF q
    <3> QED  BY <3>2
  <2> HIDE DEF q
  <2> QED  BY <1>1, <1>2, <1>3, <2>1, PoolFields DEF PoolState
<1>5. q.rx[c] = "closed" /\ \A d \in Call : d # c => q.rx[d] = p.rx[d]
  BY <1>1, <1>3, PoolFields
<1> HIDE DEF q
<1>6. PoolGood(q)
  BY <1>2, <1>4, <1>5 DEF PoolGood, Listed, Quiet
<1>7. Withdrawn(p, q)
  BY <1>2, <1>5 DEF Withdrawn
<1> QED  BY <1>2, <1>5, <1>6, <1>7 DEF q

LEMMA UnlockedFields ==
  ASSUME NEW p, PoolGood(p), NEW gone
  PROVE  /\ PoolGood(Unlocked(p, gone)) /\ Withdrawn(p, Unlocked(p, gone))
         /\ IF \E s \in gone : socket[s].locked
            THEN /\ ~Unlocked(p, gone).connecting
                 /\ \A c \in Call : Unlocked(p, gone).rx[c] # "waiting"
            ELSE Unlocked(p, gone) = p
<1>1. CASE \E s \in gone : socket[s].locked
  BY <1>1, ConnectedFields DEF Unlocked
<1>2. CASE ~\E s \in gone : socket[s].locked
  BY <1>2 DEF Unlocked, Withdrawn
<1> QED  BY <1>1, <1>2

LEMMA WithdrawnTwice ==
  ASSUME NEW p, NEW q, NEW r, Withdrawn(p, q), Withdrawn(q, r)
  PROVE  Withdrawn(p, r)
BY DEF Withdrawn

(* An idle connection is added where nobody waits.                         *)
LEMMA IdledFields ==
  ASSUME NEW p, p \in PoolState, Len(p.idle) <= PoolMax,
         \A c \in Call : p.rx[c] # "waiting", NEW s \in Socket
  PROVE  /\ PoolGood(Idled(p, s))
         /\ Idled(p, s).connecting = p.connecting /\ Idled(p, s).rx = p.rx
         /\ \/ Idled(p, s).idle = p.idle
            \/ Idled(p, s).idle = Append(p.idle, [socket |-> s, old |-> FALSE])
<1>1. CASE Len(p.idle) >= PoolMax
  BY <1>1 DEF Idled, PoolGood, Listed, Quiet
<1>2. CASE ~(Len(p.idle) >= PoolMax)
  <2> DEFINE q == Idled(p, s)
  <2>1. /\ q.connecting = p.connecting /\ q.waiters = p.waiters /\ q.rx = p.rx
        /\ q.idle = Append(p.idle, [socket |-> s, old |-> FALSE])
        /\ q = [connecting |-> q.connecting, idle |-> q.idle, waiters |-> q.waiters, rx |-> q.rx]
    BY <1>2 DEF Idled, PoolState
  <2>2. [socket |-> s, old |-> FALSE] \in Entry
    BY DEF Entry
  <2>3. q.idle \in Seq(Entry) /\ Len(q.idle) = Len(p.idle) + 1
    BY <2>1, <2>2, PoolFields
  <2> HIDE DEF q
  <2>4. q \in PoolState
    BY <2>1, <2>3, PoolFields DEF PoolState
  <2>5. Len(q.idle) <= PoolMax
    BY <1>2, <2>3, PoolFields, NamesApart
  <2>6. PoolGood(q)
    BY <2>1, <2>4, <2>5 DEF PoolGood, Listed, Quiet
  <2> QED  BY <2>1, <2>6 DEF q
<1> QED  BY <1>1, <1>2

LEMMA NobodyLives ==
  ASSUME NEW p, PoolGood(p), Live(p) = {}
  PROVE  \A c \in Call : p.rx[c] # "waiting"
BY DEF PoolGood, Listed, Live

LEMMA FirstLives ==
  ASSUME NEW p, p \in PoolState, Live(p) # {}
  PROVE  First(p) \in Live(p) /\ \A i \in Live(p) : First(p) <= i
<1>1. Live(p) \in SUBSET (1..Len(p.waiters)) /\ Len(p.waiters) \in Nat
  BY PoolFields DEF Live
<1>2. \E i \in Live(p) : \A j \in Live(p) : i <= j
  BY <1>1, Smallest
<1> QED  BY <1>2 DEF First

(* A connection that is put reaches who waits, or becomes idle.            *)
LEMMA PutFields ==
  ASSUME NEW p, PoolGood(p), NEW s \in Socket
  PROVE  PoolGood(Put(p, s)) /\ Served(p, Put(p, s), s)
<1> DEFINE shared == socket[s].proto = "h2"
           given == {p.waiters[i] : i \in IF shared THEN Live(p) ELSE {First(p)}}
           rx == [c \in Call |-> IF c \in given THEN s ELSE p.rx[c]]
<1>1. p \in PoolState
  BY DEF PoolGood
<1>2. p = [connecting |-> p.connecting, idle |-> p.idle, waiters |-> p.waiters, rx |-> p.rx]
  BY <1>1 DEF PoolState
<1>3. rx \in [Call -> {"closed", "waiting", "dropped"} \cup Socket]
  BY <1>1, PoolFields
<1>4. CASE shared /\ p.idle # <<>>
  BY <1>4 DEF Put, Served
<1>5. CASE Live(p) = {} /\ ~(shared /\ p.idle # <<>>)
  <2> DEFINE r == [p EXCEPT !.waiters = <<>>]
  <2>1. Put(p, s) = Idled(r, s)
    BY <1>5 DEF Put
  <2>2. r = [connecting |-> p.connecting, idle |-> p.idle, waiters |-> <<>>, rx |-> p.rx]
    BY ONLY <1>2
  <2> HIDE DEF r
  <2>3. r \in PoolState
    <3>1. <<>> \in Seq(Call)
      OBVIOUS
    <3> QED  BY <1>1, <2>2, <3>1, PoolFields DEF PoolState
  <2>4. r.connecting = p.connecting /\ r.idle = p.idle /\ r.rx = p.rx
    BY <2>2
  <2>5. Len(r.idle) <= PoolMax /\ \A c \in Call : r.rx[c] # "waiting"
    BY <1>5, <2>4, NobodyLives DEF PoolGood
  <2>6. /\ PoolGood(Idled(r, s)) /\ Idled(r, s).connecting = p.connecting /\ Idled(r, s).rx = p.rx
        /\ \/ Idled(r, s).idle = p.idle
           \/ Idled(r, s).idle = Append(p.idle, [socket |-> s, old |-> FALSE])
    BY <2>3, <2>4, <2>5, IdledFields
  <2> QED  BY <2>1, <2>6 DEF Served
<1>6. CASE Live(p) # {} /\ shared /\ p.idle = <<>>
  <2> DEFINE r == [p EXCEPT !.rx = rx, !.waiters = <<>>]
  <2>1. Put(p, s) = Idled(r, s)
    BY <1>6 DEF Put
  <2>2. r = [connecting |-> p.connecting, idle |-> p.idle, waiters |-> <<>>, rx |-> rx]
    <3>1. r = [p EXCEPT !.rx = rx, !.waiters = <<>>]
      OBVIOUS
    <3> HIDE DEF r, rx
    <3> QED  BY ONLY <1>2, <3>1
  <2>3. \A c \in Call : rx[c] # "waiting" /\ (rx[c] = p.rx[c] \/ (p.rx[c] = "waiting" /\ rx[c] = s))
    <3> SUFFICES ASSUME NEW c \in Call
                 PROVE  rx[c] # "waiting" /\ (rx[c] = p.rx[c] \/ (p.rx[c] = "waiting" /\ rx[c] = s))
      OBVIOUS
    <3>1. c \in given <=> p.rx[c] = "waiting"
      BY <1>6 DEF PoolGood, Listed, Live
    <3> HIDE DEF given
    <3> QED  BY <3>1, NamesApart
  <2> HIDE DEF r, rx, given
  <2>4. r \in PoolState
    <3>1. <<>> \in Seq(Call)
      OBVIOUS
    <3> QED  BY <1>1, <1>3, <2>2, <3>1, PoolFields DEF PoolState
  <2>5. r.connecting = p.connecting /\ r.idle = p.idle /\ r.rx = rx
    BY <2>2
  <2>6. Len(r.idle) <= PoolMax /\ \A c \in Call : r.rx[c] # "waiting"
    BY <2>3, <2>5 DEF PoolGood
  <2>7. /\ PoolGood(Idled(r, s)) /\ Idled(r, s).connecting = p.connecting /\ Idled(r, s).rx = rx
        /\ \/ Idled(r, s).idle = p.idle
           \/ Idled(r, s).idle = Append(p.idle, [socket |-> s, old |-> FALSE])
    BY <2>4, <2>5, <2>6, IdledFields
  <2>8. socket[s].proto # "h1"
    BY <1>6
  <2> QED  BY <2>1, <2>3, <2>7, <2>8 DEF Served
<1>7. CASE Live(p) # {} /\ ~shared
  <2> DEFINE f == First(p)
             later == SubSeq(p.waiters, f + 1, Len(p.waiters))
             q == [p EXCEPT !.rx = rx, !.waiters = later]
  <2>1. Put(p, s) = q
    BY <1>7 DEF Put
  <2>2. q = [connecting |-> p.connecting, idle |-> p.idle, waiters |-> later, rx |-> rx]
    <3>1. q = [p EXCEPT !.rx = rx, !.waiters = later]
      OBVIOUS
    <3> HIDE DEF q, rx, later
    <3> QED  BY ONLY <1>2, <3>1
  <2>3. f \in 1..Len(p.waiters) /\ p.rx[p.waiters[f]] = "waiting" /\ p.waiters[f] \in Call
        /\ \A i \in 1..Len(p.waiters) : p.rx[p.waiters[i]] = "waiting" => f <= i
    <3>1. f \in Live(p) /\ \A i \in Live(p) : f <= i
      BY <1>1, <1>7, FirstLives
    <3> HIDE DEF f
    <3>2. p.waiters[f] \in Call
      BY <1>1, <3>1, PoolFields DEF Live
    <3> QED  BY <3>1, <3>2 DEF Live
  <2>4. \A c \in Call : rx[c] = IF c = p.waiters[f] THEN s ELSE p.rx[c]
    BY <1>7
  <2>5. p.idle = <<>>
    BY <2>3 DEF PoolGood, Quiet
  <2>6. later \in Seq(Call) /\ Len(later) = Len(p.waiters) - f
        /\ \A i \in 1..(Len(p.waiters) - f) : later[i] = p.waiters[f + i]
    <3> HIDE DEF f
    <3> QED  BY <1>1, <2>3, PoolFields
  <2> HIDE DEF rx, given, later, q, f
  <2>7. q \in PoolState /\ q.rx = rx /\ q.waiters = later /\ q.idle = p.idle /\ q.connecting = p.connecting
    <3>1. q \in PoolState
      BY <1>1, <1>3, <2>2, <2>6, PoolFields DEF PoolState
    <3> QED  BY <2>2, <3>1
  <2>8. Listed(q)
    <3> SUFFICES ASSUME NEW c \in Call, rx[c] = "waiting"
                 PROVE  \E i \in 1..Len(later) : later[i] = c
      BY <2>7 DEF Listed
    <3>1. c # p.waiters[f] /\ p.rx[c] = "waiting"
      BY <2>4, NamesApart
    <3>2. PICK i \in 1..Len(p.waiters) : p.waiters[i] = c
      BY <3>1 DEF PoolGood, Listed
    <3>3. f <= i /\ f # i
      BY <2>3, <3>1, <3>2
    <3>4. i - f \in 1..Len(later) /\ f + (i - f) = i
      BY SMTT(60), <1>1, <2>3, <2>6, <3>2, <3>3, PoolFields
    <3> QED  BY <2>6, <3>2, <3>4
  <2>9. PoolGood(q)
    BY <2>5, <2>7, <2>8 DEF PoolGood, Quiet
  <2>10. Served(p, q, s)
    BY <2>3, <2>4, <2>7 DEF Served
  <2> QED  BY <2>1, <2>9, <2>10
<1> QED  BY <1>4, <1>5, <1>6, <1>7

(* Who checks out gets a connection that was idle; it stays in the pool    *)
(* only if it is shared.                                                   *)
LEMMA PopFields ==
  ASSUME ClientTypes, NEW idle \in Seq(Entry)
  PROVE  /\ Pop(idle).idle \in Seq(Entry) /\ Len(Pop(idle).idle) <= Len(idle)
         /\ Pop(idle).socket \in Socket \cup {NoSocket}
         /\ Pop(idle).socket # NoSocket =>
              \E k \in 1..Len(idle) :
                /\ idle[k].socket = Pop(idle).socket
                /\ \A i \in 1..Len(Pop(idle).idle) :
                     \/ i < k /\ i \in 1..Len(idle) /\ Pop(idle).idle[i] = idle[i]
                     \/ /\ Pop(idle).idle[i].socket = Pop(idle).socket
                        /\ socket[Pop(idle).socket].proto = "h2"
<1>1. CASE Good(idle) = {}
  BY <1>1 DEF Pop
<1>2. CASE Good(idle) # {}
  <2> DEFINE k == CHOOSE i \in Good(idle) : \A j \in Good(idle) : j <= i
             s == idle[k].socket
             newest == [socket |-> s, old |-> FALSE]
             rest == SubSeq(idle, 1, k - 1)
  <2>1. k \in 1..Len(idle)
    <3>1. Len(idle) \in Nat /\ Good(idle) \in SUBSET (1..Len(idle))
      BY DEF Good
    <3>2. \E i \in Good(idle) : \A j \in Good(idle) : j <= i
      BY <1>2, <3>1, Largest
    <3> QED  BY <3>1, <3>2
  <2>2. Pop(idle) = [socket |-> s, idle |-> IF socket[s].proto = "h2" THEN Append(rest, newest) ELSE rest]
    BY <1>2 DEF Pop
  <2> HIDE DEF k
  <2>3. s \in Socket /\ newest \in Entry
    <3>1. idle[k] \in Entry
      BY <2>1
    <3>2. s \in Socket
      BY <3>1 DEF Entry
    <3> HIDE DEF s
    <3> QED  BY <3>2 DEF Entry
  <2>4. rest \in Seq(Entry) /\ Len(rest) = k - 1 /\ \A i \in 1..(k - 1) : rest[i] = idle[i]
    BY <2>1
  <2> HIDE DEF s, newest, rest
  <2>5. Append(rest, newest) \in Seq(Entry) /\ Len(Append(rest, newest)) = k
        /\ Append(rest, newest)[k] = newest
        /\ \A i \in 1..(k - 1) : Append(rest, newest)[i] = idle[i]
    BY <2>1, <2>3, <2>4
  <2>6. newest.socket = s
    BY DEF newest
  <2>7. CASE socket[s].proto = "h2"
    <3>1. Pop(idle).socket = s /\ Pop(idle).idle = Append(rest, newest)
      BY <2>2, <2>7
    <3>2. \A i \in 1..k : i < k \/ i = k
      BY <2>1
    <3> QED  BY <2>1, <2>3, <2>5, <2>6, <2>7, <3>1, <3>2 DEF s
  <2>8. CASE socket[s].proto # "h2"
    <3>1. Pop(idle).socket = s /\ Pop(idle).idle = rest
      BY <2>2, <2>8
    <3> QED  BY <2>1, <2>3, <2>4, <3>1 DEF s
  <2> QED  BY <2>7, <2>8
<1> QED  BY <1>1, <1>2

LEMMA SocketTyped ==
  ASSUME ClientTypes, NEW s \in Socket
  PROVE  /\ socket[s] = [phase |-> socket[s].phase, by |-> socket[s].by, locked |-> socket[s].locked,
                         proto |-> socket[s].proto, open |-> socket[s].open]
         /\ socket[s].phase \in {"unused", "dialing", "handshake", "up"}
         /\ socket[s].by \in Call \cup {NoCall}
         /\ socket[s].locked \in BOOLEAN
         /\ socket[s].proto \in {"none", "h1", "h2"}
         /\ socket[s].open \in BOOLEAN
<1>1. socket[s] \in SocketState
  BY DEF ClientTypes
<1> QED  BY <1>1 DEF SocketState

LEMMA CallTyped ==
  ASSUME ClientTypes, NEW c \in Call
  PROVE  /\ call[c] = [phase |-> call[c].phase, socket |-> call[c].socket, reused |-> call[c].reused]
         /\ call[c].phase \in {"new", "connect", "racing", "waiting", "connecting", "sending"} \cup Over
         /\ call[c].socket \in Socket \cup {NoSocket}
         /\ call[c].reused \in BOOLEAN
         /\ call[c].phase = "sending" => call[c].socket \in Socket
<1>1. call[c] \in CallState
  BY DEF ClientTypes
<1> QED  BY <1>1 DEF CallState, CallRecord

(* The types of what the steps write.                                      *)
LEMMA UnusedTyped == Unused \in SocketState
BY DEF Unused, SocketState

LEMMA WithoutTyped ==
  ASSUME ClientTypes, NEW gone
  PROVE  Without(gone) \in [Socket -> SocketState]
BY UnusedTyped DEF ClientTypes, Without

LEMMA EndTyped ==
  ASSUME ClientTypes, NEW c \in Call, NEW how \in Over \cup {"new"}, End(c, how)
  PROVE  call' \in [Call -> CallState]
<1>1. [phase |-> how, socket |-> NoSocket, reused |-> FALSE] \in CallState
  BY DEF CallState, CallRecord, Over
<1> QED  BY <1>1 DEF End, ClientTypes

LEMMA HoldingTyped ==
  ASSUME ClientTypes, NEW c \in Call, NEW s \in Socket, NEW reused \in BOOLEAN, Holding(c, s, reused)
  PROVE  call' \in [Call -> CallState]
<1>1. [phase |-> "sending", socket |-> s, reused |-> reused] \in CallState
  BY DEF CallState, CallRecord, Over
<1> QED  BY <1>1 DEF Holding, ClientTypes

LEMMA PhaseTyped ==
  ASSUME ClientTypes, NEW c \in Call, NEW ph \in {"connect", "racing", "waiting", "connecting", "failed"}
  PROVE  [call EXCEPT ![c].phase = ph] \in [Call -> CallState]
<1> DEFINE r == [call[c] EXCEPT !.phase = ph]
<1>1. r = [phase |-> ph, socket |-> call[c].socket, reused |-> call[c].reused]
  <2>1. call[c] = [phase |-> call[c].phase, socket |-> call[c].socket, reused |-> call[c].reused]
    BY CallTyped
  <2> QED  BY ONLY <2>1
<1>2. r \in CallState
  <2> HIDE DEF r
  <2> QED  BY <1>1, CallTyped DEF CallState, CallRecord, Over
<1>3. [call EXCEPT ![c].phase = ph] = [call EXCEPT ![c] = r]
  OBVIOUS
<1> HIDE DEF r
<1> QED  BY <1>2, <1>3 DEF ClientTypes

LEMMA ClientTypesInvariant ==
  ASSUME ClientTypes, PoolGood(pool), [ClientNext]_clientVars
  PROVE  ClientTypes'
<1>1. ASSUME NEW c \in Call, CheckOut(c)
      PROVE  ClientTypes'
  <2> DEFINE found == Pop(pool.idle)
  <2>1. UNCHANGED <<ver, socket, returning>>
    BY <1>1 DEF CheckOut
  <2>2. found.socket \in Socket \cup {NoSocket}
    BY PopFields, PoolFields DEF PoolGood
  <2>3. CASE found.socket # NoSocket
    BY <1>1, <2>1, <2>2, <2>3, HoldingTyped DEF CheckOut, ClientTypes
  <2>4. CASE found.socket = NoSocket
    <3>1. call' = [call EXCEPT ![c].phase = "connect"]
      BY <1>1, <2>4 DEF CheckOut
    <3> QED  BY <2>1, <3>1, PhaseTyped DEF ClientTypes
  <2> QED  BY <2>3, <2>4
<1>2. ASSUME NEW c \in Call, StartConnect(c)
      PROVE  ClientTypes'
  <2>1. UNCHANGED <<ver, returning>>
    BY <1>2 DEF StartConnect
  <2>2. CASE UNCHANGED socket
    <3>1. \/ call' = [call EXCEPT ![c].phase = "waiting"]
          \/ call' = [call EXCEPT ![c].phase = "racing"]
      BY <1>2 DEF StartConnect
    <3> QED  BY ZenonT(60), <2>1, <2>2, <3>1, PhaseTyped DEF ClientTypes
  <2>3. ASSUME NEW s \in Socket, call' = [call EXCEPT ![c].phase = "racing"],
               socket' = [socket EXCEPT ![s] = [Unused EXCEPT !.phase = "dialing", !.by = c,
                                                              !.locked = ver = "h2"]]
        PROVE  ClientTypes'
    <3> DEFINE r == [Unused EXCEPT !.phase = "dialing", !.by = c, !.locked = ver = "h2"]
    <3>1. r \in SocketState
      BY DEF Unused, SocketState
    <3> HIDE DEF r
    <3>2. socket' \in [Socket -> SocketState]
      BY <2>3, <3>1 DEF ClientTypes, r
    <3> QED  BY <2>1, <2>3, <3>2, PhaseTyped DEF ClientTypes
  <2> QED  BY <1>2, <2>2, <2>3 DEF StartConnect
<1>3. ASSUME NEW c \in Call, CheckedOut(c)
      PROVE  ClientTypes'
  <2> DEFINE s == pool.rx[c]
  <2>1. UNCHANGED <<ver, returning>> /\ s \in Socket
    BY <1>3 DEF CheckedOut
  <2>2. CASE socket[s].open
    <3>1. Holding(c, s, TRUE)
          /\ socket' = [x \in Socket |-> IF x \in Mine(c) THEN [socket[x] EXCEPT !.by = NoCall]
                                         ELSE socket[x]]
      BY <1>3, <2>2 DEF CheckedOut
    <3>2. ASSUME NEW x \in Socket PROVE [socket[x] EXCEPT !.by = NoCall] \in SocketState
      <4> DEFINE r == [socket[x] EXCEPT !.by = NoCall]
      <4>1. r = [phase |-> socket[x].phase, by |-> NoCall, locked |-> socket[x].locked,
                 proto |-> socket[x].proto, open |-> socket[x].open]
        <5>1. socket[x] = [phase |-> socket[x].phase, by |-> socket[x].by, locked |-> socket[x].locked,
                           proto |-> socket[x].proto, open |-> socket[x].open]
          BY SocketTyped
        <5> QED  BY ONLY <5>1
      <4> HIDE DEF r
      <4>2. r \in SocketState
        BY <4>1, SocketTyped DEF SocketState
      <4> QED  BY <4>2 DEF r
    <3>3. socket' \in [Socket -> SocketState]
      BY <3>1, <3>2 DEF ClientTypes
    <3>4. call' \in [Call -> CallState]
      BY <2>1, <3>1, HoldingTyped
    <3> QED  BY <2>1, <3>3, <3>4 DEF ClientTypes
  <2>3. CASE ~socket[s].open
    <3>1. /\ UNCHANGED socket
          /\ call' = [call EXCEPT ![c].phase = "connecting"] \/ End(c, "failed")
      BY <1>3, <2>3 DEF CheckedOut
    <3> QED  BY <2>1, <3>1, PhaseTyped, EndTyped DEF ClientTypes, Over
  <2> QED  BY <2>2, <2>3
<1>4. ASSUME NEW c \in Call, NEW how \in Over, End(c, how), UNCHANGED <<ver, returning>>,
             socket' = Without(Mine(c))
      PROVE  ClientTypes'
  BY <1>4, EndTyped, WithoutTyped DEF ClientTypes
<1>5. ASSUME NEW c \in Call, Sent(c)
      PROVE  ClientTypes'
  <2>1. UNCHANGED <<ver, socket>>
    BY <1>5 DEF Sent
  <2>2. call' \in [Call -> CallState]
    <3>1. \E how \in Over \cup {"new"} : End(c, how)
      BY <1>5 DEF Sent, Over
    <3> QED  BY <3>1, EndTyped
  <2>3. returning' \subseteq Socket
    <3>1. CASE returning' = returning
      BY <3>1 DEF ClientTypes
    <3>2. CASE returning' = returning \cup {call[c].socket} /\ socket[call[c].socket].proto = "h1"
               /\ call[c].socket \in Socket
      BY <3>2 DEF ClientTypes
    <3>3. call[c].socket \in Socket
      BY <1>5, CallTyped DEF Sent
    <3> QED  BY <1>5, <3>1, <3>2, <3>3 DEF Sent
  <2> QED  BY <2>1, <2>2, <2>3 DEF ClientTypes
<1>6. ASSUME NEW s \in Socket, NEW r \in SocketState, socket' = [socket EXCEPT ![s] = r],
             UNCHANGED <<ver, returning>>, call' \in [Call -> CallState]
      PROVE  ClientTypes'
  BY <1>6 DEF ClientTypes
<1>7. ASSUME NEW s \in Socket, Dialled(s)
      PROVE  ClientTypes'
  <2> DEFINE c == socket[s].by
             r(proto, locked) == [phase |-> "handshake", by |-> c, locked |-> locked,
                                  proto |-> proto, open |-> socket[s].open]
  <2>1. UNCHANGED <<ver, returning>> /\ call \in [Call -> CallState]
    BY <1>7 DEF Dialled, ClientTypes
  <2>2. r("h1", socket[s].locked) \in SocketState /\ r("h2", TRUE) \in SocketState
    BY SocketTyped DEF SocketState
  <2>3. socket[s] = [phase |-> socket[s].phase, by |-> socket[s].by, locked |-> socket[s].locked,
                     proto |-> socket[s].proto, open |-> socket[s].open]
    BY SocketTyped
  <2>4. CASE /\ socket' = [socket EXCEPT ![s] = [@ EXCEPT !.phase = "handshake", !.proto = "h1"]]
             /\ UNCHANGED call
    <3> DEFINE q == [socket[s] EXCEPT !.phase = "handshake", !.proto = "h1"]
    <3>1. q = r("h1", socket[s].locked)
      <4>1. q = [socket[s] EXCEPT !.phase = "handshake", !.proto = "h1"]
        OBVIOUS
      <4> HIDE DEF q
      <4> QED  BY ONLY <2>3, <4>1
    <3>2. socket' = [socket EXCEPT ![s] = r("h1", socket[s].locked)]
      BY <2>4, <3>1
    <3> HIDE DEF r
    <3> QED  BY <1>6, <2>1, <2>2, <2>4, <3>2
  <2>5. CASE /\ socket' = [socket EXCEPT ![s] = [@ EXCEPT !.phase = "handshake", !.proto = "h2",
                                         !.locked = TRUE]]
             /\ UNCHANGED call
    <3> DEFINE q == [socket[s] EXCEPT !.phase = "handshake", !.proto = "h2", !.locked = TRUE]
    <3>1. q = r("h2", TRUE)
      <4>1. q = [socket[s] EXCEPT !.phase = "handshake", !.proto = "h2", !.locked = TRUE]
        OBVIOUS
      <4> HIDE DEF q
      <4> QED  BY ONLY <2>3, <4>1
    <3>2. socket' = [socket EXCEPT ![s] = r("h2", TRUE)]
      BY <2>5, <3>1
    <3> HIDE DEF r
    <3> QED  BY <1>6, <2>1, <2>2, <2>5, <3>2
  <2>6. CASE /\ socket' = Without({s})
             /\ call' = IF c = NoCall THEN call
                        ELSE [call EXCEPT ![c].phase = IF @ = "racing" THEN "waiting" ELSE "failed"]
    <3>1. \/ call' = call
          \/ c \in Call /\ call' = [call EXCEPT ![c].phase = "waiting"]
          \/ c \in Call /\ call' = [call EXCEPT ![c].phase = "failed"]
      BY <2>6, SocketTyped
    <3>2. call' \in [Call -> CallState]
      BY ZenonT(60), <2>1, <3>1, PhaseTyped
    <3> QED  BY <2>1, <2>6, <3>2, WithoutTyped DEF ClientTypes
  <2> QED  BY <1>7, <2>4, <2>5, <2>6 DEF Dialled
<1>8. ASSUME NEW s \in Socket, ConnectFailed(s)
      PROVE  ClientTypes'
  <2>1. /\ UNCHANGED <<ver, returning>> /\ socket' = Without({s})
        /\ call' = call \/ (socket[s].by \in Call /\ End(socket[s].by, "failed"))
    BY <1>8, SocketTyped DEF ConnectFailed
  <2>2. call' \in [Call -> CallState]
    BY <2>1, EndTyped DEF ClientTypes, Over
  <2> QED  BY <2>1, <2>2, WithoutTyped DEF ClientTypes
<1>9. ASSUME NEW s \in Socket, Handshaken(s)
      PROVE  ClientTypes'
  <2> DEFINE r == [phase |-> "up", by |-> NoCall, locked |-> FALSE,
                   proto |-> socket[s].proto, open |-> TRUE]
  <2>1. UNCHANGED <<ver, returning>>
    BY <1>9 DEF Handshaken
  <2>2. r \in SocketState
    BY SocketTyped DEF SocketState
  <2>3. socket' = [socket EXCEPT ![s] = r]
    <3>1. socket[s] = [phase |-> socket[s].phase, by |-> socket[s].by, locked |-> socket[s].locked,
                       proto |-> socket[s].proto, open |-> socket[s].open]
      BY SocketTyped
    <3> DEFINE q == [socket[s] EXCEPT !.phase = "up", !.open = TRUE, !.locked = FALSE, !.by = NoCall]
    <3>2. q = r
      <4>1. q = [socket[s] EXCEPT !.phase = "up", !.open = TRUE, !.locked = FALSE, !.by = NoCall]
        OBVIOUS
      <4> HIDE DEF q
      <4> QED  BY ONLY <3>1, <4>1
    <3> QED  BY <1>9, <3>2 DEF Handshaken
  <2>4. call' = call \/ (socket[s].by \in Call /\ Holding(socket[s].by, s, FALSE))
    BY <1>9, SocketTyped DEF Handshaken
  <2>5. call' \in [Call -> CallState]
    BY <2>4, HoldingTyped DEF ClientTypes
  <2> HIDE DEF r
  <2> QED  BY <1>6, <2>1, <2>2, <2>3, <2>5
<1>10. ASSUME NEW s \in Socket, Die(s)
       PROVE  ClientTypes'
  <2> DEFINE r == [phase |-> socket[s].phase, by |-> socket[s].by, locked |-> socket[s].locked,
                   proto |-> socket[s].proto, open |-> FALSE]
  <2>1. UNCHANGED <<ver, returning>> /\ call' \in [Call -> CallState]
    BY <1>10 DEF Die, ClientTypes
  <2>2. r \in SocketState
    BY SocketTyped DEF SocketState
  <2>3. socket' = [socket EXCEPT ![s] = r]
    <3>1. socket[s] = [phase |-> socket[s].phase, by |-> socket[s].by, locked |-> socket[s].locked,
                       proto |-> socket[s].proto, open |-> socket[s].open]
      BY SocketTyped
    <3> DEFINE q == [socket[s] EXCEPT !.open = FALSE]
    <3>2. q = r
      <4>1. q = [socket[s] EXCEPT !.open = FALSE]
        OBVIOUS
      <4> HIDE DEF q
      <4> QED  BY ONLY <3>1, <4>1
    <3> QED  BY <1>10, <3>2 DEF Die
  <2> HIDE DEF r
  <2> QED  BY <1>6, <2>1, <2>2, <2>3
<1>11. ASSUME NEW s \in Socket, Freed(s) \/ Return(s)
       PROVE  ClientTypes'
  <2>1. CASE Freed(s)
    BY <2>1, WithoutTyped DEF Freed, ClientTypes
  <2>2. CASE Return(s)
    BY <2>2 DEF Return, ClientTypes
  <2> QED  BY <1>11, <2>1, <2>2
<1>12. ASSUME NEW c \in Call, CheckoutDropped(c) \/ Cancel(c)
       PROVE  ClientTypes'
  <2>1. /\ UNCHANGED <<ver, returning>> /\ socket' = Without(Mine(c))
        /\ End(c, "failed") \/ End(c, "cancelled")
    BY <1>12 DEF CheckoutDropped, Cancel
  <2> QED  BY <1>4, <2>1 DEF Over
<1>13. ASSUME CleanWaiters \/ Age \/ ClearExpired \/ UNCHANGED clientVars
       PROVE  ClientTypes'
  BY <1>13 DEF CleanWaiters, Age, ClearExpired, clientVars, ClientTypes
<1> QED
  BY <1>1, <1>2, <1>3, <1>5, <1>7, <1>8, <1>9, <1>10, <1>11, <1>12, <1>13
  DEF ClientNext, CallStep, SocketStep

(* A pool with another idle list, or with another waiter.                  *)
LEMMA IdleReplaced ==
  ASSUME NEW p, PoolGood(p), NEW idle \in Seq(Entry), Len(idle) <= PoolMax,
         idle # <<>> => \A c \in Call : p.rx[c] # "waiting",
         NEW q, q = [p EXCEPT !.idle = idle]
  PROVE  PoolGood(q) /\ q.idle = idle /\ q.connecting = p.connecting /\ q.rx = p.rx
<1>1. p = [connecting |-> p.connecting, idle |-> p.idle, waiters |-> p.waiters, rx |-> p.rx]
  BY DEF PoolGood, PoolState
<1>2. q = [connecting |-> p.connecting, idle |-> idle, waiters |-> p.waiters, rx |-> p.rx]
  BY <1>1
<1>3. q \in PoolState
  BY <1>2, PoolFields DEF PoolGood, PoolState
<1> QED  BY <1>2, <1>3 DEF PoolGood, Listed, Quiet

LEMMA ConnectingReplaced ==
  ASSUME NEW p, PoolGood(p), NEW b \in BOOLEAN, NEW q, q = [p EXCEPT !.connecting = b]
  PROVE  PoolGood(q) /\ q.idle = p.idle /\ q.connecting = b /\ q.rx = p.rx
<1>1. p = [connecting |-> p.connecting, idle |-> p.idle, waiters |-> p.waiters, rx |-> p.rx]
  BY DEF PoolGood, PoolState
<1>2. q = [connecting |-> b, idle |-> p.idle, waiters |-> p.waiters, rx |-> p.rx]
  BY <1>1
<1>3. q \in PoolState
  BY <1>2, PoolFields DEF PoolGood, PoolState
<1> QED  BY <1>2, <1>3 DEF PoolGood, Listed, Quiet

LEMMA WaiterAdded ==
  ASSUME PoolGood(pool), NEW c \in Call,
         pool' = [pool EXCEPT !.idle = <<>>, !.waiters = Append(@, c), !.rx[c] = "waiting"]
  PROVE  /\ PoolGood(pool') /\ pool'.idle = <<>> /\ pool'.connecting = pool.connecting
         /\ pool'.rx[c] = "waiting"
         /\ \A d \in Call : d # c => pool'.rx[d] = pool.rx[d]
<1>1. pool = [connecting |-> pool.connecting, idle |-> pool.idle, waiters |-> pool.waiters, rx |-> pool.rx]
  BY DEF PoolGood, PoolState
<1>2. pool' = [connecting |-> pool.connecting, idle |-> <<>>, waiters |-> Append(pool.waiters, c),
               rx |-> [pool.rx EXCEPT ![c] = "waiting"]]
  BY <1>1
<1>3. /\ pool.waiters \in Seq(Call) /\ Len(pool.waiters) \in Nat
      /\ pool.rx \in [Call -> {"closed", "waiting", "dropped"} \cup Socket]
      /\ pool.connecting \in BOOLEAN
  BY PoolFields DEF PoolGood
<1>4. /\ pool'.waiters = Append(pool.waiters, c) /\ pool'.idle = <<>>
      /\ pool'.rx = [pool.rx EXCEPT ![c] = "waiting"] /\ pool'.connecting = pool.connecting
  BY <1>2
<1>5. /\ pool'.waiters \in Seq(Call) /\ Len(pool'.waiters) = Len(pool.waiters) + 1
      /\ pool'.waiters[Len(pool.waiters) + 1] = c
      /\ \A i \in 1..Len(pool.waiters) : pool'.waiters[i] = pool.waiters[i]
  BY <1>3, <1>4
<1>6. pool'.rx[c] = "waiting" /\ \A d \in Call : d # c => pool'.rx[d] = pool.rx[d]
  BY <1>3, <1>4
<1>7. pool' \in PoolState
  <2>1. <<>> \in Seq(Entry)
    OBVIOUS
  <2>2. [pool.rx EXCEPT ![c] = "waiting"] \in [Call -> {"closed", "waiting", "dropped"} \cup Socket]
    BY <1>3
  <2>3. Append(pool.waiters, c) \in Seq(Call)
    BY <1>3
  <2> QED  BY <1>2, <1>3, <2>1, <2>2, <2>3 DEF PoolState
<1>8. Listed(pool')
  <2> SUFFICES ASSUME NEW d \in Call, pool'.rx[d] = "waiting"
               PROVE  \E i \in 1..Len(pool'.waiters) : pool'.waiters[i] = d
    BY DEF Listed
  <2>1. CASE d = c
    <3>1. Len(pool.waiters) + 1 \in 1..Len(pool'.waiters)
      BY <1>3, <1>5
    <3> QED  BY <1>5, <2>1, <3>1
  <2>2. CASE d # c
    <3>1. PICK i \in 1..Len(pool.waiters) : pool.waiters[i] = d
      BY <1>6, <2>2 DEF PoolGood, Listed
    <3>2. i \in 1..Len(pool'.waiters)
      BY <1>3, <1>5
    <3> QED  BY <1>5, <3>1, <3>2
  <2> QED  BY <2>1, <2>2
<1>9. Len(pool'.idle) <= PoolMax
  BY <1>4, NamesApart
<1> QED  BY <1>4, <1>6, <1>7, <1>8, <1>9 DEF PoolGood, Quiet

(* Cancelled waiters leave the queue, the others stay in it.               *)
LEMMA WaitersCleaned ==
  ASSUME PoolGood(pool), CleanWaiters
  PROVE  /\ PoolGood(pool') /\ pool'.idle = pool.idle /\ pool'.connecting = pool.connecting
         /\ pool'.rx = pool.rx
<1> DEFINE kept == Kept(pool.waiters, Live(pool))
<1>1. pool = [connecting |-> pool.connecting, idle |-> pool.idle, waiters |-> pool.waiters, rx |-> pool.rx]
  BY DEF PoolGood, PoolState
<1>2. pool' = [pool EXCEPT !.waiters = kept]
  BY DEF CleanWaiters
<1>3. pool.waiters \in Seq(Call) /\ Live(pool) \in SUBSET (1..Len(pool.waiters))
  BY PoolFields DEF PoolGood, Live
<1>4. kept \in Seq(Call) /\ Keeps(pool.waiters, Live(pool), kept)
  BY <1>3, KeptElements
<1> HIDE DEF kept
<1>5. pool' = [connecting |-> pool.connecting, idle |-> pool.idle, waiters |-> kept, rx |-> pool.rx]
  BY <1>1, <1>2
<1>6. pool' \in PoolState
  BY <1>4, <1>5, PoolFields DEF PoolGood, PoolState
<1>7. /\ pool'.connecting = pool.connecting /\ pool'.idle = pool.idle /\ pool'.rx = pool.rx
      /\ pool'.waiters = kept
  BY <1>5
<1>8. Listed(pool')
  <2> SUFFICES ASSUME NEW c \in Call, pool.rx[c] = "waiting"
               PROVE  \E k \in 1..Len(kept) : kept[k] = c
    BY <1>7 DEF Listed
  <2>1. PICK i \in 1..Len(pool.waiters) : pool.waiters[i] = c
    BY DEF PoolGood, Listed
  <2>2. i \in Live(pool)
    BY <2>1 DEF Live
  <2> QED  BY <1>4, <2>1, <2>2 DEF Keeps
<1> QED  BY <1>6, <1>7, <1>8 DEF PoolGood, Quiet

(* Idle connections that aged or expired.                                  *)
LEMMA IdleAged ==
  ASSUME PoolGood(pool), Age
  PROVE  /\ PoolGood(pool') /\ pool'.connecting = pool.connecting /\ pool'.rx = pool.rx
         /\ Len(pool'.idle) = Len(pool.idle)
         /\ \A i \in 1..Len(pool.idle) : pool'.idle[i].socket = pool.idle[i].socket
<1>1. pool.idle \in Seq(Entry) /\ DOMAIN pool.idle = 1..Len(pool.idle) /\ Len(pool.idle) \in Nat
  BY PoolFields DEF PoolGood
<1>2. PICK i \in 1..Len(pool.idle) : pool' = [pool EXCEPT !.idle[i].old = TRUE]
  BY <1>1 DEF Age
<1> DEFINE e == [socket |-> pool.idle[i].socket, old |-> TRUE]
           idle == [pool.idle EXCEPT ![i] = e]
<1>3. pool.idle[i] \in Entry
  BY <1>1
<1>4. e \in Entry
  BY <1>3 DEF Entry
<1>5. pool' = [pool EXCEPT !.idle = idle]
  <2>1. pool.idle[i] = [socket |-> pool.idle[i].socket, old |-> pool.idle[i].old]
    BY <1>3 DEF Entry
  <2> DEFINE f == [pool.idle[i] EXCEPT !.old = TRUE]
  <2>2. f = e
    <3>1. f = [pool.idle[i] EXCEPT !.old = TRUE]
      OBVIOUS
    <3> HIDE DEF f
    <3> QED  BY ONLY <2>1, <3>1
  <2>3. pool' = [pool EXCEPT !.idle = [pool.idle EXCEPT ![i] = f]]
    BY <1>2
  <2> HIDE DEF f
  <2> QED  BY <2>2, <2>3
<1>6. e.socket = pool.idle[i].socket
  OBVIOUS
<1> HIDE DEF e
<1>7. idle \in Seq(Entry) /\ Len(idle) = Len(pool.idle)
      /\ \A j \in 1..Len(pool.idle) : idle[j] = IF j = i THEN e ELSE pool.idle[j]
  BY <1>1, <1>4
<1> HIDE DEF idle
<1>8. idle # <<>> => \A c \in Call : pool.rx[c] # "waiting"
  BY <1>2 DEF PoolGood, Quiet
<1>9. Len(idle) <= PoolMax
  BY <1>7 DEF PoolGood
<1>10. /\ PoolGood(pool') /\ pool'.connecting = pool.connecting /\ pool'.rx = pool.rx
       /\ pool'.idle = idle
  BY <1>5, <1>7, <1>8, <1>9, IdleReplaced
<1> QED  BY <1>6, <1>7, <1>10

LEMMA IdleExpired ==
  ASSUME PoolGood(pool), ClearExpired
  PROVE  /\ PoolGood(pool') /\ pool'.connecting = pool.connecting /\ pool'.rx = pool.rx
         /\ \E at \in [1..Len(pool'.idle) -> 1..Len(pool.idle)] :
              /\ \A k \in 1..Len(pool'.idle) : pool'.idle[k] = pool.idle[at[k]]
              /\ \A k, l \in 1..Len(pool'.idle) : at[k] = at[l] => k = l
<1> DEFINE idle == Kept(pool.idle, Good(pool.idle))
<1>1. pool' = [pool EXCEPT !.idle = idle]
  BY DEF ClearExpired
<1>2. /\ pool.idle \in Seq(Entry) /\ Good(pool.idle) \in SUBSET (1..Len(pool.idle))
      /\ Len(pool.idle) \in Nat
  BY PoolFields DEF PoolGood, Good
<1>3. /\ idle \in Seq(Entry) /\ Len(idle) \in Nat /\ Len(idle) <= Len(pool.idle)
      /\ Keeps(pool.idle, Good(pool.idle), idle)
  BY <1>2, KeptElements
<1> HIDE DEF idle
<1>4. Len(idle) <= PoolMax
  BY <1>2, <1>3, NamesApart DEF PoolGood
<1>5. idle # <<>> => \A c \in Call : pool.rx[c] # "waiting"
  <2>1. idle # <<>> => Len(idle) # 0
    BY <1>3
  <2>2. pool.idle = <<>> => Len(pool.idle) = 0
    OBVIOUS
  <2>3. \A k \in 1..Len(idle) : \E i \in Good(pool.idle) : idle[k] = pool.idle[i]
    BY <1>3 DEF Keeps
  <2> QED  BY <1>2, <1>3, <2>1, <2>2, <2>3 DEF PoolGood, Quiet
<1>6. /\ PoolGood(pool') /\ pool'.connecting = pool.connecting /\ pool'.rx = pool.rx
      /\ pool'.idle = idle
  BY <1>1, <1>3, <1>4, <1>5, IdleReplaced
<1>7. \E at \in [1..Len(idle) -> 1..Len(pool.idle)] :
        /\ \A k \in 1..Len(idle) : idle[k] = pool.idle[at[k]]
        /\ \A k, l \in 1..Len(idle) : at[k] = at[l] => k = l
  <2>1. PICK at \in [1..Len(idle) -> Good(pool.idle)] :
          /\ \A k \in 1..Len(idle) : idle[k] = pool.idle[at[k]]
          /\ \A k, l \in 1..Len(idle) : at[k] = at[l] => k = l
    BY <1>3 DEF Keeps
  <2>2. at \in [1..Len(idle) -> 1..Len(pool.idle)]
    BY <1>2
  <2> QED  BY <2>1, <2>2
<1> QED  BY <1>6, <1>7

LEMMA PoolGoodInvariant ==
  ASSUME ClientTypes, PoolGood(pool), [ClientNext]_clientVars
  PROVE  PoolGood(pool')
<1>1. ASSUME NEW c \in Call, CheckOut(c)
      PROVE  PoolGood(pool')
  <2> DEFINE found == Pop(pool.idle)
  <2>1. CASE found.socket # NoSocket
    <3>1. pool' = [pool EXCEPT !.idle = found.idle]
      BY <1>1, <2>1 DEF CheckOut
    <3>2. pool.idle \in Seq(Entry) /\ Len(pool.idle) \in Nat
      BY PoolFields DEF PoolGood
    <3>3. /\ found.idle \in Seq(Entry) /\ Len(found.idle) <= Len(pool.idle)
          /\ \E k \in 1..Len(pool.idle) : TRUE
      BY <2>1, <3>2, PopFields
    <3> HIDE DEF found
    <3>4. Len(found.idle) <= PoolMax
      BY <3>2, <3>3, NamesApart DEF PoolGood
    <3>5. \A c2 \in Call : pool.rx[c2] # "waiting"
      BY <3>2, <3>3 DEF PoolGood, Quiet
    <3> QED  BY <3>1, <3>3, <3>4, <3>5, IdleReplaced
  <2>2. CASE found.socket = NoSocket
    <3>1. pool' = [pool EXCEPT !.idle = <<>>, !.waiters = Append(@, c), !.rx[c] = "waiting"]
      BY <1>1, <2>2 DEF CheckOut
    <3> QED  BY <3>1, WaiterAdded
  <2> QED  BY <2>1, <2>2
<1>2. ASSUME NEW c \in Call, StartConnect(c)
      PROVE  PoolGood(pool')
  <2>1. CASE UNCHANGED pool
    BY <2>1
  <2>2. CASE pool' = [pool EXCEPT !.connecting = @ \/ ver = "h2"]
    <3> DEFINE b == pool.connecting \/ ver = "h2"
    <3>1. b \in BOOLEAN
      OBVIOUS
    <3>2. pool' = [pool EXCEPT !.connecting = b]
      BY <2>2
    <3> HIDE DEF b
    <3> QED  BY <3>1, <3>2, ConnectingReplaced
  <2> QED  BY <1>2, <2>1, <2>2 DEF StartConnect
<1>3. ASSUME NEW c \in Call, CheckedOut(c)
      PROVE  PoolGood(pool')
  BY <1>3, ClosedFields DEF CheckedOut
<1>4. ASSUME NEW c \in Call, CheckoutDropped(c) \/ Cancel(c)
      PROVE  PoolGood(pool')
  <2>1. pool' = Closed(Unlocked(pool, Mine(c)), c)
    BY <1>4 DEF CheckoutDropped, Cancel
  <2> QED  BY <2>1, UnlockedFields, ClosedFields
<1>5. ASSUME NEW c \in Call, Sent(c)
      PROVE  PoolGood(pool')
  BY <1>5 DEF Sent
<1>6. ASSUME NEW s \in Socket, Dialled(s)
      PROVE  PoolGood(pool')
  <2>1. CASE UNCHANGED pool
    BY <2>1
  <2>2. CASE pool' = [pool EXCEPT !.connecting = TRUE]
    BY <2>2, ConnectingReplaced
  <2> QED  BY <1>6, <2>1, <2>2 DEF Dialled
<1>7. ASSUME NEW s \in Socket, ConnectFailed(s)
      PROVE  PoolGood(pool')
  <2>1. PoolGood(Unlocked(pool, {s}))
    BY UnlockedFields
  <2>2. \/ pool' = Unlocked(pool, {s})
        \/ socket[s].by \in Call /\ pool' = Closed(Unlocked(pool, {s}), socket[s].by)
    BY <1>7, SocketTyped DEF ConnectFailed
  <2> QED  BY <2>1, <2>2, ClosedFields
<1>8. ASSUME NEW s \in Socket, Handshaken(s)
      PROVE  PoolGood(pool')
  <2> DEFINE freed == Unlocked(pool, {s})
             after == IF socket[s].proto = "h2" THEN Connected(Put(pool, s))
                      ELSE IF socket[s].by = NoCall THEN Put(freed, s) ELSE freed
  <2>0. PoolGood(freed)
    BY UnlockedFields
  <2>1. PoolGood(after)
    <3> HIDE DEF freed
    <3> QED  BY <2>0, PutFields, ConnectedFields
  <2>2. pool' = after \/ (socket[s].by \in Call /\ pool' = Closed(after, socket[s].by))
    BY <1>8, SocketTyped DEF Handshaken
  <2> HIDE DEF after
  <2> QED  BY <2>1, <2>2, ClosedFields
<1>9. ASSUME NEW s \in Socket, Return(s)
      PROVE  PoolGood(pool')
  <2>1. pool' = pool \/ pool' = Put(pool, s)
    BY <1>9 DEF Return
  <2>2. PoolGood(Put(pool, s))
    BY PutFields
  <2> QED  BY <2>1, <2>2
<1>10. ASSUME NEW s \in Socket, Freed(s) \/ Die(s)
       PROVE  PoolGood(pool')
  BY <1>10 DEF Freed, Die
<1>11. ASSUME CleanWaiters \/ Age \/ ClearExpired \/ UNCHANGED clientVars
       PROVE  PoolGood(pool')
  <2>1. CASE UNCHANGED clientVars
    BY <2>1 DEF clientVars
  <2> QED  BY <1>11, <2>1, WaitersCleaned, IdleAged, IdleExpired
<1> QED
  BY <1>1, <1>2, <1>3, <1>4, <1>5, <1>6, <1>7, <1>8, <1>9, <1>10, <1>11
  DEF ClientNext, CallStep, SocketStep

(* The lock: most steps leave it; what goes away takes it along.           *)
LEMMA LocksSame ==
  ASSUME LocksHeld, ver' = ver, pool'.connecting = pool.connecting,
         \A s \in Socket : /\ socket'[s].locked = socket[s].locked
                           /\ socket'[s].phase = socket[s].phase
                           /\ socket'[s].proto = socket[s].proto
  PROVE  LocksHeld'
BY DEF LocksHeld

LEMMA WithoutFields ==
  ASSUME NEW gone, socket' = Without(gone), NEW s \in Socket
  PROVE  /\ s \in gone => ~socket'[s].locked /\ socket'[s].phase = "unused" /\ socket'[s].proto = "none"
         /\ s \notin gone => socket'[s] = socket[s]
BY DEF Without, Unused

LEMMA LocksReleased ==
  ASSUME LocksHeld, ver' = ver, NEW gone \in SUBSET Socket, socket' = Without(gone),
         IF \E s \in gone : socket[s].locked THEN pool'.connecting = FALSE
         ELSE pool'.connecting = pool.connecting
  PROVE  LocksHeld'
<1>1. \A s \in Socket : /\ s \in gone => ~socket'[s].locked /\ socket'[s].phase = "unused"
                        /\ s \notin gone => socket'[s] = socket[s]
  BY WithoutFields
<1>2. CASE \E s \in gone : socket[s].locked
  <2>1. \A s \in Socket : ~socket'[s].locked
    BY <1>1, <1>2 DEF LocksHeld
  <2> QED  BY <1>1, <1>2, <2>1 DEF LocksHeld
<1>3. CASE ~\E s \in gone : socket[s].locked
  BY <1>1, <1>3 DEF LocksHeld
<1> QED  BY <1>2, <1>3

LEMMA UnlockedConnecting ==
  ASSUME PoolGood(pool), NEW gone \in SUBSET Socket
  PROVE  /\ IF \E s \in gone : socket[s].locked THEN Unlocked(pool, gone).connecting = FALSE
            ELSE Unlocked(pool, gone).connecting = pool.connecting
         /\ \A c \in Call : Unlocked(pool, gone).rx[c] = "waiting" =>
              pool.rx[c] = "waiting" /\ Unlocked(pool, gone).connecting = pool.connecting
<1>1. Unlocked(pool, gone) \in PoolState
  BY UnlockedFields DEF PoolGood
<1>2. Unlocked(pool, gone).connecting \in BOOLEAN
  BY <1>1, PoolFields
<1> QED  BY <1>2, UnlockedFields

LEMMA HopeKept ==
  ASSUME WaitersHaveHope,
         \A c \in Call : call'[c].phase = "waiting" /\ pool'.rx[c] = "waiting" =>
           \/ pool'.connecting
           \/ /\ call[c].phase = "waiting" /\ pool.rx[c] = "waiting"
              /\ pool'.connecting = pool.connecting
  PROVE  WaitersHaveHope'
BY DEF WaitersHaveHope

(* What a step does to the call it is about.                               *)
LEMMA EndFields ==
  ASSUME ClientTypes, NEW c \in Call, NEW how, End(c, how)
  PROVE  /\ call'[c].phase = how /\ call'[c].socket = NoSocket
         /\ \A d \in Call : d # c => call'[d] = call[d]
BY DEF ClientTypes, End

LEMMA HoldingFields ==
  ASSUME ClientTypes, NEW c \in Call, NEW s, NEW reused, Holding(c, s, reused)
  PROVE  /\ call'[c].phase = "sending" /\ call'[c].socket = s
         /\ \A d \in Call : d # c => call'[d] = call[d]
BY DEF ClientTypes, Holding

LEMMA PhaseFields ==
  ASSUME ClientTypes, NEW c \in Call, NEW ph, call' = [call EXCEPT ![c].phase = ph]
  PROVE  /\ call'[c].phase = ph /\ call'[c].socket = call[c].socket
         /\ \A d \in Call : d # c => call'[d] = call[d]
<1>1. call[c] = [phase |-> call[c].phase, socket |-> call[c].socket, reused |-> call[c].reused]
  BY CallTyped
<1>2. call' = [call EXCEPT ![c] = [call[c] EXCEPT !.phase = ph]]
  OBVIOUS
<1> DEFINE r == [call[c] EXCEPT !.phase = ph]
<1>3. r.phase = ph /\ r.socket = call[c].socket
  BY <1>1
<1> HIDE DEF r
<1> QED  BY <1>2, <1>3 DEF ClientTypes, r

LEMMA LocksInvariant ==
  ASSUME ClientTypes, PoolGood(pool), LocksHeld, WaitersHaveHope, [ClientNext]_clientVars
  PROVE  LocksHeld' /\ WaitersHaveHope'
<1>1. ASSUME NEW c \in Call, CheckOut(c)
      PROVE  LocksHeld' /\ WaitersHaveHope'
  <2> DEFINE found == Pop(pool.idle)
  <2>1. UNCHANGED <<ver, socket>>
    BY <1>1 DEF CheckOut
  <2>2. CASE found.socket # NoSocket
    <3>1. pool'.connecting = pool.connecting /\ pool'.rx = pool.rx
      BY <1>1, <2>2 DEF CheckOut, PoolGood, PoolState
    <3>2. Holding(c, found.socket, TRUE)
      BY <1>1, <2>2 DEF CheckOut
    <3> HIDE DEF found
    <3> QED  BY <2>1, <3>1, <3>2, LocksSame, HopeKept, HoldingFields
  <2>3. CASE found.socket = NoSocket
    <3>1. /\ pool' = [pool EXCEPT !.idle = <<>>, !.waiters = Append(@, c), !.rx[c] = "waiting"]
          /\ call' = [call EXCEPT ![c].phase = "connect"]
      BY <1>1, <2>3 DEF CheckOut
    <3>2. pool'.connecting = pool.connecting
          /\ \A d \in Call : d # c => pool'.rx[d] = pool.rx[d]
      BY <3>1, WaiterAdded
    <3>3. call'[c].phase = "connect" /\ \A d \in Call : d # c => call'[d] = call[d]
      BY <3>1, PhaseFields
    <3> QED  BY <2>1, <3>2, <3>3, LocksSame, HopeKept
  <2> QED  BY <2>2, <2>3
<1>2. ASSUME NEW c \in Call, StartConnect(c)
      PROVE  LocksHeld' /\ WaitersHaveHope'
  <2>1. ver' = ver
    BY <1>2 DEF StartConnect
  <2>2. CASE ver = "h2" /\ pool.connecting
    <3>1. UNCHANGED <<pool, socket>>
      BY <1>2, <2>2 DEF StartConnect
    <3> QED  BY <2>1, <2>2, <3>1, LocksSame, HopeKept
  <2>3. CASE ~(ver = "h2" /\ pool.connecting)
    <3>1. PICK s \in Socket :
            /\ socket[s].phase = "unused"
            /\ socket' = [socket EXCEPT ![s] = [Unused EXCEPT !.phase = "dialing", !.by = c,
                                                              !.locked = ver = "h2"]]
            /\ pool' = [pool EXCEPT !.connecting = @ \/ ver = "h2"]
            /\ call' = [call EXCEPT ![c].phase = "racing"]
      BY <1>2, <2>3 DEF StartConnect
    <3> DEFINE b == pool.connecting \/ ver = "h2"
    <3>2. pool'.connecting = b /\ pool'.rx = pool.rx
      <4>1. pool' = [pool EXCEPT !.connecting = b] /\ b \in BOOLEAN
        BY <3>1
      <4> HIDE DEF b
      <4> QED  BY <4>1, ConnectingReplaced
    <3>3. /\ socket'[s].phase = "dialing" /\ socket'[s].locked = (ver = "h2")
          /\ \A t \in Socket : t # s => socket'[t] = socket[t]
      BY <3>1 DEF ClientTypes, Unused
    <3>4. call'[c].phase = "racing" /\ \A d \in Call : d # c => call'[d] = call[d]
      BY <3>1, PhaseFields
    <3>5. ver = "h2" => ~pool.connecting
      BY <2>3
    <3>6. LocksHeld'
      <4>1. CASE ver = "h2"
        <5>1. pool'.connecting /\ socket'[s].locked
          BY <3>2, <3>3, <4>1
        <5>2. \A t \in Socket : t # s => ~socket'[t].locked
          BY <3>3, <3>5, <4>1 DEF LocksHeld
        <5> QED  BY <2>1, <3>3, <4>1, <5>1, <5>2 DEF LocksHeld
      <4>2. CASE ver # "h2"
        <5>1. pool'.connecting = pool.connecting
          BY <3>2, <4>2, PoolFields DEF PoolGood
        <5>2. ~socket'[s].locked /\ ~socket[s].locked
          BY <3>1, <3>3, <4>2 DEF LocksHeld
        <5> QED  BY <2>1, <3>3, <4>2, <5>1, <5>2 DEF LocksHeld
      <4> QED  BY <4>1, <4>2
    <3>7. WaitersHaveHope'
      BY <3>2, <3>4 DEF WaitersHaveHope
    <3> QED  BY <3>6, <3>7
  <2> QED  BY <2>2, <2>3
<1>3. ASSUME NEW c \in Call, CheckedOut(c)
      PROVE  LocksHeld' /\ WaitersHaveHope'
  <2> DEFINE s == pool.rx[c]
  <2>1. /\ ver' = ver /\ pool'.connecting = pool.connecting
        /\ pool'.rx[c] = "closed" /\ \A d \in Call : d # c => pool'.rx[d] = pool.rx[d]
    BY <1>3, ClosedFields DEF CheckedOut
  <2>2. \A d \in Call : d # c => call'[d] = call[d]
    <3>1. \/ Holding(c, s, TRUE) \/ End(c, "failed")
          \/ call' = [call EXCEPT ![c].phase = "connecting"]
      BY <1>3 DEF CheckedOut
    <3>2. CASE Holding(c, s, TRUE)
      BY <3>2, HoldingFields
    <3>3. CASE End(c, "failed")
      BY <3>3, EndFields
    <3>4. CASE call' = [call EXCEPT ![c].phase = "connecting"]
      BY <3>4, PhaseFields
    <3> QED  BY <3>1, <3>2, <3>3, <3>4
  <2>3. \A x \in Socket : /\ socket'[x].locked = socket[x].locked
                          /\ socket'[x].phase = socket[x].phase
                          /\ socket'[x].proto = socket[x].proto
    <3>1. \/ UNCHANGED socket
          \/ socket' = [x \in Socket |-> IF x \in Mine(c) THEN [socket[x] EXCEPT !.by = NoCall]
                                         ELSE socket[x]]
      BY <1>3 DEF CheckedOut
    <3> SUFFICES ASSUME NEW x \in Socket
                 PROVE  /\ socket'[x].locked = socket[x].locked
                        /\ socket'[x].phase = socket[x].phase
                        /\ socket'[x].proto = socket[x].proto
      OBVIOUS
    <3> DEFINE r == [socket[x] EXCEPT !.by = NoCall]
    <3>2. r.locked = socket[x].locked /\ r.phase = socket[x].phase /\ r.proto = socket[x].proto
      BY SocketTyped
    <3>3. socket'[x] = socket[x] \/ socket'[x] = r
      BY <3>1
    <3> HIDE DEF r
    <3> QED  BY <3>2, <3>3
  <2>4. WaitersHaveHope'
    <3>1. "closed" # "waiting"
      OBVIOUS
    <3> QED  BY <2>1, <2>2, <3>1 DEF WaitersHaveHope
  <2> QED  BY <2>1, <2>3, <2>4, LocksSame
<1>4. ASSUME NEW c \in Call, CheckoutDropped(c) \/ Cancel(c)
      PROVE  LocksHeld' /\ WaitersHaveHope'
  <2> DEFINE freed == Unlocked(pool, Mine(c))
  <2>1. /\ pool' = Closed(freed, c) /\ socket' = Without(Mine(c)) /\ ver' = ver
        /\ End(c, "failed") \/ End(c, "cancelled")
    BY <1>4 DEF CheckoutDropped, Cancel
  <2>2. Mine(c) \in SUBSET Socket /\ PoolGood(freed)
    BY UnlockedFields DEF Mine
  <2>3. /\ IF \E s \in Mine(c) : socket[s].locked THEN freed.connecting = FALSE
           ELSE freed.connecting = pool.connecting
        /\ \A d \in Call : freed.rx[d] = "waiting" =>
             pool.rx[d] = "waiting" /\ freed.connecting = pool.connecting
    BY <2>2, UnlockedConnecting
  <2> HIDE DEF freed
  <2>4. /\ pool'.connecting = freed.connecting /\ pool'.rx[c] = "closed"
        /\ \A d \in Call : d # c => pool'.rx[d] = freed.rx[d]
    BY <2>1, <2>2, ClosedFields
  <2>5. \A d \in Call : d # c => call'[d] = call[d]
    BY <2>1, EndFields
  <2>6. LocksHeld'
    BY <2>1, <2>2, <2>3, <2>4, LocksReleased
  <2>7. WaitersHaveHope'
    BY <2>3, <2>4, <2>5 DEF WaitersHaveHope
  <2> QED  BY <2>6, <2>7
<1>5. ASSUME NEW c \in Call, Sent(c)
      PROVE  LocksHeld' /\ WaitersHaveHope'
  <2>1. UNCHANGED <<ver, pool, socket>>
    BY <1>5 DEF Sent
  <2>2. \E how \in {"done", "new", "failed"} : End(c, how)
    BY <1>5 DEF Sent
  <2>3. \A d \in Call : d # c => call'[d] = call[d]
    BY <2>2, EndFields
  <2>4. call'[c].phase # "waiting"
    BY <2>2, EndFields
  <2> QED  BY <2>1, <2>3, <2>4, LocksSame, HopeKept
<1>6. ASSUME NEW s \in Socket, Dialled(s)
      PROVE  LocksHeld' /\ WaitersHaveHope'
  <2> DEFINE c == socket[s].by
  <2>1. ver' = ver /\ socket[s].phase = "dialing" /\ (socket[s].locked <=> ver = "h2")
    BY <1>6 DEF Dialled, LocksHeld
  <2>2. CASE /\ UNCHANGED <<pool, call>>
             /\ socket' = [socket EXCEPT ![s] = [@ EXCEPT !.phase = "handshake", !.proto = "h1"]]
    <3>1. /\ socket'[s].phase = "handshake" /\ socket'[s].proto = "h1"
          /\ socket'[s].locked = socket[s].locked
          /\ \A t \in Socket : t # s => socket'[t] = socket[t]
      <4> DEFINE r == [socket[s] EXCEPT !.phase = "handshake", !.proto = "h1"]
      <4>1. r.phase = "handshake" /\ r.proto = "h1" /\ r.locked = socket[s].locked
        BY SocketTyped
      <4>2. socket' = [socket EXCEPT ![s] = r]
        BY <2>2
      <4> HIDE DEF r
      <4> QED  BY <4>1, <4>2 DEF ClientTypes
    <3>2. \A t \in Socket : socket'[t].locked = socket[t].locked
      BY <3>1
    <3>3. LocksHeld'
      BY <2>1, <2>2, <3>1, <3>2 DEF LocksHeld
    <3> QED  BY <2>2, <3>3, HopeKept
  <2>3. CASE /\ ver = "auto" => ~pool.connecting
             /\ socket' = [socket EXCEPT ![s] = [@ EXCEPT !.phase = "handshake", !.proto = "h2",
                                         !.locked = TRUE]]
             /\ pool' = [pool EXCEPT !.connecting = TRUE]
             /\ UNCHANGED call
    <3>1. /\ socket'[s].phase = "handshake" /\ socket'[s].proto = "h2" /\ socket'[s].locked
          /\ \A t \in Socket : t # s => socket'[t] = socket[t]
      <4> DEFINE r == [socket[s] EXCEPT !.phase = "handshake", !.proto = "h2", !.locked = TRUE]
      <4>1. r.phase = "handshake" /\ r.proto = "h2" /\ r.locked
        BY SocketTyped
      <4>2. socket' = [socket EXCEPT ![s] = r]
        BY <2>3
      <4> HIDE DEF r
      <4> QED  BY <4>1, <4>2 DEF ClientTypes
    <3>2. pool'.connecting = TRUE /\ pool'.rx = pool.rx
      BY <2>3, ConnectingReplaced
    <3>3. \A t \in Socket : t # s => ~socket[t].locked
      <4>1. CASE ver = "auto"
        BY <2>3, <4>1 DEF LocksHeld
      <4>2. CASE ver # "auto"
        BY <2>1, <4>2 DEF LocksHeld, ClientTypes
      <4> QED  BY <4>1, <4>2
    <3>4. LocksHeld'
      BY <2>1, <3>1, <3>2, <3>3 DEF LocksHeld
    <3> QED  BY <3>2, <3>4 DEF WaitersHaveHope
  <2>4. CASE /\ ver = "auto" /\ pool.connecting /\ socket' = Without({s}) /\ UNCHANGED pool
    <3>1. ~\E t \in {s} : socket[t].locked
      BY <2>1, <2>4
    <3>2. LocksHeld'
      BY <2>1, <2>4, <3>1, LocksReleased
    <3> QED  BY <2>4, <3>2 DEF WaitersHaveHope
  <2> QED  BY <1>6, <2>2, <2>3, <2>4 DEF Dialled
<1>7. ASSUME NEW s \in Socket, ConnectFailed(s)
      PROVE  LocksHeld' /\ WaitersHaveHope'
  <2> DEFINE freed == Unlocked(pool, {s})
             c == socket[s].by
  <2>1. ver' = ver /\ socket' = Without({s})
    BY <1>7 DEF ConnectFailed
  <2>2. /\ IF \E t \in {s} : socket[t].locked THEN freed.connecting = FALSE
           ELSE freed.connecting = pool.connecting
        /\ \A d \in Call : freed.rx[d] = "waiting" =>
             pool.rx[d] = "waiting" /\ freed.connecting = pool.connecting
    BY UnlockedConnecting
  <2>3. PoolGood(freed)
    BY UnlockedFields
  <2>4. \/ pool' = freed /\ call' = call
        \/ c \in Call /\ pool' = Closed(freed, c) /\ End(c, "failed")
    BY <1>7, SocketTyped DEF ConnectFailed
  <2> HIDE DEF freed
  <2>5. CASE pool' = freed /\ call' = call
    <3>1. LocksHeld'
      BY <2>1, <2>2, <2>5, LocksReleased
    <3> QED  BY <2>2, <2>5, <3>1 DEF WaitersHaveHope
  <2>6. CASE c \in Call /\ pool' = Closed(freed, c) /\ End(c, "failed")
    <3>1. /\ pool'.connecting = freed.connecting /\ pool'.rx[c] = "closed"
          /\ \A d \in Call : d # c => pool'.rx[d] = freed.rx[d]
      BY <2>3, <2>6, ClosedFields
    <3>2. \A d \in Call : d # c => call'[d] = call[d]
      BY <2>6, EndFields
    <3>3. LocksHeld'
      BY <2>1, <2>2, <3>1, LocksReleased
    <3>4. WaitersHaveHope'
      BY <2>2, <2>6, <3>1, <3>2 DEF WaitersHaveHope
    <3> QED  BY <3>3, <3>4
  <2> QED  BY <2>4, <2>5, <2>6
<1>8. ASSUME NEW s \in Socket, Handshaken(s)
      PROVE  LocksHeld' /\ WaitersHaveHope'
  <2> DEFINE c == socket[s].by
             freed == Unlocked(pool, {s})
             after == IF socket[s].proto = "h2" THEN Connected(Put(pool, s))
                      ELSE IF socket[s].by = NoCall THEN Put(freed, s) ELSE freed
  <2>1. /\ ver' = ver /\ socket[s].phase = "handshake"
        /\ socket[s].locked <=> (socket[s].proto = "h2" \/ ver = "h2")
    BY <1>8 DEF Handshaken, LocksHeld
  <2>2. /\ socket'[s].phase = "up" /\ ~socket'[s].locked
        /\ \A t \in Socket : t # s => socket'[t] = socket[t]
    <3> DEFINE r == [socket[s] EXCEPT !.phase = "up", !.open = TRUE, !.locked = FALSE, !.by = NoCall]
    <3>1. r.phase = "up" /\ ~r.locked
      BY SocketTyped
    <3>2. socket' = [socket EXCEPT ![s] = r]
      BY <1>8 DEF Handshaken
    <3> HIDE DEF r
    <3> QED  BY <3>1, <3>2 DEF ClientTypes
  <2>9. /\ PoolGood(freed)
        /\ IF socket[s].locked
           THEN ~freed.connecting /\ \A d \in Call : freed.rx[d] # "waiting"
           ELSE freed = pool
    <3>1. socket[s].locked <=> \E t \in {s} : socket[t].locked
      OBVIOUS
    <3> QED  BY <3>1, UnlockedFields
  <2>3. /\ PoolGood(after)
        /\ socket[s].locked => after.connecting = FALSE /\ \A d \in Call : after.rx[d] # "waiting"
        /\ ~socket[s].locked => /\ after.connecting = pool.connecting
                                /\ \A d \in Call : after.rx[d] = "waiting" => pool.rx[d] = "waiting"
    <3> HIDE DEF freed
    <3>1. PoolGood(Put(pool, s))
      BY PutFields
    <3>2. CASE socket[s].proto = "h2"
      <4>1. after = Connected(Put(pool, s))
        BY <3>2
      <4>2. PoolGood(after) /\ ~after.connecting /\ \A d \in Call : after.rx[d] # "waiting"
        BY <3>1, <4>1, ConnectedFields
      <4> HIDE DEF after
      <4>3. after.connecting \in BOOLEAN
        BY <4>2, PoolFields DEF PoolGood
      <4> QED  BY <2>1, <3>2, <4>2, <4>3
    <3>3. CASE socket[s].proto # "h2"
      <4>1. after = Put(freed, s) \/ after = freed
        BY <3>3
      <4> HIDE DEF after
      <4>2. PoolGood(Put(freed, s)) /\ Served(freed, Put(freed, s), s)
        BY <2>9, PutFields
      <4>3. /\ PoolGood(after) /\ after.connecting = freed.connecting
            /\ \A d \in Call : after.rx[d] = "waiting" => freed.rx[d] = "waiting"
        BY <2>9, <4>1, <4>2, NamesApart DEF Served
      <4>4. freed.connecting \in BOOLEAN
        BY <2>9, PoolFields DEF PoolGood
      <4> QED  BY <2>9, <4>3, <4>4
    <3> QED  BY <3>2, <3>3
  <2>4. \/ pool' = after /\ call' = call
        \/ c \in Call /\ pool' = Closed(after, c) /\ Holding(c, s, FALSE)
    BY <1>8, SocketTyped DEF Handshaken
  <2> HIDE DEF after, freed
  <2>5. /\ pool'.connecting = after.connecting
        /\ \A d \in Call : pool'.rx[d] = "waiting" => after.rx[d] = "waiting"
        /\ \A d \in Call : call'[d].phase = "waiting" => call[d].phase = "waiting"
    <3>1. CASE pool' = after /\ call' = call
      BY <3>1
    <3>2. CASE c \in Call /\ pool' = Closed(after, c) /\ Holding(c, s, FALSE)
      <4>1. /\ pool'.connecting = after.connecting /\ pool'.rx[c] = "closed"
            /\ \A d \in Call : d # c => pool'.rx[d] = after.rx[d]
        BY <2>3, <3>2, ClosedFields
      <4>2. call'[c].phase = "sending" /\ \A d \in Call : d # c => call'[d] = call[d]
        BY <3>2, HoldingFields
      <4> QED  BY <4>1, <4>2
    <3> QED  BY <2>4, <3>1, <3>2
  <2>6. CASE socket[s].locked
    <3>1. \A t \in Socket : ~socket'[t].locked
      BY <2>1, <2>2, <2>6 DEF LocksHeld
    <3>2. ~pool'.connecting /\ \A d \in Call : pool'.rx[d] # "waiting"
      BY <2>3, <2>5, <2>6
    <3>3. LocksHeld'
      BY <2>1, <2>2, <3>1, <3>2 DEF LocksHeld
    <3> QED  BY <3>2, <3>3 DEF WaitersHaveHope
  <2>7. CASE ~socket[s].locked
    <3>1. pool'.connecting = pool.connecting
      BY <2>1, <2>3, <2>5, <2>7
    <3>2. LocksHeld'
      <4>1. \A t \in Socket : socket'[t].locked <=> socket[t].locked
        BY <2>2, <2>7
      <4> QED  BY <2>1, <2>2, <2>7, <3>1, <4>1 DEF LocksHeld
    <3>3. WaitersHaveHope'
      BY <2>3, <2>5, <2>7, <3>1 DEF WaitersHaveHope
    <3> QED  BY <3>2, <3>3
  <2> QED  BY <2>6, <2>7
<1>9. ASSUME NEW s \in Socket, Return(s)
      PROVE  LocksHeld' /\ WaitersHaveHope'
  <2>1. UNCHANGED <<ver, socket, call>> /\ (pool' = pool \/ pool' = Put(pool, s))
    BY <1>9 DEF Return
  <2>2. Served(pool, Put(pool, s), s)
    BY PutFields
  <2>3. pool'.connecting = pool.connecting
        /\ \A d \in Call : pool'.rx[d] = "waiting" => pool.rx[d] = "waiting"
    BY <2>1, <2>2, NamesApart DEF Served
  <2> QED  BY <2>1, <2>3, LocksSame, HopeKept
<1>10. ASSUME NEW s \in Socket, Freed(s)
       PROVE  LocksHeld' /\ WaitersHaveHope'
  <2>1. UNCHANGED <<ver, pool, call>> /\ socket' = Without({s}) /\ socket[s].phase = "up"
    BY <1>10 DEF Freed
  <2>2. ~\E t \in {s} : socket[t].locked
    BY <2>1 DEF LocksHeld
  <2>3. LocksHeld'
    BY <2>1, <2>2, LocksReleased
  <2> QED  BY <2>1, <2>3, HopeKept
<1>11. ASSUME NEW s \in Socket, Die(s)
       PROVE  LocksHeld' /\ WaitersHaveHope'
  <2>1. UNCHANGED <<ver, pool, call>>
    BY <1>11 DEF Die
  <2>2. \A t \in Socket : /\ socket'[t].locked = socket[t].locked
                          /\ socket'[t].phase = socket[t].phase
                          /\ socket'[t].proto = socket[t].proto
    <3> DEFINE r == [socket[s] EXCEPT !.open = FALSE]
    <3>1. r.locked = socket[s].locked /\ r.phase = socket[s].phase /\ r.proto = socket[s].proto
      BY SocketTyped
    <3>2. socket' = [socket EXCEPT ![s] = r]
      BY <1>11 DEF Die
    <3> HIDE DEF r
    <3> QED  BY <3>1, <3>2 DEF ClientTypes
  <2> QED  BY <2>1, <2>2, LocksSame, HopeKept
<1>12. ASSUME CleanWaiters \/ Age \/ ClearExpired \/ UNCHANGED clientVars
       PROVE  LocksHeld' /\ WaitersHaveHope'
  <2>1. UNCHANGED <<ver, socket, call>>
    BY <1>12 DEF CleanWaiters, Age, ClearExpired, clientVars
  <2>2. pool'.connecting = pool.connecting /\ pool'.rx = pool.rx
    BY <1>12, WaitersCleaned, IdleAged, IdleExpired DEF clientVars
  <2> QED  BY <2>1, <2>2, LocksSame, HopeKept
<1> QED
  BY <1>1, <1>2, <1>3, <1>4, <1>5, <1>6, <1>7, <1>8, <1>9, <1>10, <1>11, <1>12
  DEF ClientNext, CallStep, SocketStep

(* Who holds a connection, after a step as before.                         *)
LEMMA HeldFields ==
  ASSUME PoolGood(pool), NEW s \in Socket
  PROVE  Held(s) <=> \/ s \in returning
                     \/ \E c \in Call : call[c].socket = s \/ pool.rx[c] = s
                     \/ InIdle(pool, s)
<1>1. DOMAIN pool.idle = 1..Len(pool.idle)
  BY PoolFields DEF PoolGood
<1> QED  BY <1>1 DEF Held, InIdle

LEMMA HeldFieldsNext ==
  ASSUME PoolGood(pool'), NEW s \in Socket
  PROVE  Held(s)' <=> \/ s \in returning'
                      \/ \E c \in Call : call'[c].socket = s \/ pool'.rx[c] = s
                      \/ InIdle(pool', s)
<1>1. DOMAIN pool'.idle = 1..Len(pool'.idle)
  BY PoolFields DEF PoolGood
<1> QED  BY <1>1 DEF Held, InIdle

(* A step that gives a connection to nobody.                               *)
Fewer(s) ==
  /\ s \in returning' => s \in returning
  /\ \A c \in Call : call'[c].socket = s => call[c].socket = s
  /\ \A c \in Call : pool'.rx[c] = s => pool.rx[c] = s
  /\ InIdle(pool', s) => InIdle(pool, s)
  /\ OnceInIdle(pool, s) => OnceInIdle(pool', s)

HomeNext(s) ==
  /\ Held(s)' => socket'[s].phase = "up"
  /\ socket'[s].proto = "h1" => OneHome(s)'

LEMMA HomeKept ==
  ASSUME PoolGood(pool), PoolGood(pool'), Homes, NEW s \in Socket, Fewer(s),
         Held(s) => socket'[s].phase = socket[s].phase /\ socket'[s].proto = socket[s].proto
  PROVE  HomeNext(s)
<1>1. Held(s)' => Held(s)
  BY HeldFields, HeldFieldsNext DEF Fewer
<1>2. Held(s)' => socket'[s].phase = "up"
  BY <1>1 DEF Homes
<1>3. ASSUME socket'[s].proto = "h1" PROVE OneHome(s)'
  <2>1. CASE Held(s)
    <3>1. OneHome(s)
      BY <1>3, <2>1 DEF Homes
    <3> QED  BY <3>1 DEF OneHome, Fewer
  <2>2. CASE ~Held(s)
    <3>1. /\ s \notin returning' /\ ~InIdle(pool', s)
          /\ \A c \in Call : call'[c].socket # s /\ pool'.rx[c] # s
      BY <1>1, <2>2, HeldFieldsNext
    <3> QED  BY <3>1 DEF OneHome, InIdle, OnceInIdle
  <2> QED  BY <2>1, <2>2
<1> QED  BY <1>2, <1>3 DEF HomeNext

LEMMA HomesNext ==
  ASSUME \A s \in Socket : HomeNext(s)
  PROVE  Homes'
BY DEF HomeNext, Homes

LEMMA IdleGrown ==
  ASSUME NEW p, NEW q, p \in PoolState, NEW s \in Socket, NEW t \in Socket,
         q.idle = Append(p.idle, [socket |-> s, old |-> FALSE])
  PROVE  /\ t # s => (InIdle(q, t) => InIdle(p, t)) /\ (OnceInIdle(p, t) => OnceInIdle(q, t))
         /\ ~InIdle(p, s) => OnceInIdle(q, s)
<1> DEFINE e == [socket |-> s, old |-> FALSE]
           n == Len(p.idle)
<1>1. p.idle \in Seq(Entry) /\ n \in Nat
  BY PoolFields
<1>2. e \in Entry /\ e.socket = s
  BY DEF Entry
<1>3. q.idle = Append(p.idle, e)
  OBVIOUS
<1> HIDE DEF e
<1>4. /\ Len(q.idle) = n + 1 /\ q.idle[n + 1] = e
      /\ \A i \in 1..n : q.idle[i] = p.idle[i]
  BY <1>1, <1>2, <1>3
<1>5. \A i \in 1..(n + 1) : i \in 1..n \/ i = n + 1
  BY <1>1
<1> HIDE DEF n
<1>6. \A i \in 1..Len(q.idle) : \/ i \in 1..n /\ q.idle[i].socket = p.idle[i].socket
                                \/ i = n + 1 /\ q.idle[i].socket = s
  BY <1>2, <1>4, <1>5
<1>7. t # s => (InIdle(q, t) => InIdle(p, t)) /\ (OnceInIdle(p, t) => OnceInIdle(q, t))
  BY <1>6 DEF InIdle, OnceInIdle, n
<1>8. ~InIdle(p, s) => OnceInIdle(q, s)
  BY <1>6 DEF InIdle, OnceInIdle, n
<1> QED  BY <1>7, <1>8

(* A connection that is put comes to one place, and no other moves.        *)
LEMMA PutHomes ==
  ASSUME NEW p, PoolGood(p), NEW s \in Socket, NEW t \in Socket
  PROVE  /\ t # s => /\ \A c \in Call : Put(p, s).rx[c] = t => p.rx[c] = t
                     /\ InIdle(Put(p, s), t) => InIdle(p, t)
                     /\ OnceInIdle(p, t) => OnceInIdle(Put(p, s), t)
         /\ (/\ socket[s].proto = "h1" /\ ~InIdle(p, s) /\ \A c \in Call : p.rx[c] # s)
            => /\ OnceInIdle(Put(p, s), s)
               /\ \A c \in Call : Put(p, s).rx[c] = s =>
                    /\ ~InIdle(Put(p, s), s)
                    /\ \A d \in Call : Put(p, s).rx[d] = s => d = c
<1> DEFINE q == Put(p, s)
<1>1. PoolGood(q) /\ Served(p, q, s) /\ p \in PoolState
  BY PutFields DEF PoolGood
<1> HIDE DEF q
<1>2. \/ q.idle = p.idle
      \/ q.idle = Append(p.idle, [socket |-> s, old |-> FALSE])
  BY <1>1 DEF Served
<1>3. ASSUME t # s
      PROVE  /\ \A c \in Call : q.rx[c] = t => p.rx[c] = t
             /\ InIdle(q, t) => InIdle(p, t)
             /\ OnceInIdle(p, t) => OnceInIdle(q, t)
  <2>1. \A c \in Call : q.rx[c] = t => p.rx[c] = t
    BY <1>1, <1>3 DEF Served
  <2>2. CASE q.idle = p.idle
    BY <2>1, <2>2 DEF InIdle, OnceInIdle
  <2>3. CASE q.idle = Append(p.idle, [socket |-> s, old |-> FALSE])
    BY <1>1, <1>3, <2>1, <2>3, IdleGrown
  <2> QED  BY <1>2, <2>2, <2>3
<1>4. ASSUME socket[s].proto = "h1", ~InIdle(p, s), \A c \in Call : p.rx[c] # s
      PROVE  /\ OnceInIdle(q, s)
             /\ \A c \in Call : q.rx[c] = s => /\ ~InIdle(q, s)
                                               /\ \A d \in Call : q.rx[d] = s => d = c
  <2>1. \A c, d \in Call : q.rx[c] = s /\ q.rx[d] = s => c = d
    BY <1>1, <1>4 DEF Served
  <2>2. (\E c \in Call : q.rx[c] = s) => q.idle = p.idle
    BY <1>1, <1>4 DEF Served
  <2>3. OnceInIdle(q, s)
    <3>1. CASE q.idle = p.idle
      BY <1>4, <3>1 DEF InIdle, OnceInIdle
    <3>2. CASE q.idle = Append(p.idle, [socket |-> s, old |-> FALSE])
      BY <1>1, <1>4, <3>2, IdleGrown
    <3> QED  BY <1>2, <3>1, <3>2
  <2>4. q.idle = p.idle => ~InIdle(q, s)
    BY <1>4 DEF InIdle
  <2> QED  BY <2>1, <2>2, <2>3, <2>4
<1> QED  BY <1>3, <1>4 DEF q

LEMMA HomesInvariant ==
  ASSUME ClientTypes, PoolGood(pool), PoolGood(pool'), Homes, [ClientNext]_clientVars
  PROVE  Homes'
<1>1. ASSUME NEW c \in Call, CheckOut(c)
      PROVE  Homes'
  <2> DEFINE found == Pop(pool.idle)
  <2>1. UNCHANGED <<socket, returning>>
    BY <1>1 DEF CheckOut
  <2>2. CASE found.socket # NoSocket
    <3>1. pool' = [pool EXCEPT !.idle = found.idle] /\ Holding(c, found.socket, TRUE)
      BY <1>1, <2>2 DEF CheckOut
    <3>2. pool.idle \in Seq(Entry)
      BY PoolFields DEF PoolGood
    <3>3. /\ found.socket \in Socket \cup {NoSocket}
          /\ \E k \in 1..Len(pool.idle) :
               /\ pool.idle[k].socket = found.socket
               /\ \A i \in 1..Len(found.idle) :
                    \/ i < k /\ i \in 1..Len(pool.idle) /\ found.idle[i] = pool.idle[i]
                    \/ /\ found.idle[i].socket = found.socket
                       /\ socket[found.socket].proto = "h2"
      BY <2>2, <3>2, PopFields
    <3>4. pool'.idle = found.idle /\ pool'.rx = pool.rx
      BY <3>1 DEF PoolGood, PoolState
    <3>0. PICK s \in Socket : s = found.socket
      BY <2>2, <3>3
    <3>5. PICK k \in 1..Len(pool.idle) :
            /\ pool.idle[k].socket = s
            /\ \A i \in 1..Len(pool'.idle) :
                 \/ i < k /\ i \in 1..Len(pool.idle) /\ pool'.idle[i] = pool.idle[i]
                 \/ pool'.idle[i].socket = s /\ socket[s].proto = "h2"
      BY <3>3, <3>4, <3>0
    <3>6. s \in Socket /\ Holding(c, s, TRUE)
      BY <3>1, <3>0
    <3> HIDE DEF found
    <3>7. call'[c].socket = s /\ \A d \in Call : d # c => call'[d] = call[d]
      BY <3>6, HoldingFields
    <3>8. InIdle(pool, s)
      BY <3>5 DEF InIdle
    <3>9. ASSUME NEW t \in Socket, t # s PROVE HomeNext(t)
      <4>1. \A i \in 1..Len(pool'.idle) : pool'.idle[i].socket = t =>
              i \in 1..Len(pool.idle) /\ pool.idle[i].socket = t
        BY <3>5, <3>9
      <4>2. Fewer(t)
        BY <2>1, <3>4, <3>7, <3>9, <4>1 DEF Fewer, InIdle, OnceInIdle
      <4> QED  BY <2>1, <4>2, HomeKept
    <3>10. HomeNext(s)
      <4>1. socket'[s].phase = "up"
        BY <2>1, <3>6, <3>8, HeldFields DEF Homes
      <4>2. ASSUME socket'[s].proto = "h1" PROVE OneHome(s)'
        <5>1. OneHome(s) /\ socket[s].proto # "h2"
          BY <2>1, <3>6, <4>2 DEF Homes
        <5>2. ~InIdle(pool', s)
          <6>1. \A i \in 1..Len(pool'.idle) :
                  i < k /\ i \in 1..Len(pool.idle) /\ pool'.idle[i] = pool.idle[i]
            BY <3>5, <5>1
          <6>2. \A i \in 1..Len(pool.idle) : i < k => pool.idle[i].socket # s
            BY <3>5, <5>1 DEF OneHome, OnceInIdle
          <6> QED  BY <6>1, <6>2 DEF InIdle
        <5>3. s \notin returning' /\ \A d \in Call : pool'.rx[d] # s
          BY <2>1, <3>4, <3>8, <5>1 DEF OneHome
        <5>4. \A d \in Call : call'[d].socket = s => d = c
          BY <3>7, <3>8, <5>1 DEF OneHome
        <5>5. OnceInIdle(pool', s)
          BY <5>2 DEF InIdle, OnceInIdle
        <5> QED  BY <5>2, <5>3, <5>4, <5>5 DEF OneHome
      <4> QED  BY <4>1, <4>2 DEF HomeNext
    <3> QED  BY <3>9, <3>10, HomesNext
  <2>3. CASE found.socket = NoSocket
    <3>1. /\ pool' = [pool EXCEPT !.idle = <<>>, !.waiters = Append(@, c), !.rx[c] = "waiting"]
          /\ call' = [call EXCEPT ![c].phase = "connect"]
      BY <1>1, <2>3 DEF CheckOut
    <3>2. /\ pool'.idle = <<>> /\ pool'.rx[c] = "waiting"
          /\ \A d \in Call : d # c => pool'.rx[d] = pool.rx[d]
      BY <3>1, WaiterAdded
    <3>3. call'[c].socket = call[c].socket /\ \A d \in Call : d # c => call'[d] = call[d]
      BY <3>1, PhaseFields
    <3>4. ASSUME NEW t \in Socket PROVE HomeNext(t)
      <4>1. \A d \in Call : call'[d].socket = call[d].socket
        BY <3>3
      <4>2. \A d \in Call : pool'.rx[d] = t => pool.rx[d] = t
        BY <3>2, NamesApart
      <4>3. ~InIdle(pool', t) /\ OnceInIdle(pool', t)
        BY <3>2 DEF InIdle, OnceInIdle
      <4>4. Fewer(t)
        BY <2>1, <4>1, <4>2, <4>3 DEF Fewer
      <4> QED  BY <2>1, <4>4, HomeKept
    <3> QED  BY <3>4, HomesNext
  <2> QED  BY <2>2, <2>3
<1>2. ASSUME NEW c \in Call, StartConnect(c)
      PROVE  Homes'
  <2>1. /\ returning' = returning
        /\ pool'.idle = pool.idle /\ pool'.rx = pool.rx
    <3> DEFINE b == pool.connecting \/ ver = "h2"
    <3>1. UNCHANGED pool \/ (pool' = [pool EXCEPT !.connecting = b] /\ b \in BOOLEAN)
      BY <1>2 DEF StartConnect
    <3>2. returning' = returning
      BY <1>2 DEF StartConnect
    <3> HIDE DEF b
    <3> QED  BY <3>1, <3>2, ConnectingReplaced
  <2>2. \A d \in Call : call'[d].socket = call[d].socket
    <3>1. \/ call' = [call EXCEPT ![c].phase = "waiting"]
          \/ call' = [call EXCEPT ![c].phase = "racing"]
      BY <1>2 DEF StartConnect
    <3>2. call'[c].socket = call[c].socket /\ \A d \in Call : d # c => call'[d] = call[d]
      BY <3>1, PhaseFields
    <3> QED  BY <3>2
  <2>3. \A t \in Socket : socket'[t] = socket[t] \/ socket[t].phase = "unused"
    BY <1>2 DEF StartConnect, ClientTypes
  <2>4. ASSUME NEW t \in Socket PROVE HomeNext(t)
    <3>1. Fewer(t)
      BY <2>1, <2>2 DEF Fewer, InIdle, OnceInIdle
    <3>2. Held(t) => socket'[t] = socket[t]
      BY <2>3 DEF Homes
    <3> QED  BY <3>1, <3>2, HomeKept
  <2> QED  BY <2>4, HomesNext
<1>3. ASSUME NEW c \in Call, CheckedOut(c)
      PROVE  Homes'
  <2>0. PICK s \in Socket : s = pool.rx[c]
    BY <1>3 DEF CheckedOut
  <2>1. /\ returning' = returning /\ pool' = Closed(pool, c)
        /\ pool'.idle = pool.idle /\ pool'.rx[c] = "closed"
        /\ \A d \in Call : d # c => pool'.rx[d] = pool.rx[d]
    BY <1>3, ClosedFields DEF CheckedOut, Withdrawn
  <2>2. \A x \in Socket : socket'[x].phase = socket[x].phase /\ socket'[x].proto = socket[x].proto
    <3>1. \/ UNCHANGED socket
          \/ socket' = [x \in Socket |-> IF x \in Mine(c) THEN [socket[x] EXCEPT !.by = NoCall]
                                         ELSE socket[x]]
      BY <1>3 DEF CheckedOut
    <3> SUFFICES ASSUME NEW x \in Socket
                 PROVE  socket'[x].phase = socket[x].phase /\ socket'[x].proto = socket[x].proto
      OBVIOUS
    <3> DEFINE r == [socket[x] EXCEPT !.by = NoCall]
    <3>2. r.phase = socket[x].phase /\ r.proto = socket[x].proto
      BY SocketTyped
    <3>3. socket'[x] = socket[x] \/ socket'[x] = r
      BY <3>1
    <3> HIDE DEF r
    <3> QED  BY <3>2, <3>3
  <2>3. \A t \in Socket : /\ InIdle(pool', t) <=> InIdle(pool, t)
                          /\ OnceInIdle(pool, t) <=> OnceInIdle(pool', t)
    BY <2>1 DEF InIdle, OnceInIdle
  <2>4. \A d \in Call, t \in Socket : pool'.rx[d] = t => d # c /\ pool.rx[d] = t
    BY <2>1, NamesApart
  <2>5. CASE \/ End(c, "failed") \/ call' = [call EXCEPT ![c].phase = "connecting"]
    <3>1. \A d \in Call, t \in Socket : call'[d].socket = t => call[d].socket = t
      <4>1. CASE End(c, "failed")
        BY <4>1, EndFields, NamesApart
      <4>2. CASE call' = [call EXCEPT ![c].phase = "connecting"]
        BY <4>2, PhaseFields
      <4> QED  BY <2>5, <4>1, <4>2
    <3>2. ASSUME NEW t \in Socket PROVE HomeNext(t)
      <4>1. Fewer(t)
        BY <2>1, <2>3, <2>4, <3>1 DEF Fewer
      <4> QED  BY <2>2, <4>1, HomeKept
    <3> QED  BY <3>2, HomesNext
  <2>6. CASE Holding(c, s, TRUE)
    <3>1. call'[c].socket = s /\ \A d \in Call : d # c => call'[d] = call[d]
      BY <2>6, HoldingFields
    <3>2. ASSUME NEW t \in Socket, t # s PROVE HomeNext(t)
      <4>1. \A d \in Call : call'[d].socket = t => call[d].socket = t
        BY <3>1, <3>2
      <4>2. Fewer(t)
        BY <2>1, <2>3, <2>4, <4>1 DEF Fewer
      <4> QED  BY <2>2, <4>2, HomeKept
    <3>3. HomeNext(s)
      <4>1. socket'[s].phase = "up"
        BY <2>2, <2>0, HeldFields DEF Homes
      <4>2. ASSUME socket'[s].proto = "h1" PROVE OneHome(s)'
        <5>1. OneHome(s)
          BY <2>2, <4>2 DEF Homes
        <5>2. s \notin returning' /\ ~InIdle(pool', s) /\ OnceInIdle(pool', s)
          BY <2>1, <2>3, <2>0, <5>1 DEF OneHome
        <5>3. \A d \in Call : pool'.rx[d] # s
          BY <2>4, <2>0, <5>1 DEF OneHome
        <5>4. \A d \in Call : call'[d].socket = s => d = c
          BY <2>0, <3>1, <5>1 DEF OneHome
        <5> QED  BY <5>2, <5>3, <5>4 DEF OneHome
      <4> QED  BY <4>1, <4>2 DEF HomeNext
    <3> QED  BY <2>1, <3>2, <3>3, HomesNext
  <2> QED  BY <1>3, <2>5, <2>6, <2>0 DEF CheckedOut
<1>4. ASSUME NEW c \in Call, CheckoutDropped(c) \/ Cancel(c)
      PROVE  Homes'
  <2> DEFINE freed == Unlocked(pool, Mine(c))
  <2>1. /\ pool' = Closed(freed, c) /\ socket' = Without(Mine(c)) /\ returning' = returning
        /\ End(c, "failed") \/ End(c, "cancelled")
    BY <1>4 DEF CheckoutDropped, Cancel
  <2>2. PoolGood(freed) /\ Withdrawn(pool, freed)
    BY UnlockedFields
  <2>3. Withdrawn(pool, pool')
    BY <2>1, <2>2, ClosedFields, WithdrawnTwice
  <2>4. \A d \in Call, t \in Socket : call'[d].socket = t => call[d].socket = t
    BY <2>1, EndFields, NamesApart
  <2>5. ASSUME NEW t \in Socket PROVE HomeNext(t)
    <3>1. Fewer(t)
      BY <2>1, <2>3, <2>4, NamesApart DEF Fewer, Withdrawn, InIdle, OnceInIdle
    <3>2. Held(t) => t \notin Mine(c)
      BY DEF Homes, Mine
    <3>3. t \notin Mine(c) => socket'[t] = socket[t]
      BY <2>1, WithoutFields
    <3> QED  BY <3>1, <3>2, <3>3, HomeKept
  <2> QED  BY <2>5, HomesNext
<1>5. ASSUME NEW c \in Call, Sent(c)
      PROVE  Homes'
  <2>0. PICK s \in Socket : s = call[c].socket
    BY <1>5, CallTyped DEF Sent
  <2>1. UNCHANGED <<pool, socket>>
    BY <1>5 DEF Sent
  <2>2. /\ call'[c].socket = NoSocket /\ \A d \in Call : d # c => call'[d] = call[d]
    <3>1. \E how \in {"done", "new", "failed"} : End(c, how)
      BY <1>5 DEF Sent
    <3> QED  BY <3>1, EndFields
  <2>3. \A d \in Call, t \in Socket : call'[d].socket = t => d # c /\ call[d].socket = t
    BY <2>2, NamesApart
  <2>4. returning' = returning \/ (returning' = returning \cup {s} /\ socket[s].proto = "h1")
    BY <1>5, <2>0 DEF Sent
  <2>5. ASSUME NEW t \in Socket, t # s \/ returning' = returning PROVE HomeNext(t)
    <3>1. Fewer(t)
      BY <2>1, <2>3, <2>4, <2>5 DEF Fewer
    <3> QED  BY <2>1, <3>1, HomeKept
  <2>6. ASSUME returning' = returning \cup {s}, socket[s].proto = "h1" PROVE HomeNext(s)
    <3>1. OneHome(s) /\ socket[s].phase = "up"
      BY <2>6, <2>0, HeldFields DEF Homes
    <3>2. /\ \A d \in Call : call'[d].socket # s /\ pool'.rx[d] # s
          /\ ~InIdle(pool', s) /\ OnceInIdle(pool', s)
      BY <2>1, <2>3, <2>0, <3>1 DEF OneHome
    <3>3. OneHome(s)'
      BY <3>2 DEF OneHome
    <3> QED  BY <2>1, <3>1, <3>3 DEF HomeNext
  <2> QED  BY <2>4, <2>5, <2>6, HomesNext
<1>6. ASSUME NEW s \in Socket, Dialled(s)
      PROVE  Homes'
  <2> DEFINE c == socket[s].by
  <2>1. returning' = returning /\ socket[s].phase = "dialing"
    BY <1>6 DEF Dialled
  <2>2. pool'.idle = pool.idle /\ pool'.rx = pool.rx
    <3>1. UNCHANGED pool \/ pool' = [pool EXCEPT !.connecting = TRUE]
      BY <1>6 DEF Dialled
    <3> QED  BY <3>1, ConnectingReplaced
  <2>3. \A d \in Call : call'[d].socket = call[d].socket
    <3>1. \/ call' = call
          \/ c \in Call /\ call' = [call EXCEPT ![c].phase = "waiting"]
          \/ c \in Call /\ call' = [call EXCEPT ![c].phase = "failed"]
      <4>1. \/ call' = call
            \/ call' = IF c = NoCall THEN call
                       ELSE [call EXCEPT ![c].phase = IF @ = "racing" THEN "waiting" ELSE "failed"]
        BY <1>6 DEF Dialled
      <4> QED  BY <4>1, SocketTyped
    <3>2. CASE call' = call
      BY <3>2
    <3>3. CASE c \in Call /\ (\/ call' = [call EXCEPT ![c].phase = "waiting"]
                             \/ call' = [call EXCEPT ![c].phase = "failed"])
      <4>1. call'[c].socket = call[c].socket /\ \A d \in Call : d # c => call'[d] = call[d]
        BY <3>3, PhaseFields
      <4> QED  BY <4>1
    <3> QED  BY <3>1, <3>2, <3>3
  <2>4. \A t \in Socket : t # s => socket'[t] = socket[t]
    BY <1>6 DEF Dialled, Without, ClientTypes
  <2>5. ASSUME NEW t \in Socket PROVE HomeNext(t)
    <3>1. Fewer(t)
      BY <2>1, <2>2, <2>3 DEF Fewer, InIdle, OnceInIdle
    <3>2. Held(t) => socket'[t] = socket[t]
      BY <2>1, <2>4 DEF Homes
    <3> QED  BY <3>1, <3>2, HomeKept
  <2> QED  BY <2>5, HomesNext
<1>7. ASSUME NEW s \in Socket, ConnectFailed(s)
      PROVE  Homes'
  <2> DEFINE freed == Unlocked(pool, {s})
             c == socket[s].by
  <2>1. /\ returning' = returning /\ socket' = Without({s})
        /\ socket[s].phase \in {"dialing", "handshake"}
    BY <1>7 DEF ConnectFailed
  <2>2. PoolGood(freed) /\ Withdrawn(pool, freed)
    BY UnlockedFields
  <2>3. \/ pool' = freed /\ call' = call
        \/ c \in Call /\ pool' = Closed(freed, c) /\ End(c, "failed")
    BY <1>7, SocketTyped DEF ConnectFailed
  <2> HIDE DEF freed
  <2>4. Withdrawn(pool, pool')
    BY <2>2, <2>3, ClosedFields, WithdrawnTwice
  <2>5. \A d \in Call, t \in Socket : call'[d].socket = t => call[d].socket = t
    BY <2>3, EndFields, NamesApart
  <2>6. ASSUME NEW t \in Socket PROVE HomeNext(t)
    <3>1. Fewer(t)
      BY <2>1, <2>4, <2>5, NamesApart DEF Fewer, Withdrawn, InIdle, OnceInIdle
    <3>2. Held(t) => t \notin {s}
      BY <2>1 DEF Homes
    <3>3. t \notin {s} => socket'[t] = socket[t]
      BY <2>1, WithoutFields
    <3> QED  BY <3>1, <3>2, <3>3, HomeKept
  <2> QED  BY <2>6, HomesNext
<1>8. ASSUME NEW s \in Socket, Handshaken(s)
      PROVE  Homes'
  <2> DEFINE freed == Unlocked(pool, {s})
             after == IF socket[s].proto = "h2" THEN Connected(Put(pool, s))
                      ELSE IF socket[s].by = NoCall THEN Put(freed, s) ELSE freed
  <2>1. returning' = returning /\ socket[s].phase = "handshake"
    BY <1>8 DEF Handshaken
  <2>2. /\ socket'[s].phase = "up" /\ socket'[s].proto = socket[s].proto
        /\ \A t \in Socket : t # s => socket'[t] = socket[t]
    <3> DEFINE r == [socket[s] EXCEPT !.phase = "up", !.open = TRUE, !.locked = FALSE, !.by = NoCall]
    <3>1. r.phase = "up" /\ r.proto = socket[s].proto
      BY SocketTyped
    <3>2. socket' = [socket EXCEPT ![s] = r]
      BY <1>8 DEF Handshaken
    <3> HIDE DEF r
    <3> QED  BY <3>1, <3>2 DEF ClientTypes
  <2>3. /\ s \notin returning /\ ~InIdle(pool, s)
        /\ \A d \in Call : call[d].socket # s /\ pool.rx[d] # s
    BY <2>1, HeldFields DEF Homes
  <2>4. /\ PoolGood(Put(pool, s)) /\ PoolGood(freed) /\ Withdrawn(pool, freed)
        /\ PoolGood(Put(freed, s)) /\ PoolGood(after)
    <3>1. PoolGood(freed) /\ Withdrawn(pool, freed)
      BY UnlockedFields
    <3> HIDE DEF freed
    <3> QED  BY <3>1, PutFields, ConnectedFields
  <2>13. ASSUME NEW t \in Socket
         PROVE  /\ \A d \in Call : freed.rx[d] = t => pool.rx[d] = t
                /\ InIdle(freed, t) => InIdle(pool, t)
                /\ OnceInIdle(pool, t) => OnceInIdle(freed, t)
    <3> HIDE DEF freed
    <3> QED  BY <2>4, NamesApart DEF Withdrawn, InIdle, OnceInIdle
  <2>5. ASSUME NEW t \in Socket, t # s
        PROVE  /\ \A d \in Call : after.rx[d] = t => pool.rx[d] = t
               /\ InIdle(after, t) => InIdle(pool, t)
               /\ OnceInIdle(pool, t) => OnceInIdle(after, t)
    <3> DEFINE q == Put(pool, s)
               r == Put(freed, s)
    <3>1. /\ \A d \in Call : q.rx[d] = t => pool.rx[d] = t
          /\ InIdle(q, t) => InIdle(pool, t)
          /\ OnceInIdle(pool, t) => OnceInIdle(q, t)
      BY <2>5, PutHomes
    <3>2. after = freed \/ after = r \/ after = Connected(q)
      OBVIOUS
    <3>3. Withdrawn(q, Connected(q))
      BY <2>4, ConnectedFields
    <3> HIDE DEF after, q, freed
    <3>4. CASE after = Connected(q)
      BY <3>1, <3>3, <3>4, NamesApart DEF Withdrawn, InIdle, OnceInIdle
    <3>5. /\ \A d \in Call : r.rx[d] = t => freed.rx[d] = t
          /\ InIdle(r, t) => InIdle(freed, t)
          /\ OnceInIdle(freed, t) => OnceInIdle(r, t)
      BY <2>4, <2>5, PutHomes
    <3> HIDE DEF r
    <3>6. CASE after = r
      BY <2>13, <3>5, <3>6
    <3>7. CASE after = freed
      BY <2>13, <3>7
    <3> QED  BY <3>2, <3>4, <3>6, <3>7
  <2>6. PICK c \in Call \cup {NoCall} : c = socket[s].by
    BY SocketTyped
  <2>7. \/ c = NoCall /\ pool' = after /\ call' = call
        \/ c \in Call /\ pool' = Closed(after, c) /\ Holding(c, s, FALSE)
    BY <1>8, <2>6, NamesApart DEF Handshaken
  <2>8. socket[s].proto = "h1" =>
          \/ c = NoCall /\ after = Put(freed, s)
          \/ c \in Call /\ after = freed
    BY <2>6, NamesApart
  <2> HIDE DEF after, freed
  <2>9. /\ pool'.idle = after.idle
        /\ \A d \in Call : pool'.rx[d] = after.rx[d] \/ pool'.rx[d] \in {"closed", "dropped"}
    <3>1. CASE pool' = after
      BY <3>1
    <3>2. CASE c \in Call /\ pool' = Closed(after, c)
      BY <2>4, <3>2, ClosedFields DEF Withdrawn
    <3> QED  BY <2>7, <3>1, <3>2
  <2>10. ASSUME NEW t \in Socket, t # s PROVE HomeNext(t)
    <3>1. \A d \in Call : call'[d].socket = t => call[d].socket = t
      BY <2>7, <2>10, HoldingFields
    <3>2. \A d \in Call : pool'.rx[d] = t => pool.rx[d] = t
      BY <2>5, <2>9, <2>10, NamesApart
    <3>3. /\ InIdle(pool', t) => InIdle(pool, t)
          /\ OnceInIdle(pool, t) => OnceInIdle(pool', t)
      BY <2>5, <2>9, <2>10 DEF InIdle, OnceInIdle
    <3>4. Fewer(t)
      BY <2>1, <3>1, <3>2, <3>3 DEF Fewer
    <3> QED  BY <2>2, <2>10, <3>4, HomeKept
  <2>11. ASSUME socket[s].proto = "h1" PROVE OneHome(s)'
    <3>1. CASE c = NoCall /\ pool' = after /\ call' = call
      <4>1. pool' = Put(freed, s)
        BY <2>8, <2>11, <3>1, NamesApart
      <4>2. /\ OnceInIdle(pool', s)
            /\ \A d \in Call : pool'.rx[d] = s =>
                 ~InIdle(pool', s) /\ \A e \in Call : pool'.rx[e] = s => e = d
        BY <2>3, <2>4, <2>11, <2>13, <4>1, PutHomes
      <4> QED  BY <2>1, <2>3, <3>1, <4>2 DEF OneHome
    <3>2. CASE c \in Call /\ pool' = Closed(after, c) /\ Holding(c, s, FALSE)
      <4>1. after = freed
        BY <2>8, <2>11, <3>2, NamesApart
      <4>2. ~InIdle(pool', s) /\ OnceInIdle(pool', s) /\ \A d \in Call : pool'.rx[d] # s
        <5>1. ~InIdle(freed, s) /\ \A d \in Call : freed.rx[d] # s
          BY <2>3, <2>13
        <5> QED  BY <2>9, <4>1, <5>1, NamesApart DEF InIdle, OnceInIdle
      <4>3. \A d \in Call : call'[d].socket = s => d = c
        BY <2>3, <3>2, HoldingFields
      <4> QED  BY <2>1, <2>3, <4>2, <4>3 DEF OneHome
    <3> QED  BY <2>7, <3>1, <3>2
  <2>12. HomeNext(s)
    BY <2>2, <2>11 DEF HomeNext
  <2> QED  BY <2>10, <2>12, HomesNext
<1>9. ASSUME NEW s \in Socket, Return(s)
      PROVE  Homes'
  <2>1. UNCHANGED <<socket, call>> /\ s \in returning /\ returning' = returning \ {s}
    BY <1>9 DEF Return
  <2>2. pool' = pool \/ pool' = Put(pool, s)
    BY <1>9 DEF Return
  <2>3. ASSUME NEW t \in Socket, t # s \/ pool' = pool PROVE HomeNext(t)
    <3>1. /\ \A d \in Call : pool'.rx[d] = t => pool.rx[d] = t
          /\ InIdle(pool', t) => InIdle(pool, t)
          /\ OnceInIdle(pool, t) => OnceInIdle(pool', t)
      <4>1. CASE pool' = pool
        BY <4>1
      <4>2. CASE pool' = Put(pool, s) /\ t # s
        BY <4>2, PutHomes
      <4> QED  BY <2>2, <2>3, <4>1, <4>2
    <3>2. Fewer(t)
      BY <2>1, <3>1 DEF Fewer
    <3> QED  BY <2>1, <3>2, HomeKept
  <2>4. ASSUME pool' = Put(pool, s) PROVE HomeNext(s)
    <3>1. socket[s].phase = "up"
      BY <2>1, HeldFields DEF Homes
    <3>2. ASSUME socket[s].proto = "h1" PROVE OneHome(s)'
      <4>1. /\ ~InIdle(pool, s)
            /\ \A d \in Call : call[d].socket # s /\ pool.rx[d] # s
        BY <2>1, <3>2 DEF Homes, OneHome
      <4>2. /\ OnceInIdle(pool', s)
            /\ \A d \in Call : pool'.rx[d] = s =>
                 ~InIdle(pool', s) /\ \A e \in Call : pool'.rx[e] = s => e = d
        BY <2>4, <3>2, <4>1, PutHomes
      <4> QED  BY <2>1, <4>1, <4>2 DEF OneHome
    <3> QED  BY <2>1, <3>1, <3>2 DEF HomeNext
  <2> QED  BY <2>2, <2>3, <2>4, HomesNext
<1>10. ASSUME NEW s \in Socket, Freed(s) \/ Die(s)
       PROVE  Homes'
  <2>1. UNCHANGED <<pool, call, returning>>
    BY <1>10 DEF Freed, Die
  <2>2. ASSUME NEW t \in Socket, Held(t)
        PROVE  socket'[t].phase = socket[t].phase /\ socket'[t].proto = socket[t].proto
    <3>1. CASE Freed(s)
      BY <2>2, <3>1, WithoutFields DEF Freed
    <3>2. CASE Die(s)
      <4> DEFINE r == [socket[s] EXCEPT !.open = FALSE]
      <4>1. r.phase = socket[s].phase /\ r.proto = socket[s].proto
        BY SocketTyped
      <4>2. socket' = [socket EXCEPT ![s] = r]
        BY <3>2 DEF Die
      <4> HIDE DEF r
      <4> QED  BY <4>1, <4>2 DEF ClientTypes
    <3> QED  BY <1>10, <3>1, <3>2
  <2>3. ASSUME NEW t \in Socket PROVE HomeNext(t)
    <3>1. Fewer(t)
      BY <2>1 DEF Fewer
    <3> QED  BY <2>2, <3>1, HomeKept
  <2> QED  BY <2>3, HomesNext
<1>11. ASSUME CleanWaiters \/ Age \/ ClearExpired \/ UNCHANGED clientVars
       PROVE  Homes'
  <2>1. UNCHANGED <<socket, call, returning>>
    BY <1>11 DEF CleanWaiters, Age, ClearExpired, clientVars
  <2>2. pool'.rx = pool.rx
    BY <1>11, WaitersCleaned, IdleAged, IdleExpired DEF clientVars
  <2>3. ASSUME NEW t \in Socket
        PROVE  (InIdle(pool', t) => InIdle(pool, t)) /\ (OnceInIdle(pool, t) => OnceInIdle(pool', t))
    <3>1. CASE pool'.idle = pool.idle
      BY <3>1 DEF InIdle, OnceInIdle
    <3>2. CASE Age
      <4>1. /\ Len(pool'.idle) = Len(pool.idle)
            /\ \A i \in 1..Len(pool.idle) : pool'.idle[i].socket = pool.idle[i].socket
        BY <3>2, IdleAged
      <4> QED  BY <4>1 DEF InIdle, OnceInIdle
    <3>3. CASE ClearExpired
      <4>1. PICK at \in [1..Len(pool'.idle) -> 1..Len(pool.idle)] :
              /\ \A k \in 1..Len(pool'.idle) : pool'.idle[k] = pool.idle[at[k]]
              /\ \A k, l \in 1..Len(pool'.idle) : at[k] = at[l] => k = l
        BY <3>3, IdleExpired
      <4>2. \A k \in 1..Len(pool'.idle) :
              at[k] \in 1..Len(pool.idle) /\ pool'.idle[k].socket = pool.idle[at[k]].socket
        BY <4>1
      <4>3. InIdle(pool', t) => InIdle(pool, t)
        BY <4>2 DEF InIdle
      <4>4. OnceInIdle(pool, t) => OnceInIdle(pool', t)
        BY SMTT(60), <4>1, <4>2 DEF OnceInIdle
      <4> QED  BY <4>3, <4>4
    <3>4. CleanWaiters \/ UNCHANGED clientVars => pool'.idle = pool.idle
      BY WaitersCleaned DEF clientVars
    <3> QED  BY <1>11, <3>1, <3>2, <3>3, <3>4
  <2>4. ASSUME NEW t \in Socket PROVE HomeNext(t)
    <3>1. Fewer(t)
      BY <2>1, <2>2, <2>3 DEF Fewer
    <3> QED  BY <2>1, <3>1, HomeKept
  <2> QED  BY <2>4, HomesNext
<1> QED
  BY <1>1, <1>2, <1>3, <1>4, <1>5, <1>6, <1>7, <1>8, <1>9, <1>10, <1>11
  DEF ClientNext, CallStep, SocketStep

LEMMA ClientInitially == ClientInit => ClientInvariant
<1> SUFFICES ASSUME ClientInit PROVE ClientInvariant
  OBVIOUS
<1>1. pool = [connecting |-> FALSE, idle |-> <<>>, waiters |-> <<>>, rx |-> [c \in Call |-> "closed"]]
  BY DEF ClientInit
<1>2. pool.connecting = FALSE /\ pool.idle = <<>> /\ pool.waiters = <<>>
      /\ pool.rx = [c \in Call |-> "closed"]
  BY <1>1
<1>3. pool \in PoolState
  <2>1. <<>> \in Seq(Entry) /\ <<>> \in Seq(Call)
    OBVIOUS
  <2> QED  BY <1>1, <2>1 DEF PoolState
<1>4. \A c \in Call : pool.rx[c] = "closed"
  BY <1>2
<1>5. PoolGood(pool)
  BY <1>2, <1>3, <1>4, NamesApart DEF PoolGood, Listed, Quiet
<1>6. ClientTypes
  <2>1. [phase |-> "new", socket |-> NoSocket, reused |-> FALSE] \in CallState
    BY DEF CallState, CallRecord
  <2> QED  BY <2>1, UnusedTyped DEF ClientInit, ClientTypes
<1>7. \A s \in Socket : socket[s].phase = "unused" /\ ~socket[s].locked
  BY DEF ClientInit, Unused
<1>8. LocksHeld
  BY <1>2, <1>7 DEF LocksHeld
<1>9. WaitersHaveHope
  BY <1>4 DEF WaitersHaveHope
<1>10. \A s \in Socket : socket[s].proto = "none"
  BY DEF ClientInit, Unused
<1>11. ASSUME NEW s \in Socket PROVE ~Held(s)
  <2>1. \A c \in Call : call[c].socket = NoSocket
    BY DEF ClientInit
  <2>2. s \notin returning
    BY DEF ClientInit
  <2>3. ~InIdle(pool, s)
    BY <1>2 DEF InIdle
  <2> QED  BY <1>4, <1>5, <2>1, <2>2, <2>3, HeldFields, NamesApart
<1>12. Homes
  BY <1>10, <1>11 DEF Homes
<1> QED  BY <1>5, <1>6, <1>8, <1>9, <1>12 DEF ClientInvariant

LEMMA ClientStep == ClientInvariant /\ [ClientNext]_clientVars => ClientInvariant'
<1> SUFFICES ASSUME ClientInvariant, [ClientNext]_clientVars PROVE ClientInvariant'
  OBVIOUS
<1>1. ClientTypes'
  BY ClientTypesInvariant DEF ClientInvariant
<1>2. PoolGood(pool')
  BY PoolGoodInvariant DEF ClientInvariant
<1>3. LocksHeld' /\ WaitersHaveHope'
  BY LocksInvariant DEF ClientInvariant
<1>4. Homes'
  BY <1>2, HomesInvariant DEF ClientInvariant
<1>5. PoolGood(pool)'
  BY <1>2 DEF PoolGood, PoolState, Entry, Listed, Quiet
<1> QED  BY <1>1, <1>3, <1>4, <1>5 DEF ClientInvariant

LEMMA ClientStaysGood == ClientSpec => []ClientInvariant
<1>1. ClientInit => ClientInvariant
  BY ClientInitially
<1>2. ClientInvariant /\ [ClientNext]_clientVars => ClientInvariant'
  BY ClientStep
<1> QED  BY <1>1, <1>2, PTL DEF ClientSpec

LEMMA AtMostOne ==
  ASSUME NEW S, \A x, y \in S : x = y
  PROVE  /\ Cardinality(S) = IF S = {} THEN 0 ELSE 1
         /\ Cardinality(S) \in {0, 1}
<1>1. CASE S = {}
  BY <1>1, FS_EmptySet
<1>2. CASE S # {}
  <2>1. PICK x \in S : TRUE
    BY <1>2
  <2>2. S = {x}
    BY <2>1
  <2> QED  BY <1>2, <2>2, FS_Singleton
<1> QED  BY <1>1, <1>2

LEMMA OneHomeOneHolder ==
  ASSUME PoolGood(pool), NEW s \in Socket, OneHome(s)
  PROVE  Holders(s) <= 1
<1> DEFINE R == IF s \in returning THEN 1 ELSE 0
           C == {c \in Call : call[c].socket = s}
           X == {c \in Call : pool.rx[c] = s}
           I == {i \in DOMAIN pool.idle : pool.idle[i].socket = s}
<1>1. Holders(s) = R + Cardinality(C) + Cardinality(X) + Cardinality(I)
  BY DEF Holders
<1>2. DOMAIN pool.idle = 1..Len(pool.idle)
  BY PoolFields DEF PoolGood
<1>3. \A c, d \in C : c = d
  BY DEF OneHome
<1>4. \A c, d \in X : c = d
  BY DEF OneHome
<1>5. \A i, j \in I : i = j
  BY <1>2 DEF OneHome, OnceInIdle
<1>6. /\ s \in returning => C = {} /\ X = {} /\ I = {}
      /\ C # {} => X = {} /\ I = {}
      /\ X # {} => I = {}
  BY <1>2 DEF OneHome, InIdle
<1>7. R \in {0, 1} /\ (R = 1 => s \in returning)
  OBVIOUS
<1> HIDE DEF R, C, X, I
<1>8. /\ Cardinality(C) = IF C = {} THEN 0 ELSE 1
      /\ Cardinality(X) = IF X = {} THEN 0 ELSE 1
      /\ Cardinality(I) = IF I = {} THEN 0 ELSE 1
  BY <1>3, <1>4, <1>5, AtMostOne
<1> QED  BY <1>1, <1>6, <1>7, <1>8

(* However checkouts race the connections of their own calls, whatever     *)
(* fails, ages or is cancelled: nobody waits while a connection is idle,   *)
(* and a connection that is not shared is never given to two.              *)
THEOREM ClientsStayConsistent == ClientSpec => []ClientConsistent
<1>1. ClientInvariant => ClientConsistent
  <2> SUFFICES ASSUME ClientInvariant PROVE ClientConsistent
    OBVIOUS
  <2>1. ClientTypeOK
    BY DEF ClientInvariant, ClientTypes, PoolGood, PoolState, Entry, SocketState,
           CallState, CallRecord, ClientTypeOK
  <2>2. IdleServesWaiters
    <3> SUFFICES ASSUME pool.idle # <<>> PROVE Live(pool) = {}
      BY DEF IdleServesWaiters
    <3>1. pool \in PoolState /\ \A c \in Call : pool.rx[c] # "waiting"
      BY DEF ClientInvariant, PoolGood, Quiet
    <3>2. \A i \in 1..Len(pool.waiters) : pool.waiters[i] \in Call
      BY <3>1, PoolFields
    <3> QED  BY <3>1, <3>2 DEF Live
  <2>3. OneHolder
    BY OneHomeOneHolder DEF ClientInvariant, Homes, OneHolder
  <2> QED  BY <2>1, <2>2, <2>3 DEF ClientConsistent
<1> QED  BY <1>1, ClientStaysGood, PTL

(* Whatever ends an attempt, the lock of its key goes with it, once; and a *)
(* call that gave way to another's attempt waits only while one is under   *)
(* way.                                                                    *)
THEOREM LocksStayServed == ClientSpec => []LocksServeWaiters
<1>1. ClientInvariant => LocksServeWaiters
  <2> SUFFICES ASSUME ClientInvariant PROVE LocksServeWaiters
    OBVIOUS
  <2> DEFINE L == {s \in Socket : socket[s].locked}
  <2>1. (\A s, t \in L : s = t) /\ (L # {} <=> pool.connecting)
    BY DEF ClientInvariant, LocksHeld
  <2>2. Cardinality(L) = IF L = {} THEN 0 ELSE 1
    <3> HIDE DEF L
    <3> QED  BY <2>1, AtMostOne
  <2>3. LockHasOwner
    <3>1. Cardinality(L) = IF pool.connecting THEN 1 ELSE 0
      <4> HIDE DEF L
      <4> QED  BY <2>1, <2>2
    <3> QED  BY <3>1 DEF LockHasOwner
  <2> QED  BY <2>3 DEF ClientInvariant, LocksServeWaiters
<1> QED  BY <1>1, ClientStaysGood, PTL
=============================================================================
