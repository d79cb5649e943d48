--------------------------- MODULE Gateway_proofs ---------------------------
(***************************************************************************)
(* The gateway's tasks, for any addresses, any number of tasks and any     *)
(* capacity of the event channel; and what a gateway makes of a request:   *)
(* its checks and its policies for any that may be set, the sessions of    *)
(* MCP clients and the names they call for any requests and replicas, and  *)
(* the calls of language models for any policy, provider and conversation. *)
(***************************************************************************)
EXTENDS Gateway, RequestChecks, McpSession, McpDispatch, PolicyMerge, LlmExchange, Integers,
        SequenceTheorems, FiniteSetTheorems, WellFoundedInduction, TLAPS

-----------------------------------------------------------------------------
(* Types                                                                   *)

LEMMA SendType ==
  ASSUME TypeOK, NEW e \in Event, Send(e)
  PROVE  /\ queue' \in Seq(Event) /\ Len(queue') <= Capacity
         /\ lagged' \in BOOLEAN /\ lost' \in BOOLEAN
<1> USE GatewayAssumption DEF TypeOK
<1>1. CASE phase = "new"
  BY <1>1 DEF Send
<1>2. CASE phase # "new" /\ Len(queue) < Capacity
  <2>1. queue' = Append(queue, e) /\ UNCHANGED <<lagged, lost>>
    BY <1>2 DEF Send
  <2> QED  BY <1>2, <2>1
<1>3. CASE phase # "new" /\ ~(Len(queue) < Capacity)
  <2>1. queue' = Append(Tail(queue), e) /\ lagged' = TRUE /\ lost' = TRUE
    BY <1>3 DEF Send
  <2>2. queue # <<>> /\ Tail(queue) \in Seq(Event) /\ Len(Tail(queue)) = Len(queue) - 1
    BY <1>3
  <2> QED  BY <2>1, <2>2
<1> QED  BY <1>1, <1>2, <1>3

LEMMA HandleAddType ==
  ASSUME TypeOK, NEW a \in Address, HandleAdd(a)
  PROVE  active' \in [Address -> TaskId \cup {None}] /\ task' \in [TaskId -> Task]
<1>1. ASSUME NEW i \in TaskId, Spawn(i, a)
      PROVE  active' \in [Address -> TaskId \cup {None}] /\ task' \in [TaskId -> Task]
  BY <1>1 DEF Spawn, TypeOK, Task
<1> QED  BY <1>1 DEF HandleAdd, TypeOK

LEMMA HandleRemoveType ==
  ASSUME TypeOK, NEW a \in Address, HandleRemove(a)
  PROVE  active' \in [Address -> TaskId \cup {None}] /\ task' \in [TaskId -> Task]
<1>1. CASE active[a] = None /\ UNCHANGED <<active, task>>
  BY <1>1 DEF TypeOK
<1>2. CASE active[a] # None
  <2>1. active[a] \in TaskId
    BY <1>2 DEF TypeOK
  <2>2. PICK b \in BOOLEAN : task' = [task EXCEPT ![active[a]].aborted = b]
    BY <1>2 DEF HandleRemove
  <2> QED  BY SMTT(60), <1>2, <2>1, <2>2 DEF HandleRemove, TypeOK, Task
<1> QED  BY <1>1, <1>2 DEF HandleRemove

LEMMA HeadType ==
  ASSUME TypeOK, queue # <<>>
  PROVE  Head(queue).addr \in Address
<1>1. Head(queue) \in Event
  BY DEF TypeOK
<1> QED  BY <1>1 DEF Event

LEMMA NoTaskType == NoTask \in Task
  BY DEF NoTask, Task

(* The variables hold values of their types, and the channel never holds   *)
(* more events than its capacity.                                          *)
THEOREM TypeCorrect == Spec => []TypeOK
<1>1. Init => TypeOK
  <2> SUFFICES ASSUME Init PROVE TypeOK
    OBVIOUS
  <2>1. queue \in Seq(Event) /\ Len(queue) = 0
    BY DEF Init
  <2>2. Len(queue) <= Capacity
    BY <2>1, GatewayAssumption
  <2>3. task \in [TaskId -> Task]
    BY NoTaskType DEF Init
  <2> QED  BY <2>1, <2>2, <2>3 DEF Init, TypeOK
<1>2. TypeOK /\ [Next]_vars => TypeOK'
  <2> SUFFICES ASSUME TypeOK, [Next]_vars PROVE TypeOK'
    OBVIOUS
  <2> USE GatewayAssumption
  <2>1. ASSUME NEW c \in Config, InsertBind(c[1], c[2]) PROVE TypeOK'
    <3>1. c[1] \in BindKey /\ c[2] \in Address
      OBVIOUS
    <3>2. [kind |-> "Add", addr |-> c[2]] \in Event
      BY <3>1 DEF Event
    <3>3. /\ queue' \in Seq(Event) /\ Len(queue') <= Capacity
          /\ lagged' \in BOOLEAN /\ lost' \in BOOLEAN
      BY <2>1, <3>2, SendType DEF InsertBind
    <3> QED  BY <2>1, <3>1, <3>3 DEF InsertBind, TypeOK, runVars
  <2>2. ASSUME NEW b \in BindKey, RemoveBind(b) PROVE TypeOK'
    <3>1. [kind |-> "Remove", addr |-> store[b]] \in Event
      BY <2>2 DEF RemoveBind, Event, TypeOK
    <3>2. /\ queue' \in Seq(Event) /\ Len(queue') <= Capacity
          /\ lagged' \in BOOLEAN /\ lost' \in BOOLEAN
      BY <2>2, <3>1, SendType DEF RemoveBind
    <3> QED  BY <2>2, <3>2 DEF RemoveBind, TypeOK, runVars
  <2>3. CASE Start
    BY <2>3 DEF Start, Addresses, TypeOK, storeVars
  <2>4. CASE HandleInitial
    <3>1. PICK a \in todo : HandleAdd(a) /\ todo' = todo \ {a}
      BY <2>4 DEF HandleInitial
    <3>2. active' \in [Address -> TaskId \cup {None}] /\ task' \in [TaskId -> Task]
      BY <3>1, HandleAddType DEF TypeOK
    <3> QED  BY <2>4, <3>1, <3>2 DEF HandleInitial, TypeOK, storeVars
  <2>5. CASE HandleEvent
    <3>1. UNCHANGED <<store, lost, todo, phase, drain>>
      BY <2>5 DEF HandleEvent
    <3>2. CASE lagged' = FALSE /\ UNCHANGED <<queue, active, task>>
      BY <3>1, <3>2 DEF TypeOK
    <3>3. CASE /\ queue # <<>> /\ queue' = Tail(queue) /\ lagged' = lagged
               /\ \/ HandleAdd(Head(queue).addr)
                  \/ HandleRemove(Head(queue).addr)
      <4>1. Head(queue).addr \in Address
        BY <3>3, HeadType
      <4>2. active' \in [Address -> TaskId \cup {None}] /\ task' \in [TaskId -> Task]
        BY <3>3, <4>1, HandleAddType, HandleRemoveType
      <4>3. queue' \in Seq(Event) /\ Len(queue') <= Capacity
        BY <3>3 DEF TypeOK
      <4> QED  BY <3>1, <3>3, <4>2, <4>3 DEF TypeOK
    <3> QED  BY <2>5, <3>2, <3>3 DEF HandleEvent
  <2>6. CASE StopListening \/ Return
    BY <2>6 DEF StopListening, Return, TypeOK, storeVars
  <2>7. ASSUME NEW i \in TaskId, OpenSocket(i) \/ Cancelled(i) \/ Drained(i)
        PROVE  TypeOK'
    <3>1. task' \in [TaskId -> Task]
      <4>1. \/ task' = [task EXCEPT ![i] = NoTask]
            \/ task' = [task EXCEPT ![i].open = TRUE]
        BY <2>7 DEF OpenSocket, Cancelled, Drained
      <4>2. CASE task' = [task EXCEPT ![i] = NoTask]
        BY <4>2, NoTaskType DEF TypeOK
      <4>3. CASE task' = [task EXCEPT ![i].open = TRUE]
        BY <4>3 DEF TypeOK, Task
      <4> QED  BY <4>1, <4>2, <4>3
    <3> QED
      BY <2>7, <3>1 DEF OpenSocket, Cancelled, Drained, TypeOK, storeVars, runVars
  <2>8. CASE SignalDrain
    BY <2>8 DEF SignalDrain, TypeOK, storeVars, runVars
  <2>9. CASE Terminated \/ UNCHANGED vars
    BY <2>9 DEF Terminated, TypeOK, vars, storeVars, runVars
  <2> QED
    BY <2>1, <2>2, <2>3, <2>4, <2>5, <2>6, <2>7, <2>8, <2>9 DEF Next
<1> QED
  BY <1>1, <1>2, PTL DEF Spec

-----------------------------------------------------------------------------
(* Tasks                                                                   *)

(* Every task that has not been aborted can still be: the table of handles *)
(* has it at the address it serves.                                        *)
Reachable ==
  \A i \in TaskId :
    task[i].addr # None /\ ~task[i].aborted => active[task[i].addr] = i

LEMMA HandleAddReaches ==
  ASSUME TypeOK, Reachable, NEW a \in Address, HandleAdd(a)
  PROVE  Reachable'
<1>1. CASE UNCHANGED <<active, task>>
  BY <1>1 DEF Reachable
<1>2. ASSUME NEW i \in TaskId, active[a] = None, Spawn(i, a)
      PROVE  Reachable'
  <2> SUFFICES ASSUME NEW j \in TaskId, task'[j].addr # None, ~task'[j].aborted
               PROVE  active'[task'[j].addr] = j
    BY DEF Reachable
  <2>1. CASE j = i
    BY <1>2, <2>1 DEF Spawn, TypeOK, Task
  <2>2. CASE j # i
    <3>1. task'[j] = task[j] /\ active[task[j].addr] = j /\ task[j].addr \in Address
      BY <1>2, <2>2 DEF Spawn, TypeOK, Task, Reachable
    <3>2. task[j].addr # a
      BY <1>2, <3>1, GatewayAssumption
    <3> QED  BY <1>2, <3>1, <3>2 DEF Spawn, TypeOK
  <2> QED  BY <2>1, <2>2
<1> QED  BY <1>1, <1>2 DEF HandleAdd

LEMMA HandleRemoveReaches ==
  ASSUME TypeOK, Reachable, NEW a \in Address, HandleRemove(a)
  PROVE  Reachable'
<1>1. CASE UNCHANGED <<active, task>>
  BY <1>1 DEF Reachable
<1>2. CASE active[a] # None
  <2> DEFINE i == active[a]
  <2>1. /\ i \in TaskId
        /\ active' = [active EXCEPT ![a] = None]
        /\ \A j \in TaskId \ {i} : task'[j] = task[j]
        /\ task'[i].addr = task[i].addr
        /\ task[i] # NoTask => task'[i].aborted
    BY ZenonT(60), <1>2 DEF HandleRemove, TypeOK, Task
  <2> HIDE DEF i
  <2> SUFFICES ASSUME NEW j \in TaskId, task'[j].addr # None, ~task'[j].aborted
               PROVE  active'[task'[j].addr] = j
    BY DEF Reachable
  <2>2. j # i
    BY <2>1 DEF NoTask
  <2>3. task'[j] = task[j] /\ active[task[j].addr] = j /\ task[j].addr \in Address
    BY <2>1, <2>2 DEF Reachable, TypeOK, Task
  <2>4. task[j].addr # a
    BY <2>2, <2>3 DEF i
  <2> QED  BY <2>1, <2>3, <2>4 DEF TypeOK
<1> QED  BY <1>1, <1>2 DEF HandleRemove

LEMMA ReachableInvariant == Spec => []Reachable
<1>1. Init => Reachable
  BY DEF Init, Reachable, NoTask
<1>2. TypeOK /\ Reachable /\ [Next]_vars => Reachable'
  <2> SUFFICES ASSUME TypeOK, Reachable, [Next]_vars PROVE Reachable'
    OBVIOUS
  <2>1. CASE HandleInitial
    BY <2>1, HandleAddReaches DEF HandleInitial, TypeOK
  <2>2. CASE HandleEvent
    <3>1. CASE UNCHANGED <<active, task>>
      BY <3>1 DEF Reachable
    <3>2. CASE /\ queue # <<>>
               /\ HandleAdd(Head(queue).addr) \/ HandleRemove(Head(queue).addr)
      <4>1. Head(queue).addr \in Address
        BY <3>2, HeadType
      <4> QED  BY <3>2, <4>1, HandleAddReaches, HandleRemoveReaches
    <3> QED  BY <2>2, <3>1, <3>2 DEF HandleEvent
  <2>3. ASSUME NEW i \in TaskId, OpenSocket(i) \/ Cancelled(i) \/ Drained(i)
        PROVE  Reachable'
    <3>1. /\ active' = active
          /\ \A j \in TaskId \ {i} : task'[j] = task[j]
          /\ task'[i].addr # None =>
               task'[i].addr = task[i].addr /\ task'[i].aborted = task[i].aborted
      BY <2>3 DEF OpenSocket, Cancelled, Drained, NoTask, runVars, TypeOK, Task
    <3> QED  BY <3>1 DEF Reachable
  <2>4. CASE UNCHANGED <<active, task>>
    BY <2>4 DEF Reachable
  <2> QED
    BY <2>1, <2>2, <2>3, <2>4
    DEF Next, InsertBind, RemoveBind, Start, StopListening, Return, SignalDrain,
        Terminated, vars, runVars
<1> QED
  BY <1>1, <1>2, TypeCorrect, PTL DEF Spec

(* However binds come and go, an address has one task that will stay.      *)
THEOREM TasksAreUnique == Spec => []OneTaskPerAddress
<1>1. Reachable => OneTaskPerAddress
  BY DEF Reachable, OneTaskPerAddress
<1> QED
  BY <1>1, ReachableInvariant, PTL

Gone == phase = "returned" => \A i \in TaskId : task[i] = NoTask

(* The gateway returns only when all its tasks have, and none starts after.*)
THEOREM DrainIsComplete == Spec => []ReturnsDrained
<1>1. Init => Gone
  BY DEF Init, Gone
<1>2. TypeOK /\ Gone /\ [Next]_vars => Gone'
  <2> SUFFICES ASSUME TypeOK, Gone, [Next]_vars PROVE Gone'
    OBVIOUS
  <2>1. ASSUME NEW i \in TaskId, OpenSocket(i) \/ Cancelled(i) \/ Drained(i)
        PROVE  Gone'
    <3>1. phase' = phase /\ task[i] # NoTask
      BY <2>1 DEF OpenSocket, Cancelled, Drained, NoTask, runVars
    <3> QED  BY <3>1 DEF Gone
  <2>2. CASE Return
    BY <2>2 DEF Return, Gone
  <2>3. CASE HandleInitial \/ HandleEvent \/ StopListening \/ Start
    BY <2>3 DEF HandleInitial, HandleEvent, StopListening, Start, Gone
  <2>4. CASE UNCHANGED <<phase, task>>
    BY <2>4 DEF Gone
  <2> QED
    BY <2>1, <2>2, <2>3, <2>4
    DEF Next, InsertBind, RemoveBind, SignalDrain, Terminated, vars, runVars
<1>3. Gone => ReturnsDrained
  BY DEF Gone, ReturnsDrained, NoTask
<1> QED
  BY <1>1, <1>2, <1>3, TypeCorrect, PTL DEF Spec

-----------------------------------------------------------------------------
(* The table and the store                                                 *)

(* What the events on their way make of address a: the last one for it     *)
(* says whether it is configured; without one the table does, or the list  *)
(* of the initial binds.                                                   *)
LastIs(q, a, k) ==
  /\ k \in DOMAIN q /\ q[k].addr = a
  /\ \A j \in DOMAIN q : j > k => q[j].addr # a
NoneFor(q, a) == \A k \in DOMAIN q : q[k].addr # a
Expected(q, a, has) ==
  \/ \E k \in DOMAIN q : LastIs(q, a, k) /\ q[k].kind = "Add"
  \/ NoneFor(q, a) /\ has

LEMMA AppendedEvent ==
  ASSUME NEW q \in Seq(Event), NEW e \in Event, NEW a \in Address, NEW has \in BOOLEAN
  PROVE  /\ e.addr = a => (Expected(Append(q, e), a, has) <=> e.kind = "Add")
         /\ e.addr # a => (Expected(Append(q, e), a, has) <=> Expected(q, a, has))
<1> DEFINE r == Append(q, e)
           n == Len(q)
<1>1. /\ n \in Nat /\ DOMAIN q = 1 .. n /\ DOMAIN r = 1 .. (n + 1)
      /\ r[n + 1] = e /\ \A k \in 1 .. n : r[k] = q[k]
  OBVIOUS
<1> HIDE DEF r, n
<1>2. ASSUME e.addr = a
      PROVE  Expected(r, a, has) <=> e.kind = "Add"
  <2>1. LastIs(r, a, n + 1) /\ ~NoneFor(r, a)
    BY <1>1, <1>2 DEF LastIs, NoneFor
  <2>2. \A k \in DOMAIN r : LastIs(r, a, k) => k = n + 1
    BY <1>1, <1>2 DEF LastIs
  <2> QED  BY <1>1, <2>1, <2>2 DEF Expected
<1>3. ASSUME e.addr # a
      PROVE  Expected(r, a, has) <=> Expected(q, a, has)
  <2>1. NoneFor(r, a) <=> NoneFor(q, a)
    BY <1>1, <1>3 DEF NoneFor
  <2>2. \A k \in DOMAIN r : LastIs(r, a, k) => k \in DOMAIN q /\ LastIs(q, a, k)
    BY <1>1, <1>3 DEF LastIs
  <2>3. \A k \in DOMAIN q : LastIs(q, a, k) => LastIs(r, a, k)
    BY <1>1, <1>3 DEF LastIs
  <2> QED  BY <1>1, <2>1, <2>2, <2>3 DEF Expected
<1> QED  BY <1>2, <1>3 DEF r

LEMMA HandledEvent ==
  ASSUME NEW q \in Seq(Event), q # <<>>, NEW a \in Address,
         NEW has \in BOOLEAN, NEW after \in BOOLEAN,
         after <=> IF Head(q).addr = a THEN Head(q).kind = "Add" ELSE has
  PROVE  Expected(Tail(q), a, after) <=> Expected(q, a, has)
<1> DEFINE t == Tail(q)
           n == Len(t)
<1> SUFFICES Expected(t, a, after) <=> Expected(q, a, has)
  OBVIOUS
<1>1. /\ n \in Nat /\ DOMAIN t = 1 .. n /\ DOMAIN q = 1 .. (n + 1)
      /\ q[1] = Head(q) /\ \A k \in 1 .. n : t[k] = q[k + 1]
  OBVIOUS
<1> HIDE DEF t, n
<1>2. NoneFor(t, a) <=> \A k \in 2 .. (n + 1) : q[k].addr # a
  <2>1. ASSUME NEW k \in 2 .. (n + 1), NoneFor(t, a) PROVE q[k].addr # a
    <3>1. k - 1 \in 1 .. n /\ t[k - 1] = q[k]
      BY <1>1
    <3> QED  BY <1>1, <2>1, <3>1 DEF NoneFor
  <2> QED  BY <1>1, <2>1 DEF NoneFor
<1>3. \A k \in 1 .. n : LastIs(t, a, k) <=> LastIs(q, a, k + 1)
  <2> SUFFICES ASSUME NEW k \in 1 .. n PROVE LastIs(t, a, k) <=> LastIs(q, a, k + 1)
    OBVIOUS
  <2>1. ASSUME LastIs(t, a, k), NEW j \in DOMAIN q, j > k + 1 PROVE q[j].addr # a
    <3>1. j - 1 \in 1 .. n /\ j - 1 > k /\ t[j - 1] = q[j]
      BY <1>1, <2>1
    <3> QED  BY <1>1, <2>1, <3>1 DEF LastIs
  <2> QED  BY SMTT(60), <1>1, <2>1 DEF LastIs
<1>4. CASE NoneFor(t, a)
  <2>1. \A k \in 1 .. n : ~LastIs(t, a, k)
    BY <1>1, <1>4 DEF LastIs, NoneFor
  <2>2. Expected(t, a, after) <=> after
    BY <1>1, <1>4, <2>1 DEF Expected
  <2>3. CASE Head(q).addr = a
    <3>1. LastIs(q, a, 1) /\ ~NoneFor(q, a)
      BY <1>1, <1>2, <1>4, <2>3 DEF LastIs, NoneFor
    <3>2. \A k \in DOMAIN q : LastIs(q, a, k) => k = 1
      BY <1>1, <1>2, <1>4 DEF LastIs
    <3> QED  BY <1>1, <2>2, <2>3, <3>1, <3>2 DEF Expected
  <2>4. CASE Head(q).addr # a
    <3>1. NoneFor(q, a)
      BY <1>1, <1>2, <1>4, <2>4 DEF NoneFor
    <3> QED  BY <2>2, <2>4, <3>1 DEF Expected, LastIs, NoneFor
  <2> QED  BY <2>3, <2>4
<1>5. CASE ~NoneFor(t, a)
  <2>1. ~NoneFor(q, a) /\ ~LastIs(q, a, 1)
    <3>1. PICK k \in 2 .. (n + 1) : q[k].addr = a
      BY <1>2, <1>5
    <3>2. k \in DOMAIN q /\ k > 1
      BY <1>1, <3>1
    <3> QED  BY <3>1, <3>2 DEF NoneFor, LastIs
  <2>2. ASSUME NEW k \in DOMAIN q, LastIs(q, a, k), q[k].kind = "Add"
        PROVE  \E j \in DOMAIN t : LastIs(t, a, j) /\ t[j].kind = "Add"
    <3>1. k - 1 \in 1 .. n /\ (k - 1) + 1 = k
      BY <1>1, <2>1, <2>2
    <3> QED  BY <1>1, <1>3, <2>2, <3>1
  <2>3. ASSUME NEW k \in DOMAIN t, LastIs(t, a, k), t[k].kind = "Add"
        PROVE  \E j \in DOMAIN q : LastIs(q, a, j) /\ q[j].kind = "Add"
    <3>1. k + 1 \in DOMAIN q /\ LastIs(q, a, k + 1) /\ q[k + 1].kind = "Add"
      BY <1>1, <1>3, <2>3
    <3> QED  BY <3>1
  <2> QED  BY <1>5, <2>1, <2>2, <2>3 DEF Expected
<1> QED  BY <1>4, <1>5

Listed(a) == active[a] # None \/ a \in todo

(* Until an event is lost, the events on their way lead from what is       *)
(* listed to the addresses of the store.                                   *)
EventsLeadToStore ==
  phase = "running" /\ ~lost =>
    \A a \in Address : a \in Addresses <=> Expected(queue, a, Listed(a))

OwnStore ==
  /\ \A b \in BindKey : store[b] # None => <<b, store[b]>> \in Config
  /\ phase = "new" => queue = <<>> /\ \A a \in Address : active[a] = None

LEMMA OwnStoreInvariant == Spec => []OwnStore
<1>1. Init => OwnStore
  BY DEF Init, OwnStore
<1>2. TypeOK /\ OwnStore /\ [Next]_vars => OwnStore'
  <2> SUFFICES ASSUME TypeOK, OwnStore, [Next]_vars PROVE OwnStore'
    OBVIOUS
  <2>1. ASSUME NEW c \in Config, InsertBind(c[1], c[2]) PROVE OwnStore'
    <3>1. c = <<c[1], c[2]>> /\ c[1] \in BindKey
      BY GatewayAssumption
    <3> QED  BY <2>1, <3>1 DEF InsertBind, Send, OwnStore, TypeOK, runVars
  <2>2. ASSUME NEW b \in BindKey, RemoveBind(b) PROVE OwnStore'
    BY <2>2 DEF RemoveBind, Send, OwnStore, TypeOK, runVars
  <2>3. CASE Start \/ HandleInitial \/ HandleEvent \/ StopListening \/ Return
    BY <2>3 DEF Start, HandleInitial, HandleEvent, StopListening, Return, OwnStore, storeVars
  <2>4. CASE UNCHANGED <<storeVars, runVars>>
    BY <2>4 DEF OwnStore, storeVars, runVars
  <2> QED
    BY <2>1, <2>2, <2>3, <2>4
    DEF Next, OpenSocket, Cancelled, Drained, SignalDrain, Terminated, vars
<1> QED  BY <1>1, <1>2, TypeCorrect, PTL DEF Spec

(* A bind that comes or goes changes one address of the store.             *)
LEMMA InsertChangesOne ==
  ASSUME TypeOK, OwnStore, OneAddressEach, NEW c \in Config, InsertBind(c[1], c[2])
  PROVE  \A a \in Address : a \in Addresses' <=> a = c[2] \/ a \in Addresses
<1>1. c[1] \in BindKey /\ c[2] \in Address
  BY GatewayAssumption
<1>2. store[c[1]] \in {None, c[2]}
  BY <1>1 DEF OwnStore, OneAddressEach
<1>3. None \notin Address
  BY GatewayAssumption
<1> QED  BY <1>1, <1>2, <1>3 DEF InsertBind, Addresses, TypeOK

LEMMA RemoveChangesOne ==
  ASSUME TypeOK, OwnStore, OneAddressEach, NEW b \in BindKey, RemoveBind(b)
  PROVE  \A a \in Address : a \in Addresses' <=> a # store[b] /\ a \in Addresses
<1>1. \A d \in BindKey : store[d] = store[b] => d = b
  BY DEF OwnStore, OneAddressEach, RemoveBind
<1> QED  BY <1>1 DEF RemoveBind, Addresses, TypeOK

LEMMA SendLeads ==
  ASSUME TypeOK, EventsLeadToStore, NEW e \in Event, Send(e), UNCHANGED runVars,
         \A a \in Address :
           a \in Addresses' <=> IF a = e.addr THEN e.kind = "Add" ELSE a \in Addresses
  PROVE  EventsLeadToStore'
<1> SUFFICES ASSUME phase' = "running", ~lost', NEW a \in Address
             PROVE  a \in Addresses' <=> Expected(queue', a, Listed(a)')
  BY DEF EventsLeadToStore
<1>1. queue' = Append(queue, e) /\ ~lost /\ phase = "running"
  BY DEF Send, runVars
<1>2. Listed(a)' <=> Listed(a)
  BY DEF runVars, Listed
<1>3. queue \in Seq(Event) /\ Listed(a) \in BOOLEAN
  BY DEF TypeOK, Listed
<1>4. a \in Addresses <=> Expected(queue, a, Listed(a))
  BY <1>1 DEF EventsLeadToStore
<1>5. Expected(queue', a, Listed(a)') <=> Expected(queue', a, Listed(a))
  BY <1>2 DEF Expected
<1> QED  BY <1>1, <1>3, <1>4, <1>5, AppendedEvent

LEMMA HandledLeads ==
  ASSUME TypeOK, EventsLeadToStore, HandleEvent
  PROVE  EventsLeadToStore'
<1>1. CASE UNCHANGED <<queue, active, task>>
  BY <1>1 DEF HandleEvent, EventsLeadToStore, Listed, Addresses
<1>2. CASE ~UNCHANGED <<queue, active, task>>
  <2> SUFFICES ASSUME phase' = "running", ~lost', NEW a \in Address
               PROVE  a \in Addresses' <=> Expected(queue', a, Listed(a)')
    BY DEF EventsLeadToStore
  <2>1. /\ queue # <<>> /\ queue' = Tail(queue)
        /\ todo = {} /\ todo' = {} /\ Addresses' = Addresses /\ ~lost /\ phase = "running"
        /\ IF Head(queue).kind = "Add" THEN HandleAdd(Head(queue).addr)
                                       ELSE HandleRemove(Head(queue).addr)
    BY <1>2 DEF HandleEvent, Addresses
  <2>2. queue \in Seq(Event) /\ Listed(a) \in BOOLEAN /\ Listed(a)' \in BOOLEAN
        /\ Head(queue).addr \in Address
    BY <2>1, HeadType DEF TypeOK, Listed
  <2>3. Listed(a)' <=> IF Head(queue).addr = a THEN Head(queue).kind = "Add" ELSE Listed(a)
    BY <2>1, <2>2, GatewayAssumption
    DEF Listed, HandleAdd, HandleRemove, Spawn, TypeOK
  <2>4. Expected(Tail(queue), a, Listed(a)') <=> Expected(queue, a, Listed(a))
    BY <2>1, <2>2, <2>3, HandledEvent
  <2> QED  BY <2>1, <2>4 DEF EventsLeadToStore
<1> QED  BY <1>1, <1>2

(* Where every bind has an address of its own, the addresses with a task   *)
(* are those of the store once the events on their way are handled,        *)
(* whatever comes, goes and comes back meanwhile, unless an event is lost. *)
THEOREM TableFollowsStore ==
  ASSUME OneAddressEach
  PROVE  Spec => []ActiveMatchesStore
<1>1. Init => EventsLeadToStore
  BY DEF Init, EventsLeadToStore
<1>2. TypeOK /\ OwnStore /\ EventsLeadToStore /\ [Next]_vars => EventsLeadToStore'
  <2> SUFFICES ASSUME TypeOK, OwnStore, EventsLeadToStore, [Next]_vars
               PROVE  EventsLeadToStore'
    OBVIOUS
  <2>1. ASSUME NEW c \in Config, InsertBind(c[1], c[2]) PROVE EventsLeadToStore'
    <3>1. [kind |-> "Add", addr |-> c[2]] \in Event
      BY GatewayAssumption DEF Event
    <3> QED  BY <2>1, <3>1, InsertChangesOne, SendLeads DEF InsertBind
  <2>2. ASSUME NEW b \in BindKey, RemoveBind(b) PROVE EventsLeadToStore'
    <3>1. [kind |-> "Remove", addr |-> store[b]] \in Event
      BY <2>2 DEF RemoveBind, Event, TypeOK
    <3> QED  BY <2>2, <3>1, RemoveChangesOne, SendLeads DEF RemoveBind
  <2>3. CASE Start
    BY <2>3 DEF Start, EventsLeadToStore, OwnStore, Listed, Expected, LastIs, NoneFor,
                Addresses, storeVars
  <2>4. CASE HandleInitial
    <3>1. PICK a \in todo : HandleAdd(a) /\ todo' = todo \ {a}
      BY <2>4 DEF HandleInitial
    <3>2. \A x \in Address : Listed(x)' <=> Listed(x)
      BY <3>1, GatewayAssumption DEF HandleAdd, Spawn, Listed, TypeOK
    <3> QED  BY <2>4, <3>2 DEF HandleInitial, EventsLeadToStore, Expected, Addresses, storeVars
  <2>5. CASE HandleEvent
    BY <2>5, HandledLeads
  <2>6. CASE StopListening \/ Return
    BY <2>6 DEF StopListening, Return, EventsLeadToStore
  <2>7. CASE UNCHANGED <<storeVars, runVars>>
    BY <2>7 DEF EventsLeadToStore, Listed, Addresses, storeVars, runVars
  <2> QED
    BY <2>1, <2>2, <2>3, <2>4, <2>5, <2>6, <2>7
    DEF Next, OpenSocket, Cancelled, Drained, SignalDrain, Terminated, vars
<1>3. TypeOK /\ EventsLeadToStore => ActiveMatchesStore
  <2> SUFFICES ASSUME TypeOK, EventsLeadToStore,
                      phase = "running", todo = {}, queue = <<>>, ~lost
               PROVE  {a \in Address : active[a] # None} = Addresses
    BY DEF ActiveMatchesStore
  <2>1. Addresses \subseteq Address
    BY DEF TypeOK, Addresses
  <2>2. \A a \in Address : a \in Addresses <=> Expected(<<>>, a, active[a] # None)
    BY DEF EventsLeadToStore, Listed
  <2>3. \A a \in Address : Expected(<<>>, a, active[a] # None) <=> active[a] # None
    BY DEF Expected, LastIs, NoneFor
  <2> QED  BY <2>1, <2>2, <2>3
<1> QED
  BY <1>1, <1>2, <1>3, TypeCorrect, OwnStoreInvariant, PTL DEF Spec

(* In every reachable state the table and the tasks have their types, and of *)
(* the tasks of an address all but one have been aborted.                  *)
THEOREM TasksStayConsistent == Spec => []TasksConsistent
  BY TypeCorrect, TasksAreUnique, PTL DEF TasksConsistent
-----------------------------------------------------------------------------
(***************************************************************************)
(* The checks of a request, for any policies that may be set.              *)
(***************************************************************************)

GatewayChecks == {"jwt", "basic", "key", "authz", "others", "transform", "register"}
RouteChecks ==
  {"jwt", "basic", "key", "authz", "rules", "limit", "others", "transform", "csrf", "modifier",
   "cors", "answers", "end"}

(* Where a request is: the checks of the level it is at. *)
CheckPlaced ==
  /\ at \in [level : CheckLevel, check : GatewayChecks \cup RouteChecks]
  /\ at.level = "gateway" => at.check \in GatewayChecks
  /\ at.level = "route" => at.check \in RouteChecks

ChecksTyped ==
  /\ CheckPlaced /\ CheckTypeOK
  /\ policies \in [gateway : CheckSettings, route : CheckSettings]

(* The order of the checks. *)
LEMMA NextChecks ==
  ASSUME CheckPlaced, Passes, at.check \notin {"register", "end"}
  PROVE  /\ CheckPlaced' /\ outcome' = outcome /\ at'.level = at.level
         /\ at.check = "jwt" => at'.check = "basic"
         /\ at.check = "basic" => at'.check = "key"
         /\ at.check = "key" => at'.check = "authz"
         /\ at.check = "authz" => at'.check = IF at.level = "gateway" THEN "others" ELSE "rules"
         /\ at.check = "rules" => at'.check = "limit"
         /\ at.check = "limit" => at'.check = "others"
         /\ at.check = "others" => at'.check = "transform"
         /\ at.check = "transform" => at'.check = IF at.level = "gateway" THEN "register" ELSE "csrf"
         /\ at.check = "csrf" => at'.check = "modifier"
         /\ at.check = "modifier" => at'.check = "cors"
         /\ at.check = "cors" => at'.check = "answers"
         /\ at.check = "answers" => at'.check = "end"
<1> USE DEF CheckPlaced, CheckLevel, GatewayChecks, RouteChecks
<1>1. at'.level = at.level /\ outcome' = outcome /\ at'.check = After[at.level][at.check]
      /\ at' \in [level : CheckLevel, check : {After[at.level][at.check]}]
  BY DEF Passes
<1>2. CASE at.level = "gateway"
  <2>1. After[at.level] = [jwt |-> "basic", basic |-> "key", key |-> "authz", authz |-> "others",
                           others |-> "transform", transform |-> "register"]
    BY <1>2 DEF After
  <2> QED  BY <1>1, <1>2, <2>1
<1>3. CASE at.level = "route"
  <2>1. After[at.level] =
          [jwt |-> "basic", basic |-> "key", key |-> "authz", authz |-> "rules",
           rules |-> "limit", limit |-> "others", others |-> "transform",
           transform |-> "csrf", csrf |-> "modifier", modifier |-> "cors", cors |-> "answers", answers |-> "end"]
    BY <1>3 DEF After
  <2> QED  BY <1>1, <1>3, <2>1
<1> QED  BY <1>2, <1>3

(* Whatever a check does, the request is then at a check of its level. *)
LEMMA Placement ==
  ASSUME CheckPlaced, Passes \/ (\E o \in {"refused", "answered", "forwarded"} : Ends(o)),
         at.check \notin {"register", "end"}, outcome = "open"
  PROVE  CheckPlaced' /\ at'.level = at.level
         /\ outcome' \in {"open", "refused", "answered", "forwarded"}
<1>1. CASE Passes  BY <1>1, NextChecks
<1>2. CASE ~Passes  BY <1>2 DEF Ends, CheckPlaced
<1> QED  BY <1>1, <1>2

Parts == {"auth", "origin", "site", "method"}

(* What is written to a request is a request, and the parts are noted.     *)
LEMMA WritingIsTyped ==
  ASSUME CheckPlaced, head \in RequestParts, wrote \in [CheckLevel -> SUBSET Parts],
         policies \in [gateway : CheckSettings, route : CheckSettings],
         UNCHANGED requestNow \/ Rewrites \/ RewritesHeaders
  PROVE  /\ head' \in RequestParts /\ wrote' \in [CheckLevel -> SUBSET Parts]
         /\ \A l \in CheckLevel : wrote[l] \subseteq wrote'[l]
         /\ \A f \in Parts : f \notin wrote'[at.level] => head'[f] = head[f]
<1>1. CASE UNCHANGED requestNow
  BY <1>1 DEF requestNow
<1>2. CASE ~UNCHANGED requestNow
  <2>1. at.level \in CheckLevel
    BY DEF CheckPlaced
  <2>2. Policy.writes \subseteq Patch
    BY <2>1 DEF Policy, CheckLevel, CheckSettings
  <2>3. PICK p \in Patch : WritePatch(p)
    BY <1>2, <2>2 DEF Rewrites, RewritesHeaders
  <2>4. DOMAIN head = Parts
    BY DEF RequestParts, Parts
  <2>5. head' = [f \in Parts |-> IF p[f] = "kept" THEN head[f] ELSE p[f]]
        /\ wrote' = [wrote EXCEPT ![at.level] = wrote[at.level] \cup {f \in Parts : p[f] # "kept"}]
    BY <2>3, <2>4 DEF WritePatch
  <2>6. head' \in RequestParts
    <3>1. /\ head'["auth"] \in Header /\ head'["origin"] \in Origin
          /\ head'["site"] \in Site /\ head'["method"] \in CheckMethod
      BY <2>5 DEF Parts, Patch, RequestParts
    <3>2. head' = [auth |-> head'["auth"], origin |-> head'["origin"], site |-> head'["site"],
                   method |-> head'["method"]]
      BY <2>5 DEF Parts
    <3> QED  BY <3>1, <3>2 DEF RequestParts
  <2>7. wrote' \in [CheckLevel -> SUBSET Parts] /\ \A l \in CheckLevel : wrote[l] \subseteq wrote'[l]
    BY <2>1, <2>5
  <2>8. ASSUME NEW f \in Parts, f \notin wrote'[at.level] PROVE head'[f] = head[f]
    BY <2>1, <2>5, <2>8
  <2> QED  BY <2>6, <2>7, <2>8
<1> QED  BY <1>1, <1>2

(* Metadata that is read comes into the context, and no copy has more. *)
LEMMA MetadataRead ==
  ASSUME NEW cs, inContext \subseteq cs,
         NEW e \in [built : BOOLEAN, sees : SUBSET inContext], ReadMetadata(cs, e)
  PROVE  /\ inContext' \subseteq cs
         /\ executor' \in [built : BOOLEAN, sees : SUBSET inContext']
<1>1. CASE "meta" \in cs \cap registered
  <2>1. inContext' = inContext \cup {"meta"} /\ executor' = NotBuilt
    BY <1>1 DEF ReadMetadata
  <2>2. {} \in SUBSET inContext'
    OBVIOUS
  <2>3. executor' \in [built : BOOLEAN, sees : SUBSET inContext']
    BY <2>1, <2>2 DEF NotBuilt
  <2> QED  BY <1>1, <2>1, <2>3
<1>2. CASE "meta" \notin cs \cap registered
  BY <1>2 DEF ReadMetadata
<1> QED  BY <1>1, <1>2

(* Values keep their types, and a request stays among the checks of its level.*)
LEMMA CheckTypes == CheckSpec => []ChecksTyped
<1>1. CheckInit => ChecksTyped
  <2> SUFFICES ASSUME CheckInit PROVE ChecksTyped
    OBVIOUS
  <2>1. policies \in [gateway : CheckSettings, route : CheckSettings]
    BY CheckPolicyAssumption DEF CheckInit, CheckLevel
  <2>2. registered \subseteq Kind
    BY <2>1 DEF CheckInit, CheckSettings
  <2>3. CheckPlaced
    BY DEF CheckInit, CheckPlaced, CheckLevel, GatewayChecks
  <2>4. "jwt" \in DOMAIN After["gateway"]
    BY DEF After
  <2> QED  BY <2>1, <2>2, <2>3, <2>4
           DEF CheckInit, ChecksTyped, CheckTypeOK, NotBuilt, CheckLevel
<1>2. ChecksTyped /\ [CheckNext]_checkVars => ChecksTyped'
  <2> SUFFICES ASSUME ChecksTyped, [CheckNext]_checkVars PROVE ChecksTyped'
    OBVIOUS
  <2>1. CheckPlaced' => at'.level \in CheckLevel
                        /\ at'.check \in DOMAIN After[at'.level] \cup {"register", "end"}
    <3>1. DOMAIN After["gateway"] = {"jwt", "basic", "key", "authz", "others", "transform"}
      BY DEF After
    <3>2. DOMAIN After["route"] = RouteChecks \ {"end"}
      BY DEF After, RouteChecks
    <3> QED  BY <3>1, <3>2 DEF CheckPlaced, CheckLevel, GatewayChecks, RouteChecks
  <2> DEFINE Fine == /\ CheckPlaced'
                     /\ claims' \subseteq Kind /\ registered' \subseteq Kind
                     /\ inContext' \subseteq claims'
                     /\ executor' \in [built : BOOLEAN, sees : SUBSET inContext']
                     /\ head' \in RequestParts /\ wrote' \in [CheckLevel -> SUBSET Parts]
                     /\ asked' \in [CheckLevel -> {"nobody", "ok", "denied", "unavailable"}]
                     /\ charged' \in BOOLEAN /\ allowOrigin' \in BOOLEAN
                     /\ outcome' \in {"open", "refused", "answered", "forwarded"}
  <2>2. ASSUME Fine, UNCHANGED config PROVE ChecksTyped'
    <3>1. {brought, head}' \subseteq RequestParts
      BY <2>2 DEF ChecksTyped, CheckTypeOK, config
    <3>2. (DOMAIN head)' = Parts
      BY <2>2 DEF RequestParts, Parts
    <3> QED  BY <2>1, <2>2, <3>1, <3>2 DEF ChecksTyped, CheckTypeOK, config
  <2> DEFINE Outcomes == {"open", "refused", "answered", "forwarded"}
  <2>0. /\ CheckPlaced
        /\ claims \subseteq Kind /\ registered \subseteq Kind /\ inContext \subseteq claims
        /\ executor \in [built : BOOLEAN, sees : SUBSET inContext]
        /\ head \in RequestParts /\ wrote \in [CheckLevel -> SUBSET Parts]
        /\ asked \in [CheckLevel -> {"nobody", "ok", "denied", "unavailable"}]
        /\ charged \in BOOLEAN /\ allowOrigin \in BOOLEAN /\ outcome \in Outcomes
        /\ policies["route"] \in CheckSettings
    <3>1. DOMAIN head = Parts
      BY DEF ChecksTyped, CheckTypeOK, RequestParts, Parts
    <3> QED  BY <3>1 DEF ChecksTyped, CheckTypeOK
  <2>a. at.level \in CheckLevel
    BY <2>0 DEF CheckPlaced
  <2>b. Built \in [built : BOOLEAN, sees : SUBSET inContext]
    BY <2>0 DEF Built
  <2> HIDE DEF Fine
  <2>c. ASSUME UNCHANGED identity, executor' \in [built : BOOLEAN, sees : SUBSET inContext],
               UNCHANGED registered, charged' \in BOOLEAN, allowOrigin' \in BOOLEAN,
               asked' \in [CheckLevel -> {"nobody", "ok", "denied", "unavailable"}],
               CheckPlaced', outcome' \in Outcomes
        PROVE  Fine
    BY <2>0, <2>c DEF Fine, identity, requestNow
  <2>d. ASSUME UNCHANGED requestNow \/ Rewrites \/ RewritesHeaders
        PROVE  head' \in RequestParts /\ wrote' \in [CheckLevel -> SUBSET Parts]
    BY <2>0, <2>d, WritingIsTyped DEF ChecksTyped
  <2>3. ASSUME NEW k \in Credential, Identify(k) \/ Disbelieve(k) \/ Anonymous(k) PROVE Fine
    <3>1. CheckPlaced' /\ outcome' \in Outcomes
      BY <2>0, <2>3, Placement DEF Identify, Disbelieve, Anonymous, Credential, AtCheck
    <3>2. CASE Identify(k)
      <4>1. head' \in RequestParts /\ wrote' = wrote
        BY <2>0, <3>2 DEF Identify, Header, RequestParts
      <4>2. claims' \subseteq Kind /\ inContext' \subseteq claims'
        BY <2>0, <3>2 DEF Identify, Remember, Kind
      <4>3. executor' \in [built : BOOLEAN, sees : SUBSET inContext']
        BY <2>0, <3>2 DEF Identify, Remember
      <4> QED  BY <2>0, <3>1, <3>2, <4>1, <4>2, <4>3 DEF Identify, later, Fine
    <3>3. CASE Disbelieve(k) \/ Anonymous(k)
      BY <2>0, <2>c, <3>1, <3>3 DEF Disbelieve, Anonymous, later
    <3> QED  BY <2>3, <3>2, <3>3
  <2>4. ASSUME Authorized \/ Denied \/ Unavailable \/ NoServer PROVE Fine
    <3>1. CheckPlaced' /\ outcome' \in Outcomes
      BY <2>0, <2>4, Placement DEF Authorized, Denied, Unavailable, NoServer, AtCheck
    <3>2. CASE Authorized
      <4>1. PICK m \in SUBSET {"meta"} :
              claims' = claims \cup m /\ ReadMetadata(claims \cup m, Built)
        BY <3>2 DEF Authorized
      <4>2. inContext' \subseteq claims' /\ executor' \in [built : BOOLEAN, sees : SUBSET inContext']
        BY <2>0, <2>b, <4>1, MetadataRead
      <4>4. head' \in RequestParts /\ wrote' \in [CheckLevel -> SUBSET Parts]
        BY <2>d, <3>2 DEF Authorized
      <4>5. claims' \subseteq Kind
        BY <2>0, <4>1 DEF Kind
      <4>6. asked' \in [CheckLevel -> {"nobody", "ok", "denied", "unavailable"}]
        BY <2>0, <3>2 DEF Authorized
      <4> QED  BY <2>0, <3>1, <3>2, <4>2, <4>4, <4>5, <4>6 DEF Authorized, later, Fine
    <3>3. CASE Denied
      BY <2>0, <2>b, <2>c, <3>1, <3>3 DEF Denied, later
    <3>4. CASE Unavailable \/ NoServer
      <4>1. /\ inContext' \subseteq claims
            /\ executor' \in [built : BOOLEAN, sees : SUBSET inContext']
        <5>1. CASE ReadMetadata(claims, Built) \/ ReadMetadata(claims, executor)
          BY <2>0, <2>b, <5>1, MetadataRead
        <5>2. CASE executor' = Built /\ UNCHANGED inContext
          BY <2>0, <2>b, <5>2
        <5> QED  BY <3>4, <5>1, <5>2 DEF Unavailable, NoServer
      <4>2. asked' \in [CheckLevel -> {"nobody", "ok", "denied", "unavailable"}]
        BY <2>0, <3>4 DEF Unavailable, NoServer
      <4> QED  BY <2>0, <3>1, <3>4, <4>1, <4>2 DEF Unavailable, NoServer, later, requestNow, Fine
    <3> QED  BY <2>4, <3>2, <3>3, <3>4
  <2>5. ASSUME RouteSelected PROVE Fine
    <3>1. CheckPlaced'
      BY <2>5 DEF RouteSelected, CheckPlaced, CheckLevel, RouteChecks
    <3>2. policies["route"].allow \subseteq Kind /\ policies["route"].deny \subseteq Kind
      BY <2>0 DEF CheckSettings
    <3>3. registered' \subseteq Kind /\ inContext' \subseteq claims'
      BY <2>0, <2>5, <3>2 DEF RouteSelected
    <3>4. executor' \in [built : BOOLEAN, sees : SUBSET inContext']
      <4>1. {} \in SUBSET inContext'
        OBVIOUS
      <4> QED  BY <2>5, <4>1 DEF RouteSelected, NotBuilt
    <3> QED  BY <2>0, <2>5, <3>1, <3>3, <3>4 DEF RouteSelected, later, requestNow, Fine
  <2>6. ASSUME CheckCsrf \/ CheckCors \/ Authorize PROVE Fine
    <3>1. ASSUME CheckCsrf PROVE CsrfVerdict \in {"pass", "refused", "answered"}
      BY <2>0, <3>1 DEF CsrfVerdict, CheckMethod, Origin, Site, RequestParts
    <3>2. CheckPlaced' /\ outcome' \in Outcomes
      BY <2>0, <2>6, <3>1, Placement DEF Authorize, CheckCsrf, CheckCors, AtCheck
    <3>3. CorsAllows \in BOOLEAN
      BY DEF CorsAllows
    <3>4. executor' \in {executor, Built}
      BY <2>6 DEF Authorize, CheckCsrf, CheckCors
    <3> QED  BY <2>0, <2>6, <2>b, <2>c, <3>2, <3>3, <3>4 DEF Authorize, CheckCsrf, CheckCors, later
  <2>7. ASSUME Others \/ Transform \/ RateLimited \/ Modify PROVE Fine
    <3>1. CheckPlaced' /\ outcome' \in Outcomes
      BY <2>0, <2>7, Placement DEF Others, Transform, RateLimited, Modify, AtCheck
    <3>2. executor' \in {executor, Built} /\ charged' \in BOOLEAN
      BY <2>0, <2>7 DEF Others, Transform, RateLimited, Modify, later
    <3>3. head' \in RequestParts /\ wrote' \in [CheckLevel -> SUBSET Parts]
      BY <2>7, <2>d DEF Others, Transform, RateLimited, Modify
    <3> QED  BY <2>0, <2>7, <2>b, <3>1, <3>2, <3>3
             DEF Others, Transform, RateLimited, Modify, later, Fine
  <2>9. ASSUME Answer PROVE Fine
    <3>1. CASE AtCheck("answers")
      <4>1. Passes \/ Ends("answered") \/ Ends("refused")
        BY <2>9, <3>1 DEF Answer, AtCheck
      <4>2. CheckPlaced' /\ outcome' \in Outcomes
        BY <2>0, <3>1, <4>1, Placement DEF AtCheck
      <4> QED  BY <2>0, <2>9, <2>c, <4>2 DEF Answer, later
    <3>2. CASE AtCheck("end")
      <4>1. Ends("forwarded")
        BY <2>9, <3>2 DEF Answer, AtCheck
      <4>2. CheckPlaced' /\ outcome' \in Outcomes
        BY <2>0, <4>1 DEF Ends, CheckPlaced
      <4> QED  BY <2>0, <2>9, <2>c, <4>2 DEF Answer, later
    <3> QED  BY <2>9, <3>1, <3>2 DEF Answer
  <2>10. CASE CheckNext
    <3>1. UNCHANGED config
      BY <2>10 DEF CheckNext, Identify, Disbelieve, Anonymous, Authorized, Denied, Unavailable,
         NoServer, RouteSelected, Others, Transform, CheckCsrf, CheckCors, Authorize, RateLimited, Modify, Answer
    <3> QED  BY <2>2, <2>3, <2>4, <2>5, <2>6, <2>7, <2>9, <2>10, <3>1 DEF CheckNext
  <2>11. CASE UNCHANGED checkVars
    BY <2>11 DEF checkVars, CheckPlaced, ChecksTyped, CheckTypeOK
  <2> QED  BY <2>10, <2>11
<1> QED  BY <1>1, <1>2, PTL DEF CheckSpec

-----------------------------------------------------------------------------

(* The identity check k of level l is over and was not the end. *)
Pending == [jwt |-> {"jwt"}, basic |-> {"jwt", "basic"}, key |-> {"jwt", "basic", "key"}]
PastCheck(l, k) ==
  \/ l = "gateway" /\ at.level = "route"
  \/ at.level = l /\ at.check \notin Pending[k]

PastAuthz(l) ==
  \/ l = "gateway" /\ at.level = "route"
  \/ at.level = l /\ at.check \notin {"jwt", "basic", "key", "authz"}

PastRules == at.level = "route" /\ at.check \notin {"jwt", "basic", "key", "authz", "rules"}

(* What was verified is with the request: strict checks have their claims, *)
(* only a request past the rules is counted or forwarded.                  *)
IdentityKept ==
  /\ \A l \in CheckLevel, k \in Credential :
       PastCheck(l, k) /\ policies[l][k] = "strict" => k \in claims
  /\ charged \/ Forwarded => PastRules
  /\ Forwarded => at.check = "end"

(* Servers that were passed were asked, and agreed or failed open. *)
ServersPassed ==
  \A l \in CheckLevel :
    /\ outcome = "open" /\ ~PastAuthz(l) => asked[l] = "nobody"
    /\ PastAuthz(l) /\ policies[l].authz # "off" =>
         asked[l] = "ok" \/ (asked[l] = "unavailable" /\ policies[l].authz = "allow")

(* The context has every claim that is asked for, and a copy all of it. *)
ContextFresh ==
  /\ claims \cap Credential \cap registered \subseteq inContext
  /\ PastAuthz("route") => claims \cap registered \subseteq inContext
  /\ at.level = "route" => policies["route"].allow \cup policies["route"].deny \subseteq registered
  /\ outcome = "open" /\ at.check \in {"jwt", "basic", "key", "authz"} => ~executor.built
  /\ executor.built => executor.sees = inContext
  /\ PastRules => Permits(claims)
  /\ outcome = "refused" /\ at.check = "rules" => ~Permits(claims)

(* Nothing but a permissive policy lets a credential of kind k through.   *)
LetsThrough(l, k) ==
  IF k = "jwt" THEN policies[l].jwt \in {"off", "permissive"} ELSE policies[l][k] = "off"

(* What is written after the checks of a level apart, the header has       *)
(* nothing that they verified or would have refused.                       *)
HeaderKept ==
  /\ claims \cap Credential # {} /\ "auth" \notin WrittenSince("gateway") => head.auth = "none"
  /\ \A l \in CheckLevel, k \in Credential :
       PastCheck(l, k) /\ "auth" \notin WrittenSince(l) =>
         /\ policies[l][k] = "strict" => head.auth = "none"
         /\ Presented(k) => LetsThrough(l, k)

(* The origin is judged as it was brought, if nothing wrote it, and the    *)
(* method as it is forwarded; the origin is answered as allowed.           *)
NotWritten(f) == f \notin WrittenSince("gateway")
FromHere ==
  brought.site # "same" =>
    /\ brought.site # "malformed" /\ brought.origin \notin {"foreign", "malformed"}
    /\ brought.site = "cross" => brought.origin = "listed"
NameAllowed ==
  \/ policies["route"].cors = "any" /\ brought.origin # "absent"
  \/ policies["route"].cors = "list" /\ brought.origin = "listed"
OriginJudged ==
  /\ NotWritten("origin") => head.origin = brought.origin
  /\ NotWritten("site") => head.site = brought.site
  /\ /\ at.level = "route" /\ at.check \in {"modifier", "cors", "answers", "end"}
     /\ policies["route"].csrf /\ head.method = "POST" /\ NotWritten("origin") /\ NotWritten("site")
     => FromHere
  /\ allowOrigin =>
       /\ at.level = "route" /\ at.check \in {"cors", "answers", "end"}
       /\ at.check = "cors" => outcome # "open"
       /\ head.method = "OPTIONS" => outcome = "answered"
       /\ NotWritten("origin") => NameAllowed

(* A check leads past itself, and only if the request passes it. *)
LEMMA PastMoves ==
  ASSUME CheckPlaced, Passes \/ (\E o \in {"refused", "answered", "forwarded"} : Ends(o)),
         at.check \notin {"register", "end"}, outcome = "open"
  PROVE  /\ \A l \in CheckLevel, k \in Credential :
              PastCheck(l, k)' => PastCheck(l, k) \/ (l = at.level /\ at.check = k /\ Passes)
         /\ \A l \in CheckLevel :
              PastAuthz(l)' => PastAuthz(l) \/ (l = at.level /\ at.check = "authz" /\ Passes)
         /\ PastRules' => PastRules \/ (at.check = "rules" /\ Passes)
         /\ \A l \in CheckLevel : PastAuthz(l) => PastAuthz(l)'
         /\ \A l \in CheckLevel : l = at.level /\ at.check = "authz" /\ Passes => PastAuthz(l)'
         /\ PastRules => PastRules'
<1> USE DEF CheckPlaced, CheckLevel, GatewayChecks, RouteChecks
<1>1. CASE Passes
  <2>1. ASSUME NEW l \in CheckLevel, NEW k \in Credential, PastCheck(l, k)'
        PROVE  PastCheck(l, k) \/ (l = at.level /\ at.check = k)
    <3>1. Pending[k] = IF k = "jwt" THEN {"jwt"} ELSE IF k = "basic" THEN {"jwt", "basic"}
                       ELSE {"jwt", "basic", "key"}
      BY DEF Pending, Credential
    <3> QED  BY <1>1, <2>1, <3>1, NextChecks DEF PastCheck, Credential
  <2>2. ASSUME NEW l \in CheckLevel, PastAuthz(l)'
        PROVE  PastAuthz(l) \/ (l = at.level /\ at.check = "authz")
    BY <1>1, <2>2, NextChecks DEF PastAuthz
  <2>4. /\ \A l \in CheckLevel : PastAuthz(l) => PastAuthz(l)'
        /\ \A l \in CheckLevel : l = at.level /\ at.check = "authz" => PastAuthz(l)'
    BY <1>1, NextChecks DEF PastAuthz
  <2>3. /\ PastRules' => PastRules \/ at.check = "rules"
        /\ PastRules => PastRules'
    BY <1>1, NextChecks DEF PastRules
  <2> QED  BY <1>1, <2>1, <2>2, <2>3, <2>4
<1>2. CASE UNCHANGED at /\ ~Passes
  BY <1>2 DEF PastCheck, PastAuthz, PastRules
<1> QED  BY <1>1, <1>2 DEF Ends

(* What every check but the last and the selection of a route does. *)
LEMMA ChecksMove ==
  ASSUME ChecksTyped, CheckNext, ~RouteSelected, ~AtCheck("end")
  PROVE  /\ Passes \/ (\E o \in {"refused", "answered"} : Ends(o))
         /\ at.check \notin {"register", "end"} /\ outcome = "open"
         /\ UNCHANGED <<config, registered>>
<1> USE DEF AtCheck
<1>0. head \in RequestParts
  BY DEF ChecksTyped, CheckTypeOK
<1>1. ASSUME NEW k \in Credential, Identify(k) \/ Disbelieve(k) \/ Anonymous(k)
      PROVE  /\ Passes \/ (\E o \in {"refused", "answered"} : Ends(o))
             /\ at.check \notin {"register", "end"} /\ outcome = "open"
             /\ UNCHANGED <<config, registered>>
  BY <1>1 DEF Identify, Disbelieve, Anonymous, Credential
<1>2. CASE Authorized \/ Denied \/ Unavailable \/ NoServer
  BY <1>2 DEF Authorized, Denied, Unavailable, NoServer
<1>3. CASE CheckCsrf
  <2>1. CsrfVerdict \in {"pass", "refused", "answered"}
    BY <1>0, <1>3 DEF CsrfVerdict, CheckMethod, Origin, Site, RequestParts
  <2> QED  BY <1>3, <2>1 DEF CheckCsrf
<1>4. CASE Others \/ Transform \/ Authorize \/ RateLimited \/ Modify \/ CheckCors
  BY <1>4 DEF Others, Transform, Authorize, RateLimited, Modify, CheckCors
<1>5. CASE Answer
  BY <1>5 DEF Answer
<1> QED  BY <1>1, <1>2, <1>3, <1>4, <1>5 DEF CheckNext

(* The end: the request is forwarded. *)
LEMMA EndForwards ==
  ASSUME CheckNext, AtCheck("end")
  PROVE  Answer /\ Ends("forwarded")
<1> USE DEF AtCheck
<1>1. ASSUME NEW k \in Credential, Identify(k) \/ Disbelieve(k) \/ Anonymous(k) PROVE FALSE
  BY <1>1 DEF Identify, Disbelieve, Anonymous, Credential
<1>2. ASSUME \/ Authorized \/ Denied \/ Unavailable \/ NoServer \/ RouteSelected \/ CheckCsrf
             \/ Others \/ Transform \/ Authorize \/ RateLimited \/ Modify \/ CheckCors
      PROVE  FALSE
  BY <1>2 DEF Authorized, Denied, Unavailable, NoServer, RouteSelected, CheckCsrf,
     Others, Transform, Authorize, RateLimited, Modify, CheckCors
<1>3. ASSUME Answer PROVE Ends("forwarded")
  BY <1>3 DEF Answer
<1> QED  BY <1>1, <1>2, <1>3 DEF CheckNext

(* The selection of a route. *)
LEMMA RouteIsNew ==
  ASSUME ChecksTyped, RouteSelected
  PROVE  /\ \A k \in Credential : PastCheck("gateway", k) /\ ~PastCheck("route", k)'
         /\ PastAuthz("gateway") /\ ~PastAuthz("route")' /\ ~PastRules /\ ~PastRules'
         /\ at.level = "gateway" /\ at' = [level |-> "route", check |-> "jwt"]
<1>1. at.level = "gateway" /\ at.check = "register" /\ at' = [level |-> "route", check |-> "jwt"]
  BY DEF ChecksTyped, CheckPlaced, CheckLevel, RouteChecks, RouteSelected, AtCheck
<1>2. ASSUME NEW k \in Credential PROVE "jwt" \in Pending[k] /\ "register" \notin Pending[k]
  BY DEF Pending, Credential
<1> QED  BY <1>1, <1>2 DEF PastCheck, PastAuthz, PastRules

(* What a policy verified stays verified and is what the rules see.        *)
LEMMA IdentityStep ==
  ASSUME ChecksTyped, IdentityKept, [CheckNext]_checkVars
  PROVE  IdentityKept'
<1> USE DEF AtCheck
<1>0. CheckPlaced /\ at.level \in CheckLevel
  BY DEF ChecksTyped, CheckPlaced
<1>1. CASE RouteSelected
  BY <1>1, RouteIsNew DEF IdentityKept, RouteSelected, config, later, Forwarded, CheckLevel
<1>2. CASE CheckNext /\ AtCheck("end")
  <2>1. Answer /\ Ends("forwarded")
    BY <1>2, EndForwards
  <2>2. PastRules
    BY <1>0, <1>2 DEF CheckPlaced, PastRules, CheckLevel, GatewayChecks
  <2> QED  BY <1>2, <2>1, <2>2
    DEF Answer, Ends, identity, config, later, IdentityKept, PastCheck, PastRules, Forwarded
<1>3. CASE CheckNext /\ ~RouteSelected /\ ~AtCheck("end")
  <2>1. /\ Passes \/ (\E o \in {"refused", "answered"} : Ends(o))
        /\ at.check \notin {"register", "end"} /\ outcome = "open"
        /\ UNCHANGED <<config, registered>>
    BY <1>3, ChecksMove
  <2>2. ~Forwarded'
    BY <2>1 DEF Passes, Ends, Forwarded
  <2>3. claims \subseteq claims'
    BY <1>3 DEF CheckNext, Identify, Disbelieve, Anonymous, Authorized, Denied, Unavailable,
       NoServer, RouteSelected, Others, Transform, CheckCsrf, CheckCors, Authorize, RateLimited, Modify, Answer,
       Remember, identity
  <2>4. ASSUME NEW l \in CheckLevel, NEW k \in Credential,
               PastCheck(l, k)', policies'[l][k] = "strict"
        PROVE  k \in claims'
    <3>1. CASE PastCheck(l, k)
      BY <2>1, <2>3, <2>4, <3>1 DEF IdentityKept, config
    <3>2. CASE l = at.level /\ at.check = k /\ Passes
      <4>1. Identify(k) \/ Disbelieve(k) \/ Anonymous(k)
        <5>1. ASSUME NEW j \in Credential, Identify(j) \/ Disbelieve(j) \/ Anonymous(j) PROVE j = k
          BY <3>2, <5>1 DEF Identify, Disbelieve, Anonymous
        <5>2. ~(\/ Authorized \/ Denied \/ Unavailable \/ NoServer \/ Others \/ Transform \/ CheckCsrf
                \/ CheckCors \/ Authorize \/ RateLimited \/ Modify \/ Answer)
          BY <3>2, <2>1
          DEF Authorized, Denied, Unavailable, NoServer, Others, Transform, CheckCsrf, CheckCors,
             Authorize, RateLimited, Modify, Answer, Credential
        <5> QED  BY <1>3, <5>1, <5>2 DEF CheckNext
      <4>2. CASE Identify(k)
        BY <4>2 DEF Identify, Remember
      <4>3. CASE Disbelieve(k) \/ Anonymous(k)
        <5>1. ~Ends("refused")
          BY <2>1, <3>2, NextChecks, <1>0 DEF Ends, Passes
        <5>2. policies'[l][k] = policies[l][k]
          BY <2>1 DEF config
        <5> QED  BY <2>4, <3>2, <4>3, <5>1, <5>2 DEF Disbelieve, Anonymous, Policy
      <4> QED  BY <4>1, <4>2, <4>3
    <3> QED  BY <1>0, <2>1, <2>4, <3>1, <3>2, PastMoves
  <2>5. charged' => PastRules'
    <3>1. CASE charged'= charged
      BY <1>0, <2>1, <3>1, PastMoves DEF IdentityKept
    <3>2. CASE RateLimited
      <4>1. PastRules
        BY <1>0, <3>2 DEF CheckPlaced, PastRules, CheckLevel, GatewayChecks, RateLimited
      <4> QED  BY <1>0, <2>1, <4>1, PastMoves
    <3> QED  BY <1>3, <3>1, <3>2
             DEF CheckNext, Identify, Disbelieve, Anonymous, Authorized, Denied,
         Unavailable, NoServer, Others, Transform, CheckCsrf, CheckCors, Authorize, Modify, Answer, later
  <2> QED  BY <2>2, <2>4, <2>5 DEF IdentityKept
<1>4. CASE UNCHANGED checkVars
  BY <1>4 DEF checkVars, IdentityKept, PastCheck, PastRules, Forwarded
<1> QED  BY <1>1, <1>2, <1>3, <1>4

(* What the servers are asked and told goes with the checks passed.        *)
LEMMA ServersStep ==
  ASSUME ChecksTyped, ServersPassed, [CheckNext]_checkVars
  PROVE  ServersPassed'
<1> USE DEF AtCheck
<1>0. CheckPlaced /\ at.level \in CheckLevel
      /\ asked \in [CheckLevel -> {"nobody", "ok", "denied", "unavailable"}]
  BY DEF ChecksTyped, CheckPlaced, CheckTypeOK
<1>1. CASE RouteSelected
  <2>1. /\ ~PastAuthz("route") /\ ~PastAuthz("route")' /\ PastAuthz("gateway") /\ PastAuthz("gateway")'
    BY <1>1, RouteIsNew DEF PastAuthz
  <2>2. UNCHANGED <<outcome, asked, policies>>
    BY <1>1 DEF RouteSelected, config
  <2> QED  BY <2>1, <2>2 DEF ServersPassed, CheckLevel
<1>2. CASE CheckNext /\ AtCheck("end")
  <2>1. Answer /\ Ends("forwarded")
    BY <1>2, EndForwards
  <2> QED  BY <2>1 DEF Answer, Ends, config, ServersPassed, PastAuthz
<1>3. CASE CheckNext /\ ~RouteSelected /\ ~AtCheck("end")
  <2>1. /\ Passes \/ (\E o \in {"refused", "answered"} : Ends(o))
        /\ at.check \notin {"register", "end"} /\ outcome = "open"
        /\ UNCHANGED <<config, registered>>
    BY <1>3, ChecksMove
  <2>2. ASSUME NEW l \in CheckLevel, PastAuthz(l)', policies'[l].authz # "off"
        PROVE  asked'[l] = "ok" \/ (asked'[l] = "unavailable" /\ policies'[l].authz = "allow")
    <3>0. policies' = policies
      BY <2>1 DEF config
    <3>1. CASE at.check # "authz"
      <4>1. asked' = asked
        BY <1>3, <3>1 DEF CheckNext, Identify, Disbelieve, Anonymous, Authorized, Denied,
         Unavailable, NoServer, Others, Transform, CheckCsrf, CheckCors, Authorize, RateLimited, Modify, Answer
      <4>2. PastAuthz(l)
        BY <1>0, <2>1, <2>2, <3>1, PastMoves
      <4> QED  BY <2>2, <3>0, <4>1, <4>2 DEF ServersPassed
    <3>2. CASE at.check = "authz"
      <4>1. \/ Authorized \/ Denied \/ Unavailable \/ NoServer
        <5>1. ~(\E j \in Credential : Identify(j) \/ Disbelieve(j) \/ Anonymous(j))
          BY <3>2 DEF Identify, Disbelieve, Anonymous, Credential
        <5>2. ~(\/ Others \/ Transform \/ CheckCsrf \/ CheckCors \/ Authorize \/ RateLimited \/ Modify \/ Answer)
          BY <3>2 DEF Others, Transform, CheckCsrf, CheckCors, Authorize, RateLimited, Modify, Answer
        <5> QED  BY <1>3, <5>1, <5>2 DEF CheckNext
      <4>2. l # at.level => asked'[l] = asked[l]
        BY <1>0, <4>1 DEF Authorized, Denied, Unavailable, NoServer
      <4>3. CASE PastAuthz(l)
        <5>1. l # at.level
          BY <3>2, <4>3, <1>0 DEF PastAuthz, CheckLevel
        <5> QED  BY <2>2, <3>0, <4>2, <4>3, <5>1 DEF ServersPassed
      <4>4. CASE l = at.level /\ Passes
        <5>1. at' # at
          BY <1>0, <3>2, <4>4, NextChecks
        <5> QED  BY <1>0, <2>2, <3>0, <4>1, <4>4, <5>1
             DEF Authorized, Denied, Unavailable, NoServer, Ends, Policy
      <4> QED  BY <1>0, <2>1, <2>2, <4>3, <4>4, PastMoves
    <3> QED  BY <3>1, <3>2
  <2>3. ASSUME NEW l \in CheckLevel, outcome' = "open", ~PastAuthz(l)'
        PROVE  asked'[l] = "nobody"
    <3>1. Passes /\ ~PastAuthz(l)
      BY <1>0, <2>1, <2>3, PastMoves DEF Ends
    <3>2. asked[l] = "nobody"
      BY <2>1, <3>1 DEF ServersPassed
    <3>3. at.check = "authz" => l # at.level
      BY <1>0, <2>1, <2>3, <3>1, PastMoves
    <3>4. asked' = asked \/ (at.check = "authz" /\ \E v : asked' = [asked EXCEPT ![at.level] = v])
      BY <1>3 DEF CheckNext, Identify, Disbelieve, Anonymous, Authorized, Denied,
         Unavailable, NoServer, Others, Transform, CheckCsrf, CheckCors, Authorize, RateLimited, Modify, Answer
    <3> QED  BY <1>0, <3>2, <3>3, <3>4
  <2> QED  BY <2>2, <2>3 DEF ServersPassed
<1>4. CASE UNCHANGED checkVars
  BY <1>4 DEF checkVars, ServersPassed, PastAuthz
<1> QED  BY <1>1, <1>2, <1>3, <1>4

(* Only what the rules look at decides them. *)
LEMMA RulesSee ==
  ASSUME NEW seen, seen \subseteq claims,
         claims \cap (policies["route"].allow \cup policies["route"].deny) \subseteq seen
  PROVE  Permits(seen) <=> Permits(claims)
<1> DEFINE p == policies["route"]
<1>1. p.deny \cap seen = p.deny \cap claims /\ p.allow \cap seen = p.allow \cap claims
  OBVIOUS
<1> QED  BY <1>1 DEF Permits

(* The context holds what was asked for before it was read.                *)
LEMMA ContextStep ==
  ASSUME ChecksTyped, ContextFresh, [CheckNext]_checkVars
  PROVE  ContextFresh'
<1> USE DEF AtCheck
<1> DEFINE Asked == policies["route"].allow \cup policies["route"].deny
<1>0. /\ CheckPlaced /\ at.level \in CheckLevel /\ inContext \subseteq claims
      /\ executor \in [built : BOOLEAN, sees : SUBSET inContext]
      /\ claims \subseteq Credential \cup {"meta"}
  BY DEF ChecksTyped, CheckPlaced, CheckTypeOK, Kind
<1>1. CASE RouteSelected
  <2>1. /\ at.level = "gateway" /\ at' = [level |-> "route", check |-> "jwt"]
        /\ ~PastAuthz("route")' /\ ~PastRules'
    BY <1>1, RouteIsNew
  <2>2. registered' = registered \cup Asked /\ claims' = claims /\ policies' = policies
        /\ inContext' = inContext \cup (claims \cap Credential \cap registered')
    BY <1>1 DEF RouteSelected, config
  <2>3. ~executor'.built
    BY <1>1 DEF RouteSelected, NotBuilt
  <2> QED  BY <2>1, <2>2, <2>3 DEF ContextFresh
<1>2. CASE CheckNext /\ AtCheck("end")
  <2>1. Answer /\ Ends("forwarded")
    BY <1>2, EndForwards
  <2> QED  BY <1>2, <2>1
           DEF Answer, Ends, identity, config, ContextFresh, PastAuthz, PastRules, Permits
<1>3. CASE CheckNext /\ ~RouteSelected /\ ~AtCheck("end")
  <2>1. /\ Passes \/ (\E o \in {"refused", "answered"} : Ends(o))
        /\ at.check \notin {"register", "end"} /\ outcome = "open"
        /\ policies' = policies /\ registered' = registered
    BY <1>3, ChecksMove DEF config
  <2>2. at'.level = at.level
    BY <1>0, <2>1, NextChecks DEF Ends
  <2>3. outcome' = "open" => Passes
    BY <2>1 DEF Ends
  <2>4. CASE at.check \in Credential
    <3>0. ~PastAuthz("route") /\ ~PastRules /\ ~PastAuthz("route")' /\ ~PastRules'
      <4>1. ~PastAuthz("route") /\ ~PastRules
        BY <1>0, <2>4 DEF PastAuthz, PastRules, CheckLevel, Credential
      <4>2. at.check # "authz" /\ at.check # "rules" /\ "route" \in CheckLevel
        BY <2>4 DEF Credential, CheckLevel
      <4> QED  BY <1>0, <2>1, <4>1, <4>2, PastMoves
    <3>1. \E k \in Credential : Identify(k) \/ Disbelieve(k) \/ Anonymous(k)
      <4>1. ~(\/ Authorized \/ Denied \/ Unavailable \/ NoServer \/ Others \/ Transform \/ CheckCsrf
              \/ CheckCors \/ Authorize \/ RateLimited \/ Modify \/ Answer)
        BY <2>1, <2>4
        DEF Authorized, Denied, Unavailable, NoServer, Others, Transform, CheckCsrf, CheckCors,
             Authorize, RateLimited, Modify, Answer, Credential
      <4> QED  BY <1>3, <4>1 DEF CheckNext
    <3>2. PICK k \in Credential : Identify(k) \/ Disbelieve(k) \/ Anonymous(k)
      BY <3>1
    <3>3. claims' \cap Credential \cap registered' \subseteq inContext' /\ executor' = executor
      BY <2>1, <3>2 DEF Identify, Disbelieve, Anonymous, Remember, identity, ContextFresh
    <3>4. ~executor.built
      BY <2>1, <2>4 DEF ContextFresh, Credential
    <3>5. at'.check # "rules"
      <4>1. at'.check = at.check \/ Passes
        BY <2>1 DEF Ends
      <4> QED  BY <1>0, <2>1, <2>4, <4>1, NextChecks DEF Credential
    <3> QED  BY <2>1, <2>2, <3>0, <3>3, <3>4, <3>5 DEF ContextFresh
  <2>5. CASE at.check = "authz"
    <3>0. ~PastRules /\ ~PastRules'
      <4>1. ~PastRules
        BY <2>5 DEF PastRules
      <4> QED  BY <1>0, <2>1, <2>5, <4>1, PastMoves
    <3>1. \/ Authorized \/ Denied \/ Unavailable \/ NoServer
      <4>1. ~(\E j \in Credential : Identify(j) \/ Disbelieve(j) \/ Anonymous(j))
        BY <2>5 DEF Identify, Disbelieve, Anonymous, Credential
      <4>2. ~(\/ Others \/ Transform \/ CheckCsrf \/ CheckCors \/ Authorize \/ RateLimited \/ Modify \/ Answer)
        BY <2>5 DEF Others, Transform, CheckCsrf, CheckCors, Authorize, RateLimited, Modify, Answer
      <4> QED  BY <1>3, <4>1, <4>2 DEF CheckNext
    <3>2. ~executor.built
      BY <2>1, <2>5 DEF ContextFresh
    <3>3. Built.sees = inContext
      BY <3>2 DEF Built
    <3>4. ASSUME NEW cs, NEW e \in {executor, Built}, ReadMetadata(cs, e), claims' = cs,
                 claims' \cap Credential = claims \cap Credential, claims' \subseteq Kind
          PROVE  /\ claims' \cap registered' \subseteq inContext'
                 /\ executor'.built => executor'.sees = inContext'
      <4>1. claims \cap Credential \cap registered \subseteq inContext
        BY DEF ContextFresh
      <4>2. e.built => e.sees = inContext
        BY <3>2, <3>3, <3>4
      <4>3. CASE "meta" \in cs \cap registered
        <5>1. inContext' = inContext \cup {"meta"} /\ ~executor'.built
          BY <3>4, <4>3 DEF ReadMetadata, NotBuilt
        <5> QED  BY <2>1, <3>4, <4>1, <5>1 DEF Kind
      <4>4. CASE "meta" \notin cs \cap registered
        <5>1. inContext' = inContext /\ executor' = e
          BY <3>4, <4>4 DEF ReadMetadata
        <5> QED  BY <2>1, <3>4, <4>1, <4>2, <4>4, <5>1 DEF Kind
      <4> QED  BY <4>3, <4>4
    <3>5. /\ claims' \cap Credential \cap registered' \subseteq inContext'
          /\ Passes => claims' \cap registered' \subseteq inContext'
          /\ executor'.built => executor'.sees = inContext'
      <4>1. CASE Authorized
        <5>1. PICK m \in SUBSET {"meta"} :
                claims' = claims \cup m /\ ReadMetadata(claims \cup m, Built)
          BY <4>1 DEF Authorized
        <5>2. claims' \cap Credential = claims \cap Credential /\ claims' \subseteq Kind
          BY <1>0, <5>1 DEF Credential, Kind
        <5> QED  BY <3>4, <5>1, <5>2
      <4>2. CASE Denied \/ (Unavailable /\ executor' = Built /\ UNCHANGED inContext /\ ~Passes)
        <5>1. claims' = claims /\ inContext' = inContext /\ executor' = Built
          BY <4>2 DEF Denied, Unavailable, identity
        <5>2. ~Passes
          BY <1>0, <2>1, <2>5, <4>2, NextChecks DEF Denied, Ends
        <5> QED  BY <2>1, <3>3, <5>1, <5>2 DEF ContextFresh
      <4>3. CASE NoServer \/ (Unavailable /\ ReadMetadata(claims, Built))
        <5>1. claims' = claims /\ \E e \in {executor, Built} : ReadMetadata(claims, e)
          BY <4>3 DEF NoServer, Unavailable
        <5>2. claims' \subseteq Kind
          BY <1>0, <5>1 DEF Kind
        <5> QED  BY <3>4, <5>1, <5>2
      <4>4. ASSUME Unavailable
            PROVE  ReadMetadata(claims, Built) \/ (executor' = Built /\ UNCHANGED inContext /\ ~Passes)
        BY <1>0, <2>1, <2>5, <4>4, NextChecks DEF Unavailable, Ends
      <4> QED  BY <3>1, <4>1, <4>2, <4>3, <4>4
    <3>6. PastAuthz("route")' => Passes
      <4>1. ~PastAuthz("route")
        BY <1>0, <2>5 DEF PastAuthz, CheckLevel
      <4> QED  BY <1>0, <2>1, <4>1, PastMoves DEF CheckLevel
    <3>7. at'.check \notin {"jwt", "basic", "key"} /\ (at'.check = "authz" => ~Passes)
          /\ (at'.check = "rules" => Passes)
      <4>1. at' = at \/ Passes
        BY <2>1 DEF Ends
      <4> QED  BY <1>0, <2>1, <2>5, <4>1, NextChecks
    <3>8. Passes => outcome' # "refused"
      BY <2>1 DEF Passes
    <3> QED  BY <2>1, <2>2, <2>3, <3>0, <3>5, <3>6, <3>7, <3>8 DEF ContextFresh
  <2>6. CASE at.check \notin Credential \cup {"authz"}
    <3>1. ~(\/ Authorized \/ Denied \/ Unavailable \/ NoServer)
          /\ ~(\E j \in Credential : Identify(j) \/ Disbelieve(j) \/ Anonymous(j))
      BY <2>6 DEF Authorized, Denied, Unavailable, NoServer, Identify, Disbelieve, Anonymous
    <3>2. \/ Others \/ Transform \/ CheckCsrf \/ CheckCors \/ Authorize \/ RateLimited \/ Modify \/ Answer
      BY <1>3, <3>1 DEF CheckNext
    <3>3. claims' = claims /\ inContext' = inContext /\ executor' \in {executor, Built}
      BY <3>2 DEF Others, Transform, CheckCsrf, CheckCors, Authorize, RateLimited, Modify, Answer, identity
    <3>4. executor'.built => executor'.sees = inContext'
      BY <3>3 DEF Built, ContextFresh
    <3>5. at'.check \notin {"jwt", "basic", "key", "authz"}
      <4>1. at' = at \/ Passes
        BY <2>1 DEF Ends
      <4> QED  BY <1>0, <2>1, <2>6, <4>1, NextChecks
           DEF Credential, CheckPlaced, GatewayChecks, RouteChecks
    <3>6. PastAuthz("route")' => PastAuthz("route")
      BY <1>0, <2>1, <2>6, PastMoves DEF CheckLevel
    <3>7. Permits(claims)' = Permits(claims)
      BY <2>1, <3>3 DEF Permits
    <3>8. CASE at.check # "rules"
      <4>1. PastRules' => PastRules
        BY <1>0, <2>1, <3>8, PastMoves
      <4>2. at'.check # "rules"
        <5>1. at' = at \/ Passes
          BY <2>1 DEF Ends
        <5> QED  BY <1>0, <2>1, <2>6, <3>8, <5>1, NextChecks
             DEF Credential, CheckPlaced, GatewayChecks, RouteChecks
      <4> QED  BY <2>1, <2>2, <3>3, <3>4, <3>5, <3>6, <3>7, <4>1, <4>2 DEF ContextFresh
    <3>9. CASE at.check = "rules"
      <4>1. Authorize
        BY <3>2, <3>9 DEF Others, Transform, CheckCsrf, CheckCors, RateLimited, Modify, Answer
      <4>2. at.level = "route"
        BY <1>0, <3>9 DEF CheckPlaced, CheckLevel, GatewayChecks
      <4>3. claims \cap Asked \subseteq inContext
        BY <3>9, <4>2 DEF ContextFresh, PastAuthz
      <4>4. Permits(executor'.sees) <=> Permits(claims)
        <5>1. CASE Asked = {}
          BY <5>1 DEF Permits
        <5>2. CASE Asked # {}
          <6>1. executor' = Built
            BY <4>1, <5>2 DEF Authorize
          <6>2. executor'.sees = inContext
            BY <6>1 DEF Built, ContextFresh
          <6> QED  BY <1>0, <4>3, <6>2, RulesSee
        <5> QED  BY <5>1, <5>2
      <4>5. PastRules' => Passes
        BY <1>0, <2>1, <3>9, PastMoves DEF PastRules
      <4>6. Passes => at'.check # "rules" /\ outcome' # "refused"
        BY <1>0, <2>1, <3>9, NextChecks
      <4>7. /\ PastRules' => Permits(claims)'
            /\ outcome' = "refused" /\ at'.check = "rules" => ~Permits(claims)'
        BY <2>1, <3>7, <4>1, <4>4, <4>5, <4>6 DEF Authorize, Ends
      <4> QED  BY <2>1, <2>2, <3>3, <3>4, <3>5, <3>6, <4>7 DEF ContextFresh
    <3> QED  BY <3>8, <3>9
  <2> QED  BY <2>4, <2>5, <2>6
<1>4. CASE UNCHANGED checkVars
  BY <1>4 DEF checkVars, ContextFresh, PastAuthz, PastRules, Permits
<1> QED  BY <1>1, <1>2, <1>3, <1>4

(* The parts of a request change only where it is noted, but for a         *)
(* credential that is taken.                                               *)
LEMMA OnlyWritten ==
  ASSUME ChecksTyped, CheckNext
  PROVE  /\ \A l \in CheckLevel : wrote[l] \subseteq wrote'[l]
         /\ \A l \in CheckLevel : WrittenSince(l) \subseteq WrittenSince(l)'
         /\ "origin" \notin wrote'[at.level] => head'.origin = head.origin
         /\ "site" \notin wrote'[at.level] => head'.site = head.site
         /\ "auth" \notin wrote'[at.level] /\ ~(\E k \in Credential : Identify(k)) => head'.auth = head.auth
         /\ at.check \in {"csrf", "modifier", "cors", "answers", "end"} => head'.method = head.method
<1>0. /\ CheckPlaced /\ at.level \in CheckLevel /\ head \in RequestParts
      /\ wrote \in [CheckLevel -> SUBSET Parts]
      /\ policies \in [gateway : CheckSettings, route : CheckSettings]
  <2>1. DOMAIN head = Parts
    BY DEF ChecksTyped, CheckTypeOK, RequestParts, Parts
  <2> QED  BY <2>1 DEF ChecksTyped, CheckTypeOK, CheckPlaced
<1>1. CASE \E k \in Credential : Identify(k)
  BY <1>0, <1>1 DEF Identify, RequestParts, WrittenSince, Credential, AtCheck
<1>2. CASE UNCHANGED requestNow
  BY <1>2 DEF requestNow, WrittenSince
<1>3. CASE Rewrites \/ RewritesHeaders
  <2>1. /\ \A l \in CheckLevel : wrote[l] \subseteq wrote'[l]
        /\ \A f \in Parts : f \notin wrote'[at.level] => head'[f] = head[f]
    BY <1>0, <1>3, WritingIsTyped
  <2>2. \A l \in CheckLevel : WrittenSince(l) \subseteq WrittenSince(l)'
    BY <2>1 DEF WrittenSince, CheckLevel
  <2>3. at.check \in {"csrf", "modifier", "cors", "answers", "end"} => head'.method = head.method
    <3>1. ASSUME RewritesHeaders PROVE head'.method = head.method
      BY <1>0, <3>1 DEF RewritesHeaders, WritePatch, requestNow, RequestParts
    <3>2. ASSUME at.check \in {"csrf", "modifier", "cors", "answers", "end"},
                 ~RewritesHeaders
          PROVE  UNCHANGED requestNow
      <4>1. ASSUME NEW k \in Credential, Identify(k) \/ Disbelieve(k) \/ Anonymous(k) PROVE FALSE
        BY <3>2, <4>1 DEF Identify, Disbelieve, Anonymous, Credential, AtCheck
      <4>2. ~(\/ Authorized \/ Denied \/ Unavailable \/ NoServer \/ RouteSelected
              \/ Others \/ Transform \/ Authorize \/ RateLimited)
        BY <3>2 DEF Authorized, Denied, Unavailable, NoServer, RouteSelected, Others,
           Transform, Authorize, RateLimited, AtCheck
      <4>3. CheckCsrf \/ Modify \/ CheckCors \/ Answer
        BY <4>1, <4>2 DEF CheckNext
      <4> QED  BY <3>2, <4>3 DEF CheckCsrf, Modify, CheckCors, Answer, identity, requestNow
    <3> QED  BY <3>1, <3>2 DEF requestNow
  <2> QED  BY <2>1, <2>2, <2>3 DEF Parts
<1> QED
  <2>1. ASSUME ~(\E k \in Credential : Identify(k))
        PROVE  UNCHANGED requestNow \/ Rewrites \/ RewritesHeaders
    BY <2>1 DEF CheckNext, Disbelieve, Anonymous, Authorized, Denied, Unavailable, NoServer,
       RouteSelected, Others, Transform, CheckCsrf, CheckCors, Authorize, RateLimited, Modify,
       Answer, identity, requestNow
  <2> QED  BY <1>1, <1>2, <1>3, <2>1

(* A credential leaves the headers only where it was taken.                *)
LEMMA HeaderStep ==
  ASSUME ChecksTyped, HeaderKept, [CheckNext]_checkVars
  PROVE  HeaderKept'
<1> USE DEF AtCheck
<1>0. /\ CheckPlaced /\ at.level \in CheckLevel /\ head \in RequestParts
      /\ policies \in [gateway : CheckSettings, route : CheckSettings]
  BY DEF ChecksTyped, CheckPlaced, CheckTypeOK
<1>a. ASSUME CheckNext, policies' = policies, claims' \cap Credential = claims \cap Credential,
             ~(\E k \in Credential : Identify(k)),
             \A l \in CheckLevel, k \in Credential : PastCheck(l, k)' => PastCheck(l, k)
      PROVE  HeaderKept'
  <2>1. \A l \in CheckLevel : "auth" \notin WrittenSince(l)' => "auth" \notin WrittenSince(l)
    BY <1>a, OnlyWritten
  <2>2. ASSUME NEW l \in CheckLevel, "auth" \notin WrittenSince(l)', l = "gateway" \/ l = at.level
        PROVE  head'.auth = head.auth
    <3>1. "auth" \notin wrote'[at.level]
      BY <1>0, <2>2 DEF WrittenSince, CheckLevel
    <3> QED  BY <1>a, <3>1, OnlyWritten
  <2>3. \A l \in CheckLevel, k \in Credential : PastCheck(l, k) => l = "gateway" \/ l = at.level
    BY DEF PastCheck
  <2>4. "gateway" \in CheckLevel
    BY DEF CheckLevel
  <2>5. claims' \cap Credential # {} /\ "auth" \notin WrittenSince("gateway")' => head'.auth = "none"
    BY <1>a, <2>1, <2>2, <2>4 DEF HeaderKept
  <2>6. ASSUME NEW l \in CheckLevel, NEW k \in Credential, PastCheck(l, k)', "auth" \notin WrittenSince(l)'
        PROVE  /\ policies'[l][k] = "strict" => head'.auth = "none"
               /\ Presented(k)' => LetsThrough(l, k)'
    <3>1. PastCheck(l, k) /\ "auth" \notin WrittenSince(l) /\ head'.auth = head.auth
      BY <1>a, <2>1, <2>2, <2>3, <2>6
    <3>2. (Presented(k)' <=> Presented(k)) /\ (LetsThrough(l, k)' <=> LetsThrough(l, k))
      BY <1>a, <3>1 DEF Presented, LetsThrough
    <3> QED  BY <1>a, <3>1, <3>2 DEF HeaderKept
  <2> QED  BY <2>5, <2>6 DEF HeaderKept
<1>1. CASE RouteSelected
  <2>1. policies' = policies /\ claims' = claims /\ at.check = "register"
    BY <1>1 DEF RouteSelected, config
  <2>2. \A l \in CheckLevel, k \in Credential : PastCheck(l, k)' => PastCheck(l, k)
    BY <1>1, RouteIsNew DEF CheckLevel
  <2>3. ~(\E k \in Credential : Identify(k))
    BY <2>1 DEF Identify, Credential
  <2>4. CheckNext
    BY <1>1 DEF CheckNext
  <2> QED  BY <1>a, <2>1, <2>2, <2>3, <2>4
<1>2. CASE CheckNext /\ AtCheck("end")
  <2>1. Answer /\ Ends("forwarded")
    BY <1>2, EndForwards
  <2>2. UNCHANGED <<claims, at, policies>>
    BY <2>1 DEF Answer, Ends, identity, config
  <2>3. ~(\E k \in Credential : Identify(k))
    BY <1>2 DEF Identify, Credential
  <2>4. \A l \in CheckLevel, k \in Credential : PastCheck(l, k)' => PastCheck(l, k)
    BY <2>2 DEF PastCheck
  <2> QED  BY <1>2, <1>a, <2>2, <2>3, <2>4
<1>3. CASE CheckNext /\ ~RouteSelected /\ ~AtCheck("end")
  <2>1. /\ Passes \/ (\E o \in {"refused", "answered"} : Ends(o))
        /\ at.check \notin {"register", "end"} /\ outcome = "open"
        /\ policies' = policies /\ brought' = brought
    BY <1>3, ChecksMove DEF config
  <2>2. CASE \E k \in Credential : Identify(k)
    <3>1. head'.auth = "none"
      BY <1>0, <2>2 DEF Identify, RequestParts
    <3>2. \A k \in Credential : ~Presented(k)'
      BY <3>1 DEF Presented
    <3> QED  BY <3>1, <3>2 DEF HeaderKept
  <2>3. CASE \E k \in Credential : Disbelieve(k) \/ Anonymous(k)
    <3>1. PICK k \in Credential : Disbelieve(k) \/ Anonymous(k)
      BY <2>3
    <3>2. UNCHANGED <<head, wrote, claims>> /\ at.check = k
      BY <3>1 DEF Disbelieve, Anonymous, identity, requestNow
    <3>4. ASSUME Passes
          PROVE  policies[at.level][k] # "strict" /\ (Presented(k) => LetsThrough(at.level, k))
      <4>1. ~(\E o \in {"refused", "answered"} : Ends(o))
        BY <1>0, <2>1, <3>4, NextChecks DEF Ends
      <4>2. policies[at.level] \in CheckSettings
        BY <1>0 DEF CheckLevel
      <4>3. CASE Disbelieve(k)
        <5>1. policies[at.level][k] = "permissive"
          BY <4>1, <4>3 DEF Disbelieve, Policy
        <5> QED  BY <4>2, <5>1 DEF CheckSettings, Credential, LetsThrough
      <4>4. CASE Anonymous(k)
        <5>1. policies[at.level][k] # "strict" /\ (Presented(k) => policies[at.level][k] = "off")
          BY <4>1, <4>4 DEF Anonymous, Policy
        <5> QED  BY <5>1 DEF LetsThrough
      <4> QED  BY <3>1, <4>3, <4>4
    <3>5. ASSUME NEW l \in CheckLevel, NEW j \in Credential, PastCheck(l, j)', "auth" \notin WrittenSince(l)'
          PROVE  /\ policies'[l][j] = "strict" => head'.auth = "none"
                 /\ Presented(j)' => LetsThrough(l, j)'
      <4>1. /\ "auth" \notin WrittenSince(l)
            /\ (Presented(j)' <=> Presented(j)) /\ (LetsThrough(l, j)' <=> LetsThrough(l, j))
        BY <2>1, <3>2, <3>5 DEF WrittenSince, Presented, LetsThrough
      <4>2. PastCheck(l, j) \/ (l = at.level /\ j = k /\ Passes)
        BY <1>0, <2>1, <3>2, <3>5, PastMoves
      <4>3. CASE PastCheck(l, j)
        BY <2>1, <3>2, <4>1, <4>3 DEF HeaderKept
      <4>4. CASE l = at.level /\ j = k /\ Passes
        BY <2>1, <3>4, <4>1, <4>4
      <4> QED  BY <4>2, <4>3, <4>4
    <3>6. claims' \cap Credential # {} /\ "auth" \notin WrittenSince("gateway")' => head'.auth = "none"
      BY <3>2 DEF HeaderKept, WrittenSince
    <3> QED  BY <3>5, <3>6 DEF HeaderKept
  <2>4. CASE ~(\E k \in Credential : Identify(k) \/ Disbelieve(k) \/ Anonymous(k))
    <3>1. at.check \notin Credential
      BY <1>3, <2>4
      DEF CheckNext, Authorized, Denied, Unavailable, NoServer, Others, Transform, CheckCsrf,
         CheckCors, Authorize, RateLimited, Modify, Answer, Credential
    <3>2. claims' \cap Credential = claims \cap Credential
      BY <1>3, <2>4
      DEF CheckNext, Authorized, Denied, Unavailable, NoServer, Others, Transform, CheckCsrf,
         CheckCors, Authorize, RateLimited, Modify, Answer, identity, Credential
    <3>3. \A l \in CheckLevel, k \in Credential : PastCheck(l, k)' => PastCheck(l, k)
      BY <1>0, <2>1, <3>1, PastMoves
    <3> QED  BY <1>3, <1>a, <2>1, <2>4, <3>2, <3>3
  <2> QED  BY <2>2, <2>3, <2>4
<1>4. CASE UNCHANGED checkVars
  BY <1>4 DEF checkVars, HeaderKept, WrittenSince, Presented, LetsThrough, PastCheck
<1> QED  BY <1>1, <1>2, <1>3, <1>4

(* The origin is judged as it came, where nothing wrote it.                *)
LEMMA OriginStep ==
  ASSUME ChecksTyped, OriginJudged, [CheckNext]_checkVars
  PROVE  OriginJudged'
<1> USE DEF AtCheck
<1>0. CheckPlaced /\ at.level \in CheckLevel /\ head \in RequestParts
  BY DEF ChecksTyped, CheckPlaced, CheckTypeOK
<1>4. CASE UNCHANGED checkVars
  BY <1>4 DEF checkVars, OriginJudged, NotWritten, WrittenSince, FromHere, NameAllowed
<1>5. SUFFICES ASSUME CheckNext PROVE OriginJudged'
  BY <1>4
<1>6. policies' = policies /\ brought' = brought
  BY <1>5 DEF CheckNext, Identify, Disbelieve, Anonymous, Authorized, Denied, Unavailable, NoServer,
     RouteSelected, Others, Transform, CheckCsrf, CheckCors, Authorize, RateLimited, Modify,
     Answer, config
<1>7. /\ NotWritten("origin")' => NotWritten("origin") /\ head'.origin = head.origin
      /\ NotWritten("site")' => NotWritten("site") /\ head'.site = head.site
  <2>1. \A f \in {"origin", "site"} : NotWritten(f)' => f \notin wrote'[at.level] /\ NotWritten(f)
    BY <1>0, <1>5, OnlyWritten DEF NotWritten, WrittenSince, CheckLevel
  <2> QED  BY <1>5, <2>1, OnlyWritten
<1>8. /\ NotWritten("origin")' => head'.origin = brought'.origin
      /\ NotWritten("site")' => head'.site = brought'.site
  BY <1>6, <1>7 DEF OriginJudged
<1>9. (FromHere' <=> FromHere) /\ (NameAllowed' <=> NameAllowed)
  BY <1>6 DEF FromHere, NameAllowed
<1>10. at.check \in {"csrf", "modifier", "cors", "answers", "end"} => head'.method = head.method
  BY <1>5, OnlyWritten
<1>1. CASE RouteSelected
  <2>1. at' = [level |-> "route", check |-> "jwt"]
    BY <1>1, RouteIsNew
  <2>2. ~allowOrigin'
    BY <1>1, RouteIsNew DEF RouteSelected, later, OriginJudged
  <2> QED  BY <1>8, <2>1, <2>2 DEF OriginJudged
<1>2. CASE AtCheck("end")
  <2>1. Answer /\ Ends("forwarded")
    BY <1>2, <1>5, EndForwards
  <2>2. at' = at /\ allowOrigin' = allowOrigin /\ head'.method = head.method /\ outcome = "open"
    BY <1>2, <1>10, <2>1 DEF Answer, Ends, later
  <2>3. allowOrigin => head.method # "OPTIONS"
    BY <2>2 DEF OriginJudged
  <2> QED  BY <1>2, <1>6, <1>7, <1>8, <1>9, <2>2, <2>3 DEF OriginJudged
<1>3. CASE ~RouteSelected /\ ~AtCheck("end")
  <2>1. /\ Passes \/ (\E o \in {"refused", "answered"} : Ends(o))
        /\ at.check \notin {"register", "end"} /\ outcome = "open"
    BY <1>3, <1>5, ChecksMove
  <2>2. /\ at'.level = at.level
        /\ at'.check \in {"modifier", "cors", "answers", "end"} =>
             at.check \in {"modifier", "cors", "answers"} \/ (at.check = "csrf" /\ Passes)
        /\ at'.check \in {"cors", "answers", "end"} =>
             at.check \in {"cors", "answers"} \/ (at.check = "modifier" /\ Passes)
        /\ at.check \in {"cors", "answers"} => at'.check \in {"cors", "answers", "end"}
        /\ at.check = "answers" => at'.check # "cors"
        /\ at.check = "cors" /\ Passes => at'.check = "answers"
    <3>1. at' = at \/ Passes
      BY <2>1 DEF Ends
    <3> QED  BY <1>0, <2>1, <3>1, NextChecks DEF CheckPlaced, GatewayChecks, RouteChecks
  <2>3. at.check \in {"csrf", "modifier", "cors", "answers"} => at.level = "route"
    BY <1>0 DEF CheckPlaced, CheckLevel, GatewayChecks
  <2>4. ASSUME at.check = "csrf", Passes, policies["route"].csrf, head.method = "POST",
               NotWritten("origin"), NotWritten("site")
        PROVE  FromHere
    <3>1. CheckCsrf
      <4>1. ASSUME NEW k \in Credential, Identify(k) \/ Disbelieve(k) \/ Anonymous(k) PROVE FALSE
        BY <2>4, <4>1 DEF Identify, Disbelieve, Anonymous, Credential
      <4> QED  BY <1>5, <2>4, <4>1 DEF CheckNext, Authorized, Denied, Unavailable, NoServer,
               RouteSelected, Others, Transform, CheckCors, Authorize, RateLimited, Modify, Answer
    <3>2. CsrfVerdict \in {"pass", "refused", "answered"}
      BY <1>0 DEF CsrfVerdict, CheckMethod, Origin, Site, RequestParts
    <3>3. CsrfVerdict = "pass"
      <4>1. ~Ends(CsrfVerdict) \/ CsrfVerdict = "pass"
        BY <1>0, <2>1, <2>4, <3>2, NextChecks DEF Ends
      <4> QED  BY <2>3, <2>4, <3>1, <4>1 DEF CheckCsrf, Policy
    <3>4. head.origin = brought.origin /\ head.site = brought.site
      BY <2>4 DEF OriginJudged
    <3> QED  BY <1>0, <2>4, <3>3, <3>4
             DEF CsrfVerdict, FromHere, CheckMethod, Origin, Site, RequestParts
  <2>5. /\ at'.level = "route" /\ at'.check \in {"modifier", "cors", "answers", "end"}
        /\ policies'["route"].csrf /\ head'.method = "POST" /\ NotWritten("origin")' /\ NotWritten("site")'
        => FromHere'
    BY <1>6, <1>7, <1>9, <1>10, <2>2, <2>4 DEF OriginJudged
  <2>6. CASE CheckCors
    <3>1. /\ at.check = "cors" /\ allowOrigin' = CorsAllows
          /\ IF CorsAllows /\ head.method = "OPTIONS" THEN Ends("answered") ELSE Passes
      BY <2>6 DEF CheckCors
    <3>2. at.level = "route"
      BY <2>3, <3>1
    <3>3. CorsAllows /\ NotWritten("origin") => NameAllowed
      BY <3>2 DEF CorsAllows, Policy, OriginJudged, NameAllowed
    <3>4. at'.check = "cors" => outcome' # "open"
      BY <1>0, <2>1, <2>2, <3>1 DEF Ends
    <3>5. CorsAllows /\ head.method = "OPTIONS" => outcome' = "answered"
      BY <3>1 DEF Ends
    <3>6. allowOrigin' =>
            /\ at'.level = "route" /\ at'.check \in {"cors", "answers", "end"}
            /\ at'.check = "cors" => outcome' # "open"
            /\ head'.method = "OPTIONS" => outcome' = "answered"
            /\ NotWritten("origin")' => NameAllowed'
      BY <1>7, <1>9, <1>10, <2>2, <3>1, <3>2, <3>3, <3>4, <3>5
    <3> QED  BY <1>8, <2>5, <3>6 DEF OriginJudged
  <2>7. CASE ~CheckCors
    <3>1. allowOrigin' = allowOrigin
      BY <1>3, <1>5, <2>7 DEF CheckNext, Identify, Disbelieve, Anonymous, Authorized, Denied,
         Unavailable, NoServer, Others, Transform, CheckCsrf, Authorize, RateLimited, Modify,
         Answer, later
    <3>2. allowOrigin => head.method # "OPTIONS" /\ at.check = "answers"
      BY <1>3, <2>1 DEF OriginJudged
    <3>3. allowOrigin' =>
            /\ at'.level = "route" /\ at'.check \in {"cors", "answers", "end"}
            /\ at'.check = "cors" => outcome' # "open"
            /\ head'.method = "OPTIONS" => outcome' = "answered"
            /\ NotWritten("origin")' => NameAllowed'
      BY <1>7, <1>9, <1>10, <2>2, <2>3, <3>1, <3>2 DEF OriginJudged
    <3> QED  BY <1>8, <2>5, <3>3 DEF OriginJudged
  <2> QED  BY <2>6, <2>7
<1> QED  BY <1>1, <1>2, <1>3

(* A request that is forwarded passed every check of its gateway and its   *)
(* route, the rules judged all that was verified of the caller, and its    *)
(* credentials and its origin are what the checks left of them, unless a   *)
(* server or a transformation rewrote them (apply_gateway_policies,        *)
(* apply_request_policies).                                                *)
THEOREM ChecksStayConsistent == CheckSpec => []ChecksConsistent
<1>1. CheckInit /\ ChecksTyped => IdentityKept /\ ServersPassed /\ ContextFresh /\ HeaderKept /\ OriginJudged
  <2> SUFFICES ASSUME CheckInit, ChecksTyped
               PROVE  IdentityKept /\ ServersPassed /\ ContextFresh /\ HeaderKept /\ OriginJudged
    OBVIOUS
  <2>1. /\ \A l \in CheckLevel, k \in Credential : ~PastCheck(l, k)
        /\ \A l \in CheckLevel : ~PastAuthz(l) /\ asked[l] = "nobody"
        /\ ~PastRules /\ ~Forwarded /\ ~charged /\ claims = {} /\ head = brought
        /\ ~executor.built /\ ~allowOrigin /\ at.level = "gateway" /\ at.check = "jwt"
    BY DEF CheckInit, PastCheck, PastAuthz, PastRules, Forwarded, Pending, Credential,
       CheckLevel,
       NotBuilt
  <2>2. IdentityKept /\ ServersPassed /\ OriginJudged
    BY <2>1 DEF IdentityKept, ServersPassed, OriginJudged
  <2>3. ContextFresh
    BY <2>1 DEF ContextFresh, CheckLevel
  <2>4. HeaderKept
    BY <2>1 DEF HeaderKept, Credential
  <2> QED  BY <2>2, <2>3, <2>4
<1>2. ChecksTyped /\ IdentityKept /\ ServersPassed /\ ContextFresh /\ HeaderKept /\ OriginJudged
      /\ [CheckNext]_checkVars
      => (IdentityKept /\ ServersPassed /\ ContextFresh /\ HeaderKept /\ OriginJudged)'
  BY IdentityStep, ServersStep, ContextStep, HeaderStep, OriginStep
<1>3. ChecksTyped /\ IdentityKept /\ ServersPassed /\ ContextFresh /\ HeaderKept /\ OriginJudged
      => ChecksConsistent
  <2> SUFFICES ASSUME ChecksTyped, IdentityKept, ServersPassed, ContextFresh, HeaderKept, OriginJudged
               PROVE  ChecksConsistent
    OBVIOUS
  <2>1. PastRules => \A l \in CheckLevel, k \in Credential : PastCheck(l, k)
    <3>1. \A k \in Credential : Pending[k] \subseteq {"jwt", "basic", "key"}
      BY DEF Pending, Credential
    <3> QED  BY <3>1 DEF PastRules, PastCheck, CheckLevel
  <2>2. PastRules => \A l \in CheckLevel : PastAuthz(l)
    BY DEF PastRules, PastAuthz, CheckLevel
  <2>3. CheckTypeOK
    BY DEF ChecksTyped
  <2>4. StrictMeansVerified /\ ChargedWhenVerified
    BY <2>1 DEF StrictMeansVerified, ChargedWhenVerified, IdentityKept
  <2>5. CredentialsHandled
    <3>1. ASSUME Forwarded, NEW l \in CheckLevel, "auth" \notin WrittenSince(l)
          PROVE  /\ (\E k \in Credential : policies[l][k] = "strict") => head.auth = "none"
                 /\ \A k \in Credential : Presented(k) => LetsThrough(l, k)
      BY <2>1, <3>1 DEF HeaderKept, IdentityKept
    <3>2. Presented("key") <=> Presented("jwt")
      BY DEF Presented
    <3> QED  BY <3>1, <3>2 DEF CredentialsHandled, HeaderKept, Credential, LetsThrough
  <2>6. RulesJudgeTheCaller
    BY DEF RulesJudgeTheCaller, ContextFresh, IdentityKept
  <2>7. ServersAsked
    BY <2>2 DEF ServersAsked, ServersPassed, IdentityKept
  <2>8. OriginsKept
    BY DEF OriginsKept, OriginJudged, NotWritten, FromHere, NameAllowed, IdentityKept, PastRules
  <2> QED  BY <2>3, <2>4, <2>5, <2>6, <2>7, <2>8 DEF ChecksConsistent
<1> QED  BY <1>1, <1>2, <1>3, CheckTypes, PTL DEF CheckSpec

-----------------------------------------------------------------------------
(***************************************************************************)
(* The sessions of MCP clients, for any requests, replicas and relays.     *)
(***************************************************************************)

SessionActive == {"send", "sent", "pin", "finish", "refused", "drop"}

(* The request whose relay nobody else can get at. *)
Owner(c) ==
  \/ scall[c].kind \in {"stateless", "oneshot"}
  \/ scall[c].kind = "init" /\ scall[c].at \in SessionActive

(* Relays in use were made, and a request that acts has one. *)
RelaysMade ==
  /\ \A i \in SessionId : table[i] # 0 => relay[table[i]].made
  /\ \A r \in Relay : relay[r].made => relay[r].id \in SessionId
  /\ \A c \in SessionCall :
       /\ scall[c].relay # 0 => relay[scall[c].relay].made
       /\ scall[c].at \in SessionActive => scall[c].relay # 0

(* The relay of an upstream session is pinned to the replica that has it, *)
(* and the table has it under its id.                                     *)
SessionsHome ==
  /\ \A r \in Relay : relay[r].made /\ relay[r].id \in UpSession =>
       home[relay[r].id] # NoEndpoint /\ relay[r].pinned = home[relay[r].id]
  /\ \A i \in known \cap UpSession : home[i] # NoEndpoint
  /\ \A i \in SessionId : table[i] # 0 => relay[table[i]].id = i

(* A request acts on the relay of the id it came with, and has an endpoint *)
(* when it hears from one.                                                 *)
CallsPlaced ==
  \A c \in SessionCall :
    /\ scall[c].at = "idle" => goesTo[c] = NoEndpoint
    /\ scall[c].kind = "sse" => scall[c].id \notin UpSession
    /\ scall[c].at = "resume" =>
         /\ scall[c].id \in UpSession /\ home[scall[c].id] # NoEndpoint
         /\ scall[c].kind \in {"use", "again"}
    /\ scall[c].at \in SessionActive /\ scall[c].id \in UpSession =>
         relay[scall[c].relay].id = scall[c].id
    /\ scall[c].at \in {"sent", "pin", "finish"} => goesTo[c] # NoEndpoint
    /\ scall[c].at = "pin" => relay[scall[c].relay].id \notin UpSession

(* A relay that is not in the table yet, or never will be, has one user,   *)
(* and is pinned to where that user has been.                              *)
RelaysOwned ==
  \A c \in SessionCall : Owner(c) =>
    /\ scall[c].relay # 0 /\ relay[scall[c].relay].id \notin UpSession
    /\ \A i \in SessionId : table[i] # scall[c].relay
    /\ \A d \in SessionCall \ {c} : scall[d].relay # scall[c].relay
    /\ scall[c].at \in {"sent", "pin"} => relay[scall[c].relay].pinned \in {NoEndpoint, goesTo[c]}
    /\ scall[c].at = "finish" \/ scall[c].kind = "oneshot" =>
         goesTo[c] # NoEndpoint /\ relay[scall[c].relay].pinned = goesTo[c]

SessionInvariant ==
  /\ SessionTypeOK /\ RelaysMade /\ SessionsHome /\ CallsPlaced /\ RelaysOwned
  /\ GoesHome /\ NothingLeftBehind

CallAt == {"idle", "resume", "send", "sent", "pin", "finish", "refused", "drop", "done", "left"}
CallRecord ==
  [at : CallAt, relay : 0 .. MaxRelays, kind : CallKinds, id : SessionId \cup {NoUp}]
RelayRecord ==
  [up : UpSession \cup {NoUp}, pinned : Endpoint \cup {NoEndpoint}, made : BOOLEAN,
   id : SessionId \cup {NoUp}]

(* A request written is a request.                                         *)
LEMMA CallTypes ==
  ASSUME scall \in [SessionCall -> CallRecord], NEW c \in SessionCall
  PROVE  /\ \A s \in CallAt : SCallAt(c, s) => scall' \in [SessionCall -> CallRecord]
         /\ \A s \in CallAt, r \in 0 .. MaxRelays, kind \in CallKinds, i \in SessionId \cup {NoUp} :
              SCall(c, s, r, kind, i) => scall' \in [SessionCall -> CallRecord]
<1>1. ASSUME NEW s \in CallAt, SCallAt(c, s) PROVE scall' \in [SessionCall -> CallRecord]
  <2>1. [scall[c] EXCEPT !.at = s] \in CallRecord
    BY DEF CallRecord
  <2>2. scall' = [scall EXCEPT ![c] = [scall[c] EXCEPT !.at = s]]
    BY <1>1 DEF SCallAt
  <2> QED  BY <2>1, <2>2
<1>2. ASSUME NEW s \in CallAt, NEW r \in 0 .. MaxRelays, NEW kind \in CallKinds,
             NEW i \in SessionId \cup {NoUp}, SCall(c, s, r, kind, i)
      PROVE  scall' \in [SessionCall -> CallRecord]
  <2>1. [at |-> s, relay |-> r, kind |-> kind, id |-> i] \in CallRecord
    BY DEF CallRecord
  <2> QED  BY <1>2, <2>1 DEF SCall
<1> QED  BY <1>1, <1>2

(* A relay written is a relay.                                             *)
LEMMA RelayTypes ==
  ASSUME relay \in [Relay -> RelayRecord], NEW r \in Relay,
         NEW x \in UpSession \cup {NoUp}, NEW i \in SessionId, NEW e \in Endpoint \cup {NoEndpoint}
  PROVE  /\ relay' = [relay EXCEPT ![r] = [@ EXCEPT !.made = TRUE, !.id = i]] => relay' \in [Relay -> RelayRecord]
         /\ relay' = [relay EXCEPT ![r] = [@ EXCEPT !.id = i, !.up = x]] => relay' \in [Relay -> RelayRecord]
         /\ relay' = [relay EXCEPT ![r].up = x] => relay' \in [Relay -> RelayRecord]
         /\ relay' = [relay EXCEPT ![r].pinned = e] => relay' \in [Relay -> RelayRecord]
<1> DEFINE Put(v) == [relay EXCEPT ![r] = v]
<1>1. \A v \in RelayRecord : Put(v) \in [Relay -> RelayRecord]
  OBVIOUS
<1>2. /\ [relay[r] EXCEPT !.made = TRUE, !.id = i] \in RelayRecord
      /\ [relay[r] EXCEPT !.id = i, !.up = x] \in RelayRecord
      /\ [relay[r] EXCEPT !.up = x] \in RelayRecord
      /\ [relay[r] EXCEPT !.pinned = e] \in RelayRecord
  BY DEF RelayRecord
<1>3. ASSUME relay' = [relay EXCEPT ![r] = [@ EXCEPT !.made = TRUE, !.id = i]] PROVE relay' \in [Relay -> RelayRecord]
  <2>1. relay' = Put([relay[r] EXCEPT !.made = TRUE, !.id = i])
    BY <1>3
  <2> QED  BY <1>1, <1>2, <2>1
<1>4. ASSUME relay' = [relay EXCEPT ![r] = [@ EXCEPT !.id = i, !.up = x]] PROVE relay' \in [Relay -> RelayRecord]
  <2>1. relay' = Put([relay[r] EXCEPT !.id = i, !.up = x])
    BY <1>4
  <2> QED  BY <1>1, <1>2, <2>1
<1>5. ASSUME relay' = [relay EXCEPT ![r].up = x] PROVE relay' \in [Relay -> RelayRecord]
  <2>1. relay' = Put([relay[r] EXCEPT !.up = x])
    BY <1>5
  <2> QED  BY <1>1, <1>2, <2>1
<1>6. ASSUME relay' = [relay EXCEPT ![r].pinned = e] PROVE relay' \in [Relay -> RelayRecord]
  <2>1. relay' = Put([relay[r] EXCEPT !.pinned = e])
    BY <1>6
  <2> QED  BY <1>1, <1>2, <2>1
<1> QED  BY <1>3, <1>4, <1>5, <1>6

(* What is made when a client comes with no session. *)
LEMMA NewMade ==
  ASSUME Unmade # {}, UnusedIds # {}
  PROVE  LET r == CHOOSE q \in Unmade : TRUE
             i == CHOOSE q \in UnusedIds : TRUE
         IN  r \in Relay /\ ~relay[r].made /\ i \in RandomId
BY DEF Unmade, UnusedIds

(* Every step keeps the types.                                             *)
LEMMA TypeStep ==
  ASSUME SessionTypeOK, RelaysMade, CallsPlaced, [SessionNext]_sessionVars
  PROVE  SessionTypeOK'
<1> DEFINE Rest == /\ table \in [SessionId -> 0 .. MaxRelays]
                   /\ goesTo \in [SessionCall -> Endpoint \cup {NoEndpoint}]
                   /\ home \in [UpSession -> Endpoint \cup {NoEndpoint}]
                   /\ over \subseteq UpSession /\ known \subseteq SessionId /\ sseOpen \subseteq Relay
           Calls == scall \in [SessionCall -> CallRecord]
           Relays == relay \in [Relay -> RelayRecord]
<1>a. SessionTypeOK <=> Rest /\ Calls /\ Relays
  BY DEF SessionTypeOK, CallRecord, RelayRecord, CallAt
<1>b. SessionTypeOK' <=> Rest' /\ Calls' /\ Relays'
  BY DEF SessionTypeOK, CallRecord, RelayRecord, CallAt
<1>0. /\ Rest /\ Calls /\ Relays
      /\ \A c \in SessionCall : /\ scall[c].relay \in 0 .. MaxRelays /\ scall[c].id \in SessionId \cup {NoUp}
                                /\ scall[c].kind \in CallKinds
                                /\ scall[c].at \in SessionActive =>
                                     scall[c].relay \in Relay /\ relay[scall[c].relay].id \in SessionId
      /\ \A r \in Relay : relay[r].up \in UpSession \cup {NoUp} /\ (relay[r].made => relay[r].id \in SessionId)
      /\ UpSession \cup RandomId = SessionId /\ Relay \subseteq 0 .. MaxRelays
      /\ 0 \in 0 .. MaxRelays /\ MaxRelays \in Nat
      /\ \A c \in SessionCall : scall[c].relay # 0 => relay[scall[c].relay].made
  <2>1. /\ \A c \in SessionCall : scall[c].at \in SessionActive => scall[c].relay # 0
        /\ \A r \in Relay : relay[r].made => relay[r].id \in SessionId
        /\ \A c \in SessionCall : scall[c].relay # 0 => relay[scall[c].relay].made
    BY DEF RelaysMade
  <2>2. /\ \A c \in SessionCall : /\ scall[c].relay \in 0 .. MaxRelays /\ scall[c].id \in SessionId \cup {NoUp}
                                  /\ scall[c].kind \in CallKinds
        /\ \A r \in Relay : relay[r].up \in UpSession \cup {NoUp}
    BY DEF SessionTypeOK
  <2>3. MaxRelays \in Nat \ {0}
    BY SessionAssumption
  <2>4. /\ UpSession \cup RandomId = SessionId /\ Relay \subseteq 0 .. MaxRelays
        /\ 0 \in 0 .. MaxRelays /\ MaxRelays \in Nat
        /\ \A r \in 0 .. MaxRelays : r # 0 => r \in Relay
    BY <2>3 DEF SessionId, Relay
  <2>5. \A c \in SessionCall : scall[c].at \in SessionActive =>
          scall[c].relay \in Relay /\ relay[scall[c].relay].id \in SessionId
    BY <2>1, <2>2, <2>4
  <2> HIDE DEF Rest, Calls, Relays
  <2> QED  BY <1>a, <2>1, <2>2, <2>4, <2>5
<1>1. ASSUME NEW c \in SessionCall, NEW kind \in {"init", "stateless"}, NewSession(c, kind)
      PROVE  SessionTypeOK'
  <2>1. PICK r \in Relay, i \in RandomId :
          relay' = [relay EXCEPT ![r] = [@ EXCEPT !.made = TRUE, !.id = i]] /\ SCall(c, "send", r, kind, i)
    BY <1>1, NewMade DEF NewSession
  <2>2. Calls'
    BY <1>0, <2>1, CallTypes DEF CallAt, CallKinds
  <2>3. Relays'
    BY <1>0, <2>1, RelayTypes
  <2> QED  BY <1>0, <1>1, <1>b, <2>2, <2>3 DEF NewSession
<1>2. ASSUME NEW c \in SessionCall, NEW i \in SessionId, NEW kind \in {"use", "again"},
             UseSession(c, i, kind)
      PROVE  SessionTypeOK'
  <2>1. \E s \in CallAt, r \in 0 .. MaxRelays : SCall(c, s, r, kind, i)
    BY <1>0, <1>2 DEF UseSession, CallAt
  <2>2. Calls'
    BY <1>0, <2>1, CallTypes DEF CallKinds
  <2> QED  BY <1>0, <1>2, <1>b, <2>2 DEF UseSession
<1>3. ASSUME NEW c \in SessionCall, Resume(c) PROVE SessionTypeOK'
  <2>1. CASE SCallAt(c, "done") /\ UNCHANGED <<relay, table>>
    <3>1. Calls'
      BY <1>0, <2>1, CallTypes DEF CallAt
    <3> QED  BY <1>0, <1>3, <1>b, <2>1, <3>1 DEF Resume
  <2>2. CASE Unmade # {} /\ ~(SCallAt(c, "done") /\ UNCHANGED <<relay, table>>)
    <3> DEFINE r == CHOOSE q \in Unmade : TRUE
               i == scall[c].id
    <3>1. r \in Relay
      BY <2>2 DEF Unmade
    <3>2. /\ relay' = [relay EXCEPT ![r] = [up |-> i, pinned |-> home[i], made |-> TRUE, id |-> i]]
          /\ table' = [table EXCEPT ![i] = r] /\ SCall(c, "send", r, scall[c].kind, i)
      BY <1>3, <2>2 DEF Resume
    <3>3. i \in UpSession
      BY <1>3 DEF Resume, CallsPlaced
    <3> HIDE DEF r, i
    <3>4. [up |-> i, pinned |-> home[i], made |-> TRUE, id |-> i] \in RelayRecord
      BY <1>0, <3>3 DEF RelayRecord
    <3>5. Relays'
      BY <1>0, <3>1, <3>2, <3>4
    <3>6. Calls'
      BY <1>0, <3>1, <3>2, <3>3, CallTypes DEF CallAt
    <3> QED  BY <1>0, <1>3, <1>b, <3>1, <3>2, <3>5, <3>6 DEF Resume
  <2> QED  BY <1>3, <2>1, <2>2 DEF Resume
<1>4. ASSUME NEW c \in SessionCall, NEW s \in CallAt, SCallAt(c, s), UNCHANGED <<table, home, known>>,
             goesTo' \in [SessionCall -> Endpoint \cup {NoEndpoint}], over' \subseteq UpSession,
             sseOpen' \subseteq Relay, Relays'
      PROVE  SessionTypeOK'
  <2>1. Calls'
    BY <1>0, <1>4, CallTypes
  <2> QED  BY <1>0, <1>4, <1>b, <2>1
<1> HIDE DEF Calls, Relays
<1>5. ASSUME NEW c \in SessionCall, NEW e \in Endpoint, SendUp(c, e)
      PROVE  SessionTypeOK'
  <2>1. goesTo' \in [SessionCall -> Endpoint \cup {NoEndpoint}]
    BY <1>0, <1>5 DEF SendUp
  <2> QED  BY <1>0, <1>4, <1>5, <2>1 DEF SendUp, CallAt, Relays
<1>6. ASSUME NEW c \in SessionCall, UpFails(c) \/ FinishUse(c) \/ FinishStateless(c) \/ UpAnswers(c) \/ ClientLeaves(c)
      PROVE  SessionTypeOK'
  BY <1>0, <1>4, <1>6 DEF UpFails, ClientLeaves, FinishUse, FinishStateless, UpAnswers, CallAt, Relays
<1>7. ASSUME NEW c \in SessionCall, Pin(c) PROVE SessionTypeOK'
  <2>1. /\ scall[c].relay \in Relay /\ goesTo[c] \in Endpoint \cup {NoEndpoint}
        /\ relay' = [relay EXCEPT ![scall[c].relay].pinned = goesTo[c]]
    BY <1>0, <1>7 DEF Pin, SessionActive
  <2>2. PICK i : i \in SessionId
    BY <1>0, <1>7 DEF Pin, SessionActive
  <2>3. Relays'
    BY ZenonT(60), <1>0, <2>1, <2>2, RelayTypes DEF Relays
  <2> QED  BY <1>0, <1>4, <1>7, <2>3 DEF Pin, CallAt
<1>8. ASSUME NEW c \in SessionCall, NEW x \in UpSession \cup {NoUp}, FinishInit(c, x)
      PROVE  SessionTypeOK'
  <2> DEFINE r == scall[c].relay
             i == IF x # NoUp THEN x ELSE relay[r].id
  <2>1. r \in Relay /\ i \in SessionId
    BY <1>0, <1>8 DEF FinishInit, SessionActive
  <2>2. /\ table' = [table EXCEPT ![i] = r] /\ known' = known \cup {i}
        /\ relay' = [relay EXCEPT ![r] = [@ EXCEPT !.id = i, !.up = x]]
        /\ home' = [y \in UpSession |-> IF y = x THEN goesTo[c] ELSE home[y]]
        /\ SCallAt(c, "done") /\ UNCHANGED <<goesTo, over, sseOpen>>
    BY <1>8 DEF FinishInit
  <2> HIDE DEF r, i
  <2>3. Relays'
    BY <1>0, <2>1, <2>2, RelayTypes DEF Relays
  <2>4. Calls'
    BY <1>0, <2>2, CallTypes DEF Calls, CallAt
  <2> QED  BY <1>0, <1>b, <2>1, <2>2, <2>3, <2>4
<1>9. ASSUME NEW c \in SessionCall, NEW x \in UpSession \cup {NoUp},
             FinishAgain(c, x) \/ InitializedStateless(c, x)
      PROVE  SessionTypeOK'
  <2>1. /\ scall[c].at \in {"finish", "refused"}
        /\ relay' = relay \/ relay' = [relay EXCEPT ![scall[c].relay].up = x]
        /\ home' = [y \in UpSession |-> IF y = x THEN goesTo[c] ELSE home[y]]
        /\ UNCHANGED <<table, goesTo, over, known, sseOpen>>
    BY <1>9 DEF FinishAgain, InitializedStateless
  <2>2. scall[c].relay \in Relay
    BY <1>0, <2>1 DEF SessionActive
  <2>3. Relays'
    <3>1. PICK i : i \in SessionId
      BY <1>0, <2>1 DEF SessionActive
    <3> QED  BY <1>0, <2>1, <2>2, <3>1, RelayTypes DEF Relays
  <2>4. Calls'
    <3>1. CASE SCallAt(c, "done")
      BY <1>0, <3>1, CallTypes DEF Calls, CallAt
    <3>2. CASE scall' = [scall EXCEPT ![c] = [@ EXCEPT !.kind = "oneshot", !.at = "send"]]
      <4>1. [scall[c] EXCEPT !.kind = "oneshot", !.at = "send"] \in CallRecord
        <5>1. scall[c] \in CallRecord
          BY <1>0 DEF Calls
        <5> QED  BY <5>1 DEF CallRecord, CallAt, CallKinds
      <4>2. scall' = [scall EXCEPT ![c] = [scall[c] EXCEPT !.kind = "oneshot", !.at = "send"]]
        BY <3>2
      <4> QED  BY <1>0, <4>1, <4>2 DEF Calls
    <3> QED  BY <1>9, <3>1, <3>2 DEF FinishAgain, InitializedStateless
  <2> QED  BY <1>0, <1>b, <2>1, <2>3, <2>4
<1>10. ASSUME NEW c \in SessionCall, NEW i \in SessionId, DeleteSession(c, i)
       PROVE  SessionTypeOK'
  <2>1. Calls'
    BY <1>0, <1>10, CallTypes DEF Calls, CallAt, CallKinds, DeleteSession
  <2> QED  BY <1>0, <1>10, <1>b, <2>1 DEF DeleteSession, Relays
<1>11. ASSUME NEW c \in SessionCall, TellUpstream(c) PROVE SessionTypeOK'
  <2>1. over' \subseteq UpSession
    BY <1>0, <1>11 DEF TellUpstream, SessionActive
  <2> QED  BY <1>0, <1>4, <1>11, <2>1 DEF TellUpstream, CallAt, Relays
<1>12. ASSUME NEW c \in SessionCall, OpenLegacy(c) PROVE SessionTypeOK'
  <2>1. PICK r \in Relay, i \in RandomId :
          /\ relay' = [relay EXCEPT ![r] = [@ EXCEPT !.made = TRUE, !.id = i]] /\ SCall(c, "done", r, "sse", i)
          /\ table' = [table EXCEPT ![i] = r] /\ known' = known \cup {i}
          /\ sseOpen' = sseOpen \cup {r}
    BY <1>12, NewMade DEF OpenLegacy
  <2>2. Calls'
    BY <1>0, <2>1, CallTypes DEF CallAt, CallKinds, Calls
  <2>3. Relays'
    BY <1>0, <2>1, RelayTypes DEF Relays
  <2> QED  BY <1>0, <1>12, <1>b, <2>1, <2>2, <2>3 DEF OpenLegacy
<1>13. ASSUME NEW c \in SessionCall, CloseLegacy(c) PROVE SessionTypeOK'
  <2>1. Calls'
    BY <1>0, <1>13, CallTypes DEF CloseLegacy, Calls, CallAt
  <2> QED  BY <1>0, <1>13, <1>b, <2>1 DEF CloseLegacy, Relays
<1>14. ASSUME RestartGateway PROVE SessionTypeOK'
  <2>1. [RestingCall EXCEPT !.at = "done"] \in CallRecord
    BY <1>0 DEF RestingCall, CallRecord, CallAt, CallKinds
  <2>2. Calls'
    BY <1>0, <1>14, <2>1 DEF RestartGateway, Calls
  <2> QED  BY <1>0, <1>14, <1>b, <2>2 DEF RestartGateway, Relays
<1>15. ASSUME NEW c \in SessionCall, NextCall(c) PROVE SessionTypeOK'
  <2>1. RestingCall \in CallRecord
    BY <1>0 DEF RestingCall, CallRecord, CallAt, CallKinds
  <2>2. Calls'
    BY <1>0, <1>15, <2>1 DEF NextCall, Calls
  <2> QED  BY <1>0, <1>15, <1>b, <2>2 DEF NextCall, Relays
<1>16. CASE UNCHANGED sessionVars
  BY <1>0, <1>16, <1>b DEF sessionVars, Calls, Relays
<1> QED
  BY <1>1, <1>2, <1>3, <1>5, <1>6, <1>7, <1>8, <1>9, <1>10, <1>11, <1>12, <1>13, <1>14, <1>15,
     <1>16
  DEF SessionNext, CallProgress

(* The shapes of the steps that write a whole request or a whole relay. *)
Written(c, s, r, kind, i) ==
  /\ scall'[c].at = s /\ scall'[c].relay = r /\ scall'[c].kind = kind /\ scall'[c].id = i
  /\ \A d \in SessionCall \ {c} : scall'[d] = scall[d]

MadeWith(r, i) ==
  /\ r \in Relay /\ ~relay[r].made
  /\ relay'[r].made /\ relay'[r].id = i
  /\ \A q \in Relay \ {r} : relay'[q] = relay[q]

PutUnder(i, r) == table'[i] = r /\ \A j \in SessionId \ {i} : table'[j] = table[j]

(* SCall writes all of its request and no other.                           *)
LEMMA CallWritten ==
  ASSUME SessionTypeOK, NEW c \in SessionCall, NEW s, NEW r, NEW kind, NEW i, SCall(c, s, r, kind, i)
  PROVE  Written(c, s, r, kind, i)
BY DEF SessionTypeOK, SCall, Written

(* A new session: a relay nobody has, under a random id.                   *)
LEMMA NewShape ==
  ASSUME SessionTypeOK, NEW c \in SessionCall, NEW kind, NewSession(c, kind)
  PROVE  /\ scall[c].at = "idle" /\ UNCHANGED <<table, goesTo, home, over, known, sseOpen>>
         /\ \E r \in Relay, i \in RandomId :
              /\ MadeWith(r, i) /\ relay'[r].pinned = relay[r].pinned
              /\ Written(c, "send", r, kind, i)
<1>1. PICK r \in Relay, i \in RandomId :
        /\ ~relay[r].made
        /\ relay' = [relay EXCEPT ![r] = [@ EXCEPT !.made = TRUE, !.id = i]] /\ SCall(c, "send", r, kind, i)
  BY NewMade DEF NewSession
<1>2. MadeWith(r, i) /\ relay'[r].pinned = relay[r].pinned
  BY <1>1 DEF SessionTypeOK, MadeWith
<1>3. Written(c, "send", r, kind, i)
  BY <1>1, CallWritten
<1> QED  BY <1>2, <1>3 DEF NewSession

(* A legacy session: the same, in the table at once.                       *)
LEMMA OpenShape ==
  ASSUME SessionTypeOK, NEW c \in SessionCall, OpenLegacy(c)
  PROVE  /\ scall[c].at = "idle" /\ UNCHANGED <<goesTo, home, over>>
         /\ \E r \in Relay, i \in RandomId :
              /\ MadeWith(r, i) /\ relay'[r].pinned = relay[r].pinned /\ PutUnder(i, r)
              /\ known' = known \cup {i} /\ Written(c, "done", r, "sse", i)
<1>1. PICK r \in Relay, i \in RandomId :
        /\ ~relay[r].made
        /\ relay' = [relay EXCEPT ![r] = [@ EXCEPT !.made = TRUE, !.id = i]] /\ SCall(c, "done", r, "sse", i)
        /\ table' = [table EXCEPT ![i] = r] /\ known' = known \cup {i}
  BY NewMade DEF OpenLegacy
<1>2. MadeWith(r, i) /\ relay'[r].pinned = relay[r].pinned /\ PutUnder(i, r)
  BY <1>1 DEF SessionTypeOK, MadeWith, PutUnder, SessionId
<1>3. Written(c, "done", r, "sse", i)
  BY <1>1, CallWritten
<1> QED  BY <1>1, <1>2, <1>3 DEF OpenLegacy

(* A request with an id finds its relay, resumes it or is refused.         *)
LEMMA UseShape ==
  ASSUME SessionTypeOK, NEW c \in SessionCall, NEW i \in SessionId, NEW kind, UseSession(c, i, kind)
  PROVE  /\ scall[c].at = "idle" /\ i \in known
         /\ UNCHANGED <<table, relay, goesTo, home, over, known, sseOpen>>
         /\ \/ table[i] # 0 /\ Written(c, "send", table[i], kind, i)
            \/ i \in UpSession /\ Written(c, "resume", 0, kind, i)
            \/ Written(c, "done", 0, kind, i)
<1>1. CASE table[i] # 0
  BY <1>1, CallWritten DEF UseSession
<1>2. CASE table[i] = 0 /\ i \in UpSession
  BY <1>2, CallWritten DEF UseSession
<1>3. CASE table[i] = 0 /\ i \notin UpSession
  BY <1>3, CallWritten DEF UseSession
<1> QED  BY <1>1, <1>2, <1>3

(* A resumed relay is pinned to the replica of its id.                     *)
LEMMA ResumeShape ==
  ASSUME SessionTypeOK, CallsPlaced, NEW c \in SessionCall, Resume(c)
  PROVE  /\ scall[c].at = "resume" /\ UNCHANGED <<goesTo, home, over, known, sseOpen>>
         /\ scall[c].id \in UpSession /\ home[scall[c].id] # NoEndpoint
         /\ scall[c].kind \in {"use", "again"}
         /\ \/ SCallAt(c, "done") /\ UNCHANGED <<relay, table>>
            \/ \E r \in Relay : /\ MadeWith(r, scall[c].id) /\ relay'[r].pinned = home[scall[c].id]
                                /\ PutUnder(scall[c].id, r)
                                /\ Written(c, "send", r, scall[c].kind, scall[c].id)
<1>1. /\ scall[c].at = "resume" /\ UNCHANGED <<goesTo, home, over, known, sseOpen>>
      /\ scall[c].id \in UpSession /\ home[scall[c].id] # NoEndpoint
      /\ scall[c].kind \in {"use", "again"}
  BY DEF Resume, CallsPlaced
<1>2. CASE Unmade # {} /\ ~(SCallAt(c, "done") /\ UNCHANGED <<relay, table>>)
  <2> DEFINE r == CHOOSE q \in Unmade : TRUE
             i == scall[c].id
  <2>1. r \in Relay /\ ~relay[r].made
    BY <1>2 DEF Unmade
  <2>2. /\ relay' = [relay EXCEPT ![r] = [up |-> i, pinned |-> home[i], made |-> TRUE, id |-> i]]
        /\ table' = [table EXCEPT ![i] = r] /\ SCall(c, "send", r, scall[c].kind, i)
    BY <1>2 DEF Resume
  <2>3. i \in UpSession
    BY <1>1
  <2> HIDE DEF r
  <2>4. MadeWith(r, i) /\ relay'[r].pinned = home[i] /\ PutUnder(i, r)
    BY <2>1, <2>2, <2>3 DEF SessionTypeOK, MadeWith, PutUnder, SessionId
  <2>5. Written(c, "send", r, scall[c].kind, i)
    BY <2>2, CallWritten
  <2> QED  BY <1>1, <2>1, <2>4, <2>5
<1>3. CASE SCallAt(c, "done") /\ UNCHANGED <<relay, table>>
  BY <1>1, <1>3
<1> QED  BY <1>2, <1>3 DEF Resume

(* Where relays, the table and the requests point. *)
Pointing ==
  /\ \A i \in SessionId : table[i] # 0 => table[i] \in Relay /\ relay[table[i]].made
  /\ \A d \in SessionCall : scall[d].relay # 0 => scall[d].relay \in Relay /\ relay[scall[d].relay].made
  /\ \A d \in SessionCall : scall[d].at \in SessionActive => scall[d].relay # 0
  /\ \A r \in Relay : relay[r].made => relay[r].id \in SessionId
  /\ \A i \in RandomId : i \in SessionId /\ i \notin UpSession
  /\ UpSession \subseteq SessionId /\ known \subseteq SessionId /\ 0 \notin Relay

(* The types and RelaysMade say where everything points.                   *)
LEMMA PointingHolds ==
  ASSUME SessionTypeOK, RelaysMade
  PROVE  Pointing
<1>1. MaxRelays \in Nat
  BY SessionAssumption
<1>2. \A r \in 0 .. MaxRelays : r # 0 => r \in Relay
  BY <1>1 DEF Relay
<1>3. /\ \A i \in SessionId : table[i] \in 0 .. MaxRelays
      /\ \A d \in SessionCall : scall[d].relay \in 0 .. MaxRelays
      /\ known \subseteq SessionId
  BY DEF SessionTypeOK
<1>4. /\ \A i \in RandomId : i \in SessionId /\ i \notin UpSession
      /\ UpSession \subseteq SessionId
  BY SessionAssumption DEF SessionId
<1>5. 0 \notin Relay
  BY DEF Relay
<1> QED  BY <1>2, <1>3, <1>4, <1>5 DEF RelaysMade, Pointing

(* The initialize of a stateless request writes its own relay.             *)
LEMMA StatelessShape ==
  ASSUME SessionTypeOK, Pointing, NEW c \in SessionCall, NEW x \in UpSession \cup {NoUp},
         InitializedStateless(c, x)
  PROVE  LET r == scall[c].relay
         IN  /\ scall[c].kind = "stateless" /\ scall[c].at = "finish" /\ r \in Relay
             /\ Written(c, "send", r, "oneshot", scall[c].id)
             /\ x = NoUp \/ (x \in UpSession /\ home[x] = NoEndpoint)
             /\ relay'[r].up = x /\ relay'[r].pinned = relay[r].pinned
             /\ relay'[r].made = relay[r].made /\ relay'[r].id = relay[r].id
             /\ \A q \in Relay \ {r} : relay'[q] = relay[q]
             /\ \A y \in UpSession : home'[y] = IF y = x THEN goesTo[c] ELSE home[y]
             /\ UNCHANGED <<table, goesTo, over, known, sseOpen>>
<1> DEFINE r == scall[c].relay
<1>1. /\ scall[c].kind = "stateless" /\ scall[c].at = "finish" /\ r \in Relay
      /\ x = NoUp \/ (x \in UpSession /\ home[x] = NoEndpoint)
      /\ UNCHANGED <<table, goesTo, over, known, sseOpen>>
  BY DEF InitializedStateless, Given, Pointing, SessionActive
<1>2. Written(c, "send", r, "oneshot", scall[c].id)
  <2> DEFINE d == [scall[c] EXCEPT !.kind = "oneshot", !.at = "send"]
  <2>1. d.at = "send" /\ d.relay = r /\ d.kind = "oneshot" /\ d.id = scall[c].id
    BY DEF SessionTypeOK
  <2>2. scall' = [scall EXCEPT ![c] = d]
    BY DEF InitializedStateless
  <2> HIDE DEF d
  <2> QED  BY <2>1, <2>2 DEF SessionTypeOK, Written
<1>3. /\ relay'[r].up = x /\ relay'[r].pinned = relay[r].pinned
      /\ relay'[r].made = relay[r].made /\ relay'[r].id = relay[r].id
      /\ \A q \in Relay \ {r} : relay'[q] = relay[q]
  BY <1>1 DEF InitializedStateless, SessionTypeOK
<1>4. \A y \in UpSession : home'[y] = IF y = x THEN goesTo[c] ELSE home[y]
  BY DEF InitializedStateless
<1> QED  BY <1>1, <1>2, <1>3, <1>4

(* Relays in use were made, after every step.                              *)
LEMMA MadeStep ==
  ASSUME SessionTypeOK, RelaysMade, CallsPlaced, [SessionNext]_sessionVars
  PROVE  RelaysMade'
<1>a. Pointing
  BY PointingHolds
<1>1. ASSUME NEW c \in SessionCall, NEW kind \in {"init", "stateless"}, NewSession(c, kind)
      PROVE  RelaysMade'
  <2>1. PICK r \in Relay, i \in RandomId :
          /\ MadeWith(r, i) /\ relay'[r].pinned = relay[r].pinned /\ Written(c, "send", r, kind, i)
          /\ scall[c].at = "idle" /\ UNCHANGED <<table, goesTo, home, over, known, sseOpen>>
    BY <1>1, NewShape
  <2> QED  BY <1>a, <2>1 DEF Pointing, Written, MadeWith, RelaysMade
<1>2. ASSUME NEW c \in SessionCall, NEW i \in SessionId, NEW kind \in {"use", "again"}, UseSession(c, i, kind)
      PROVE  RelaysMade'
  <2>1. /\ scall[c].at = "idle" /\ i \in known
        /\ UNCHANGED <<table, relay, goesTo, home, over, known, sseOpen>>
        /\ \/ table[i] # 0 /\ Written(c, "send", table[i], kind, i)
           \/ i \in UpSession /\ Written(c, "resume", 0, kind, i)
           \/ Written(c, "done", 0, kind, i)
    BY <1>2, UseShape
  <2>2. CASE table[i] # 0 /\ Written(c, "send", table[i], kind, i)
    BY <2>1, <2>2 DEF Written, RelaysMade
  <2>3. CASE i \in UpSession /\ Written(c, "resume", 0, kind, i)
    BY <2>1, <2>3 DEF Written, RelaysMade, SessionActive
  <2>4. CASE Written(c, "done", 0, kind, i)
    BY <2>1, <2>4 DEF Written, RelaysMade, SessionActive
  <2> QED  BY <2>1, <2>2, <2>3, <2>4
<1>3. ASSUME NEW c \in SessionCall, Resume(c) PROVE RelaysMade'
  <2>1. /\ scall[c].at = "resume" /\ UNCHANGED <<goesTo, home, over, known, sseOpen>>
        /\ scall[c].id \in UpSession /\ home[scall[c].id] # NoEndpoint
        /\ scall[c].kind \in {"use", "again"}
        /\ \/ SCallAt(c, "done") /\ UNCHANGED <<relay, table>>
           \/ \E r \in Relay : /\ MadeWith(r, scall[c].id) /\ relay'[r].pinned = home[scall[c].id]
                               /\ PutUnder(scall[c].id, r)
                               /\ Written(c, "send", r, scall[c].kind, scall[c].id)
    BY <1>3, ResumeShape
  <2>2. CASE SCallAt(c, "done") /\ UNCHANGED <<relay, table>>
    BY <2>1, <2>2 DEF SCallAt, RelaysMade, SessionActive
  <2>3. ASSUME NEW r \in Relay, MadeWith(r, scall[c].id), relay'[r].pinned = home[scall[c].id],
               PutUnder(scall[c].id, r), Written(c, "send", r, scall[c].kind, scall[c].id)
        PROVE  RelaysMade'
    BY <1>a, <2>1, <2>3 DEF Pointing, Written, MadeWith, PutUnder, RelaysMade
  <2> QED  BY <2>1, <2>2, <2>3
<1>4. ASSUME NEW c \in SessionCall, NEW e \in Endpoint, SendUp(c, e)
      PROVE  RelaysMade'
  BY <1>4 DEF SendUp, SCallAt, RelaysMade, SessionActive
<1>5. ASSUME NEW c \in SessionCall, UpFails(c) \/ ClientLeaves(c) PROVE RelaysMade'
  <2>1. CASE UpFails(c)
    BY <2>1 DEF UpFails, SCallAt, RelaysMade, SessionActive
  <2>2. CASE ClientLeaves(c)
    BY <2>2 DEF ClientLeaves, SCallAt, RelaysMade, SessionActive
  <2> QED  BY <1>5, <2>1, <2>2
<1>6. ASSUME NEW c \in SessionCall, FinishUse(c) PROVE RelaysMade'
  BY <1>6 DEF FinishUse, SCallAt, RelaysMade, SessionActive
<1>7. ASSUME NEW c \in SessionCall, FinishStateless(c) PROVE RelaysMade'
  BY <1>7 DEF FinishStateless, SCallAt, RelaysMade, SessionActive
<1>8. ASSUME NEW c \in SessionCall, UpAnswers(c) PROVE RelaysMade'
  BY <1>8 DEF UpAnswers, SCallAt, RelaysMade, SessionActive
<1>9. ASSUME NEW c \in SessionCall, Pin(c) PROVE RelaysMade'
  BY <1>9 DEF Pin, SCallAt, RelaysMade, SessionActive
<1>10. ASSUME NEW c \in SessionCall, NEW x \in UpSession \cup {NoUp}, FinishInit(c, x)
       PROVE  RelaysMade'
  BY <1>10, SessionAssumption
  DEF FinishInit, SCallAt, Given, Relay, SessionId, SessionTypeOK, RelaysMade, SessionActive
<1>11. ASSUME NEW c \in SessionCall, NEW x \in UpSession \cup {NoUp}, FinishAgain(c, x)
       PROVE  RelaysMade'
  BY <1>11 DEF FinishAgain, SCallAt, RelaysMade, SessionActive
<1>12. ASSUME NEW c \in SessionCall, NEW x \in UpSession \cup {NoUp}, InitializedStateless(c, x)
       PROVE  RelaysMade'
  BY <1>a, <1>12, StatelessShape, SessionAssumption
  DEF Pointing, Written, RelaysMade, SessionActive
<1>13. ASSUME NEW c \in SessionCall, NEW i \in SessionId, DeleteSession(c, i)
       PROVE  RelaysMade'
  BY <1>13 DEF DeleteSession, SCall, RelaysMade
<1>14. ASSUME NEW c \in SessionCall, TellUpstream(c) PROVE RelaysMade'
  BY <1>14 DEF TellUpstream, SCallAt, RelaysMade, SessionActive
<1>15. ASSUME NEW c \in SessionCall, OpenLegacy(c) PROVE RelaysMade'
  <2>1. PICK r \in Relay, i \in RandomId :
          /\ MadeWith(r, i) /\ relay'[r].pinned = relay[r].pinned /\ PutUnder(i, r)
          /\ known' = known \cup {i} /\ Written(c, "done", r, "sse", i)
          /\ scall[c].at = "idle" /\ UNCHANGED <<goesTo, home, over>>
    BY <1>15, OpenShape
  <2> QED  BY <1>a, <2>1 DEF Pointing, Written, MadeWith, PutUnder, RelaysMade
<1>16. ASSUME NEW c \in SessionCall, CloseLegacy(c) PROVE RelaysMade'
  BY <1>16 DEF CloseLegacy, SCallAt, Relay, SessionTypeOK, RelaysMade
<1>17. ASSUME RestartGateway PROVE RelaysMade'
  BY <1>17 DEF RestartGateway, RestingCall, RelaysMade, SessionActive
<1>18. ASSUME NEW c \in SessionCall, NextCall(c) PROVE RelaysMade'
  BY <1>18 DEF NextCall, RestingCall, RelaysMade, SessionActive
<1>19. ASSUME UNCHANGED sessionVars PROVE RelaysMade'
  BY <1>19 DEF sessionVars, RelaysMade
<1> QED  BY <1>1, <1>2, <1>3, <1>4, <1>5, <1>6, <1>7, <1>8, <1>9, <1>10, <1>11, <1>12, <1>13,
            <1>14, <1>15, <1>16, <1>17, <1>18, <1>19
         DEF SessionNext, CallProgress

(* The relay of an upstream session reaches its replica, after every step. *)
LEMMA HomeStep ==
  ASSUME SessionTypeOK, RelaysMade, SessionsHome, CallsPlaced, RelaysOwned, [SessionNext]_sessionVars
  PROVE  SessionsHome'
<1>a. Pointing
  BY PointingHolds
<1>1. ASSUME NEW c \in SessionCall, NEW kind \in {"init", "stateless"}, NewSession(c, kind)
      PROVE  SessionsHome'
  <2>1. PICK r \in Relay, i \in RandomId :
          /\ MadeWith(r, i) /\ relay'[r].pinned = relay[r].pinned /\ Written(c, "send", r, kind, i)
          /\ scall[c].at = "idle" /\ UNCHANGED <<table, goesTo, home, over, known, sseOpen>>
    BY <1>1, NewShape
  <2> QED  BY <1>a, <2>1 DEF Pointing, MadeWith, SessionsHome
<1>2. ASSUME NEW c \in SessionCall, NEW i \in SessionId, NEW kind \in {"use", "again"}, UseSession(c, i, kind)
      PROVE  SessionsHome'
  <2>1. /\ scall[c].at = "idle" /\ i \in known
        /\ UNCHANGED <<table, relay, goesTo, home, over, known, sseOpen>>
        /\ \/ table[i] # 0 /\ Written(c, "send", table[i], kind, i)
           \/ i \in UpSession /\ Written(c, "resume", 0, kind, i)
           \/ Written(c, "done", 0, kind, i)
    BY <1>2, UseShape
  <2>2. CASE table[i] # 0 /\ Written(c, "send", table[i], kind, i)
    BY <2>1, <2>2 DEF SessionsHome
  <2>3. CASE i \in UpSession /\ Written(c, "resume", 0, kind, i)
    BY <2>1, <2>3 DEF SessionsHome
  <2>4. CASE Written(c, "done", 0, kind, i)
    BY <2>1, <2>4 DEF SessionsHome
  <2> QED  BY <2>1, <2>2, <2>3, <2>4
<1>3. ASSUME NEW c \in SessionCall, Resume(c) PROVE SessionsHome'
  <2>1. /\ scall[c].at = "resume" /\ UNCHANGED <<goesTo, home, over, known, sseOpen>>
        /\ scall[c].id \in UpSession /\ home[scall[c].id] # NoEndpoint
        /\ scall[c].kind \in {"use", "again"}
        /\ \/ SCallAt(c, "done") /\ UNCHANGED <<relay, table>>
           \/ \E r \in Relay : /\ MadeWith(r, scall[c].id) /\ relay'[r].pinned = home[scall[c].id]
                               /\ PutUnder(scall[c].id, r)
                               /\ Written(c, "send", r, scall[c].kind, scall[c].id)
    BY <1>3, ResumeShape
  <2>2. CASE SCallAt(c, "done") /\ UNCHANGED <<relay, table>>
    BY <2>1, <2>2 DEF SessionsHome
  <2>3. ASSUME NEW r \in Relay, MadeWith(r, scall[c].id), relay'[r].pinned = home[scall[c].id],
               PutUnder(scall[c].id, r), Written(c, "send", r, scall[c].kind, scall[c].id)
        PROVE  SessionsHome'
    BY <1>a, <2>1, <2>3 DEF Pointing, MadeWith, PutUnder, SessionsHome
  <2> QED  BY <2>1, <2>2, <2>3
<1>4. ASSUME NEW c \in SessionCall, NEW e \in Endpoint, SendUp(c, e)
      PROVE  SessionsHome'
  BY <1>4 DEF SendUp, SessionsHome
<1>5. ASSUME NEW c \in SessionCall, UpFails(c) \/ ClientLeaves(c) PROVE SessionsHome'
  BY <1>5 DEF UpFails, ClientLeaves, SessionsHome
<1>6. ASSUME NEW c \in SessionCall, FinishUse(c) PROVE SessionsHome'
  BY <1>6 DEF FinishUse, SessionsHome
<1>7. ASSUME NEW c \in SessionCall, FinishStateless(c) PROVE SessionsHome'
  BY <1>7 DEF FinishStateless, SessionsHome
<1>8. ASSUME NEW c \in SessionCall, UpAnswers(c) PROVE SessionsHome'
  BY <1>8 DEF UpAnswers, SessionsHome
<1>9. ASSUME NEW c \in SessionCall, Pin(c) PROVE SessionsHome'
  BY <1>9 DEF Pin, SessionsHome, CallsPlaced
<1>10. ASSUME NEW c \in SessionCall, NEW x \in UpSession \cup {NoUp}, FinishInit(c, x)
       PROVE  SessionsHome'
  <2> DEFINE r == scall[c].relay
             i == IF x # NoUp THEN x ELSE relay[r].id
  <2>1. /\ r \in Relay /\ relay[r].made /\ relay[r].id \notin UpSession
        /\ \A j \in SessionId : table[j] # r
        /\ scall[c].at = "finish" => goesTo[c] # NoEndpoint /\ relay[r].pinned = goesTo[c]
        /\ scall[c].at \in {"finish", "refused"}
    BY <1>a, <1>10 DEF FinishInit, Pointing, RelaysOwned, Owner, SessionActive
  <2>2. /\ x = NoUp \/ (x \in UpSession /\ home[x] = NoEndpoint /\ scall[c].at = "finish")
        /\ NoUp \notin UpSession /\ i \in SessionId
    BY <1>a, <1>10, <2>1, SessionAssumption DEF FinishInit, Given, Pointing
  <2>3. /\ PutUnder(i, r) /\ known' = known \cup {i}
        /\ relay'[r].id = i /\ relay'[r].pinned = relay[r].pinned
        /\ \A q \in Relay \ {r} : relay'[q] = relay[q]
        /\ \A y \in UpSession : home'[y] = IF y = x THEN goesTo[c] ELSE home[y]
    BY <1>10, <2>1, <2>2 DEF FinishInit, SessionTypeOK, PutUnder
  <2> HIDE DEF r
  <2>4. CASE x = NoUp
    BY <1>a, <2>1, <2>2, <2>3, <2>4 DEF Pointing, PutUnder, SessionsHome
  <2>5. CASE x \in UpSession /\ home[x] = NoEndpoint /\ scall[c].at = "finish"
    BY <1>a, <2>1, <2>2, <2>3, <2>5 DEF Pointing, PutUnder, SessionsHome
  <2> QED  BY <2>2, <2>4, <2>5
<1>11. ASSUME NEW c \in SessionCall, NEW x \in UpSession \cup {NoUp}, FinishAgain(c, x)
       PROVE  SessionsHome'
  BY <1>11, SessionAssumption DEF FinishAgain, Given, SessionsHome
<1>12. ASSUME NEW c \in SessionCall, NEW x \in UpSession \cup {NoUp}, InitializedStateless(c, x)
       PROVE  SessionsHome'
  BY <1>a, <1>12, StatelessShape, SessionAssumption
  DEF Pointing, Written, SessionsHome, CallsPlaced, RelaysOwned, Owner, SessionActive
<1>13. ASSUME NEW c \in SessionCall, NEW i \in SessionId, DeleteSession(c, i)
       PROVE  SessionsHome'
  BY <1>13 DEF DeleteSession, SessionsHome
<1>14. ASSUME NEW c \in SessionCall, TellUpstream(c) PROVE SessionsHome'
  BY <1>14 DEF TellUpstream, SessionsHome
<1>15. ASSUME NEW c \in SessionCall, OpenLegacy(c) PROVE SessionsHome'
  <2>1. PICK r \in Relay, i \in RandomId :
          /\ MadeWith(r, i) /\ relay'[r].pinned = relay[r].pinned /\ PutUnder(i, r)
          /\ known' = known \cup {i} /\ Written(c, "done", r, "sse", i)
          /\ scall[c].at = "idle" /\ UNCHANGED <<goesTo, home, over>>
    BY <1>15, OpenShape
  <2> QED  BY <1>a, <2>1 DEF Pointing, MadeWith, PutUnder, SessionsHome
<1>16. ASSUME NEW c \in SessionCall, CloseLegacy(c) PROVE SessionsHome'
  BY <1>16 DEF CloseLegacy, SessionsHome
<1>17. ASSUME RestartGateway PROVE SessionsHome'
  BY <1>17 DEF RestartGateway, SessionsHome
<1>18. ASSUME NEW c \in SessionCall, NextCall(c) PROVE SessionsHome'
  BY <1>18 DEF NextCall, SessionsHome
<1>19. ASSUME UNCHANGED sessionVars PROVE SessionsHome'
  BY <1>19 DEF sessionVars, SessionsHome
<1> QED  BY <1>1, <1>2, <1>3, <1>4, <1>5, <1>6, <1>7, <1>8, <1>9, <1>10, <1>11, <1>12, <1>13,
            <1>14, <1>15, <1>16, <1>17, <1>18, <1>19
         DEF SessionNext, CallProgress

(* A request acts on the relay of its id, after every step.                *)
LEMMA PlaceStep ==
  ASSUME SessionTypeOK, RelaysMade, SessionsHome, CallsPlaced, RelaysOwned, [SessionNext]_sessionVars
  PROVE  CallsPlaced'
<1>a. Pointing
  BY PointingHolds
<1>1. ASSUME NEW c \in SessionCall, NEW kind \in {"init", "stateless"}, NewSession(c, kind)
      PROVE  CallsPlaced'
  <2>1. PICK r \in Relay, i \in RandomId :
          /\ MadeWith(r, i) /\ relay'[r].pinned = relay[r].pinned /\ Written(c, "send", r, kind, i)
          /\ scall[c].at = "idle" /\ UNCHANGED <<table, goesTo, home, over, known, sseOpen>>
    BY <1>1, NewShape
  <2> QED  BY <1>a, <2>1 DEF Pointing, Written, MadeWith, CallsPlaced, SessionActive
<1>2. ASSUME NEW c \in SessionCall, NEW i \in SessionId, NEW kind \in {"use", "again"}, UseSession(c, i, kind)
      PROVE  CallsPlaced'
  <2>1. /\ scall[c].at = "idle" /\ i \in known
        /\ UNCHANGED <<table, relay, goesTo, home, over, known, sseOpen>>
        /\ \/ table[i] # 0 /\ Written(c, "send", table[i], kind, i)
           \/ i \in UpSession /\ Written(c, "resume", 0, kind, i)
           \/ Written(c, "done", 0, kind, i)
    BY <1>2, UseShape
  <2>2. CASE table[i] # 0 /\ Written(c, "send", table[i], kind, i)
    BY <2>1, <2>2 DEF Written, SessionsHome, CallsPlaced
  <2>3. CASE i \in UpSession /\ Written(c, "resume", 0, kind, i)
    BY <2>1, <2>3 DEF Written, SessionsHome, CallsPlaced, SessionActive
  <2>4. CASE Written(c, "done", 0, kind, i)
    BY <2>1, <2>4 DEF Written, CallsPlaced, SessionActive
  <2> QED  BY <2>1, <2>2, <2>3, <2>4
<1>3. ASSUME NEW c \in SessionCall, Resume(c) PROVE CallsPlaced'
  <2>1. /\ scall[c].at = "resume" /\ UNCHANGED <<goesTo, home, over, known, sseOpen>>
        /\ scall[c].id \in UpSession /\ home[scall[c].id] # NoEndpoint
        /\ scall[c].kind \in {"use", "again"}
        /\ \/ SCallAt(c, "done") /\ UNCHANGED <<relay, table>>
           \/ \E r \in Relay : /\ MadeWith(r, scall[c].id) /\ relay'[r].pinned = home[scall[c].id]
                               /\ PutUnder(scall[c].id, r)
                               /\ Written(c, "send", r, scall[c].kind, scall[c].id)
    BY <1>3, ResumeShape
  <2>2. CASE SCallAt(c, "done") /\ UNCHANGED <<relay, table>>
    BY <2>1, <2>2 DEF SCallAt, CallsPlaced, SessionActive
  <2>3. ASSUME NEW r \in Relay, MadeWith(r, scall[c].id), relay'[r].pinned = home[scall[c].id],
               PutUnder(scall[c].id, r), Written(c, "send", r, scall[c].kind, scall[c].id)
        PROVE  CallsPlaced'
    BY <1>a, <2>1, <2>3 DEF Pointing, Written, MadeWith, CallsPlaced, SessionActive
  <2> QED  BY <2>1, <2>2, <2>3
<1>4. ASSUME NEW c \in SessionCall, NEW e \in Endpoint, SendUp(c, e)
      PROVE  CallsPlaced'
  BY <1>4, SessionAssumption DEF SendUp, SCallAt, SessionTypeOK, CallsPlaced, SessionActive
<1>5. ASSUME NEW c \in SessionCall, UpFails(c) \/ ClientLeaves(c) PROVE CallsPlaced'
  <2>1. CASE UpFails(c)
    BY <2>1 DEF UpFails, SCallAt, CallsPlaced, SessionActive
  <2>2. CASE ClientLeaves(c)
    BY <2>2 DEF ClientLeaves, SCallAt, CallsPlaced, SessionActive
  <2> QED  BY <1>5, <2>1, <2>2
<1>6. ASSUME NEW c \in SessionCall, FinishUse(c) PROVE CallsPlaced'
  BY <1>6 DEF FinishUse, SCallAt, CallsPlaced, SessionActive
<1>7. ASSUME NEW c \in SessionCall, FinishStateless(c) PROVE CallsPlaced'
  BY <1>7 DEF FinishStateless, SCallAt, CallsPlaced, SessionActive
<1>8. ASSUME NEW c \in SessionCall, UpAnswers(c) PROVE CallsPlaced'
  BY <1>8
  DEF UpAnswers, SCallAt, Relay, SessionTypeOK, SessionsHome, CallsPlaced, RelaysMade,
      SessionActive
<1>9. ASSUME NEW c \in SessionCall, Pin(c) PROVE CallsPlaced'
  BY <1>9 DEF Pin, SCallAt, CallsPlaced, SessionActive
<1>10. ASSUME NEW c \in SessionCall, NEW x \in UpSession \cup {NoUp}, FinishInit(c, x)
       PROVE  CallsPlaced'
  BY <1>10, SessionAssumption
  DEF FinishInit, SCallAt, Given, Relay, SessionTypeOK, CallsPlaced, RelaysMade, RelaysOwned,
      Owner, SessionActive
<1>11. ASSUME NEW c \in SessionCall, NEW x \in UpSession \cup {NoUp}, FinishAgain(c, x)
       PROVE  CallsPlaced'
  BY <1>11, SessionAssumption DEF FinishAgain, SCallAt, Given, CallsPlaced, SessionActive
<1>12. ASSUME NEW c \in SessionCall, NEW x \in UpSession \cup {NoUp}, InitializedStateless(c, x)
       PROVE  CallsPlaced'
  BY <1>a, <1>12, StatelessShape, SessionAssumption
  DEF Pointing, Written, CallsPlaced, RelaysOwned, Owner, SessionActive
<1>13. ASSUME NEW c \in SessionCall, NEW i \in SessionId, DeleteSession(c, i)
       PROVE  CallsPlaced'
  BY <1>13 DEF DeleteSession, SCall, SessionsHome, CallsPlaced
<1>14. ASSUME NEW c \in SessionCall, TellUpstream(c) PROVE CallsPlaced'
  BY <1>14 DEF TellUpstream, SCallAt, CallsPlaced, SessionActive
<1>15. ASSUME NEW c \in SessionCall, OpenLegacy(c) PROVE CallsPlaced'
  <2>1. PICK r \in Relay, i \in RandomId :
          /\ MadeWith(r, i) /\ relay'[r].pinned = relay[r].pinned /\ PutUnder(i, r)
          /\ known' = known \cup {i} /\ Written(c, "done", r, "sse", i)
          /\ scall[c].at = "idle" /\ UNCHANGED <<goesTo, home, over>>
    BY <1>15, OpenShape
  <2> QED  BY <1>a, <2>1 DEF Pointing, Written, MadeWith, CallsPlaced, SessionActive
<1>16. ASSUME NEW c \in SessionCall, CloseLegacy(c) PROVE CallsPlaced'
  BY <1>16 DEF CloseLegacy, SCallAt, CallsPlaced
<1>17. ASSUME RestartGateway PROVE CallsPlaced'
  BY <1>17 DEF RestartGateway, RestingCall, CallsPlaced, SessionActive
<1>18. ASSUME NEW c \in SessionCall, NextCall(c) PROVE CallsPlaced'
  BY <1>18 DEF NextCall, RestingCall, SessionTypeOK, CallsPlaced, SessionActive
<1>19. ASSUME UNCHANGED sessionVars PROVE CallsPlaced'
  BY <1>19 DEF sessionVars, CallsPlaced
<1> QED  BY <1>1, <1>2, <1>3, <1>4, <1>5, <1>6, <1>7, <1>8, <1>9, <1>10, <1>11, <1>12, <1>13,
            <1>14, <1>15, <1>16, <1>17, <1>18, <1>19
         DEF SessionNext, CallProgress

(* A relay outside of the table has one user, after every step.            *)
LEMMA OwnStep ==
  ASSUME SessionTypeOK, RelaysMade, SessionsHome, CallsPlaced, RelaysOwned, [SessionNext]_sessionVars
  PROVE  RelaysOwned'
<1>a. Pointing
  BY PointingHolds
<1>1. ASSUME NEW c \in SessionCall, NEW kind \in {"init", "stateless"}, NewSession(c, kind)
      PROVE  RelaysOwned'
  <2>1. PICK r \in Relay, i \in RandomId :
          /\ MadeWith(r, i) /\ relay'[r].pinned = relay[r].pinned /\ Written(c, "send", r, kind, i)
          /\ scall[c].at = "idle" /\ UNCHANGED <<table, goesTo, home, over, known, sseOpen>>
    BY <1>1, NewShape
  <2> QED  BY <1>a, <2>1 DEF Pointing, Written, MadeWith, RelaysOwned, Owner
<1>2. ASSUME NEW c \in SessionCall, NEW i \in SessionId, NEW kind \in {"use", "again"}, UseSession(c, i, kind)
      PROVE  RelaysOwned'
  <2>1. /\ scall[c].at = "idle" /\ i \in known
        /\ UNCHANGED <<table, relay, goesTo, home, over, known, sseOpen>>
        /\ \/ table[i] # 0 /\ Written(c, "send", table[i], kind, i)
           \/ i \in UpSession /\ Written(c, "resume", 0, kind, i)
           \/ Written(c, "done", 0, kind, i)
    BY <1>2, UseShape
  <2>2. CASE table[i] # 0 /\ Written(c, "send", table[i], kind, i)
    BY <2>1, <2>2 DEF Written, RelaysOwned, Owner
  <2>3. CASE i \in UpSession /\ Written(c, "resume", 0, kind, i)
    BY <2>1, <2>3 DEF Written, RelaysOwned, Owner
  <2>4. CASE Written(c, "done", 0, kind, i)
    BY <2>1, <2>4 DEF Written, RelaysOwned, Owner
  <2> QED  BY <2>1, <2>2, <2>3, <2>4
<1>3. ASSUME NEW c \in SessionCall, Resume(c) PROVE RelaysOwned'
  <2>1. /\ scall[c].at = "resume" /\ UNCHANGED <<goesTo, home, over, known, sseOpen>>
        /\ scall[c].id \in UpSession /\ home[scall[c].id] # NoEndpoint
        /\ scall[c].kind \in {"use", "again"}
        /\ \/ SCallAt(c, "done") /\ UNCHANGED <<relay, table>>
           \/ \E r \in Relay : /\ MadeWith(r, scall[c].id) /\ relay'[r].pinned = home[scall[c].id]
                               /\ PutUnder(scall[c].id, r)
                               /\ Written(c, "send", r, scall[c].kind, scall[c].id)
    BY <1>3, ResumeShape
  <2>2. CASE SCallAt(c, "done") /\ UNCHANGED <<relay, table>>
    BY <2>1, <2>2 DEF SCallAt, RelaysOwned, Owner
  <2>3. ASSUME NEW r \in Relay, MadeWith(r, scall[c].id), relay'[r].pinned = home[scall[c].id],
               PutUnder(scall[c].id, r), Written(c, "send", r, scall[c].kind, scall[c].id)
        PROVE  RelaysOwned'
    BY <1>a, <2>1, <2>3 DEF Pointing, Written, MadeWith, PutUnder, RelaysOwned, Owner
  <2> QED  BY <2>1, <2>2, <2>3
<1>4. ASSUME NEW c \in SessionCall, NEW e \in Endpoint, SendUp(c, e)
      PROVE  RelaysOwned'
  BY <1>4 DEF SendUp, SCallAt, SessionTypeOK, RelaysOwned, Owner, SessionActive
<1>5. ASSUME NEW c \in SessionCall, UpFails(c) \/ ClientLeaves(c) PROVE RelaysOwned'
  <2>1. CASE UpFails(c)
    BY <2>1 DEF UpFails, SCallAt, RelaysOwned, Owner, SessionActive
  <2>2. CASE ClientLeaves(c)
    BY <2>2 DEF ClientLeaves, SCallAt, RelaysOwned, Owner, SessionActive
  <2> QED  BY <1>5, <2>1, <2>2
<1>6. ASSUME NEW c \in SessionCall, FinishUse(c) PROVE RelaysOwned'
  BY <1>6 DEF FinishUse, SCallAt, RelaysOwned, Owner
<1>7. ASSUME NEW c \in SessionCall, FinishStateless(c) PROVE RelaysOwned'
  BY <1>7 DEF FinishStateless, SCallAt, RelaysOwned, Owner
<1>8. ASSUME NEW c \in SessionCall, UpAnswers(c) PROVE RelaysOwned'
  BY <1>8 DEF UpAnswers, SCallAt, RelaysOwned, Owner, SessionActive
<1>9. ASSUME NEW c \in SessionCall, Pin(c) PROVE RelaysOwned'
  BY <1>9 DEF Pin, SCallAt, Relay, SessionTypeOK, CallsPlaced, RelaysOwned, Owner, SessionActive
<1>10. ASSUME NEW c \in SessionCall, NEW x \in UpSession \cup {NoUp}, FinishInit(c, x)
       PROVE  RelaysOwned'
  BY <1>10, SessionAssumption
  DEF FinishInit, SCallAt, Given, Relay, SessionId, SessionTypeOK, CallsPlaced, RelaysMade,
      RelaysOwned, Owner, SessionActive
<1>11. ASSUME NEW c \in SessionCall, NEW x \in UpSession \cup {NoUp}, FinishAgain(c, x)
       PROVE  RelaysOwned'
  BY <1>11 DEF FinishAgain, SCallAt, RelaysOwned, Owner
<1>12. ASSUME NEW c \in SessionCall, NEW x \in UpSession \cup {NoUp}, InitializedStateless(c, x)
       PROVE  RelaysOwned'
  BY <1>a, <1>12, StatelessShape, SessionAssumption
  DEF Pointing, Written, RelaysOwned, CallsPlaced, Owner, SessionActive
<1>13. ASSUME NEW c \in SessionCall, NEW i \in SessionId, DeleteSession(c, i)
       PROVE  RelaysOwned'
  BY <1>13 DEF DeleteSession, SCall, RelaysOwned, Owner
<1>14. ASSUME NEW c \in SessionCall, TellUpstream(c) PROVE RelaysOwned'
  BY <1>14 DEF TellUpstream, SCallAt, RelaysOwned, Owner, SessionActive
<1>15. ASSUME NEW c \in SessionCall, OpenLegacy(c) PROVE RelaysOwned'
  <2>1. PICK r \in Relay, i \in RandomId :
          /\ MadeWith(r, i) /\ relay'[r].pinned = relay[r].pinned /\ PutUnder(i, r)
          /\ known' = known \cup {i} /\ Written(c, "done", r, "sse", i)
          /\ scall[c].at = "idle" /\ UNCHANGED <<goesTo, home, over>>
    BY <1>15, OpenShape
  <2> QED  BY <1>a, <2>1 DEF Pointing, Written, MadeWith, PutUnder, RelaysOwned, Owner
<1>16. ASSUME NEW c \in SessionCall, CloseLegacy(c) PROVE RelaysOwned'
  BY <1>16 DEF CloseLegacy, SCallAt, RelaysOwned, Owner
<1>17. ASSUME RestartGateway PROVE RelaysOwned'
  BY <1>17 DEF RestartGateway, RestingCall, RelaysOwned, Owner
<1>18. ASSUME NEW c \in SessionCall, NextCall(c) PROVE RelaysOwned'
  BY <1>18 DEF NextCall, RestingCall, SessionTypeOK, RelaysOwned, Owner
<1>19. ASSUME UNCHANGED sessionVars PROVE RelaysOwned'
  BY <1>19 DEF sessionVars, RelaysOwned, Owner
<1> QED  BY <1>1, <1>2, <1>3, <1>4, <1>5, <1>6, <1>7, <1>8, <1>9, <1>10, <1>11, <1>12, <1>13,
            <1>14, <1>15, <1>16, <1>17, <1>18, <1>19
         DEF SessionNext, CallProgress

(* A request goes to the replica that has its session, after every step.   *)
LEMMA GoStep ==
  ASSUME SessionTypeOK, RelaysMade, SessionsHome, CallsPlaced, RelaysOwned, GoesHome, [SessionNext]_sessionVars
  PROVE  GoesHome'
<1>a. Pointing
  BY PointingHolds
<1>1. ASSUME NEW c \in SessionCall, NEW kind \in {"init", "stateless"}, NewSession(c, kind)
      PROVE  GoesHome'
  <2>1. PICK r \in Relay, i \in RandomId :
          /\ MadeWith(r, i) /\ relay'[r].pinned = relay[r].pinned /\ Written(c, "send", r, kind, i)
          /\ scall[c].at = "idle" /\ UNCHANGED <<table, goesTo, home, over, known, sseOpen>>
    BY <1>1, NewShape
  <2> QED  BY <1>a, <2>1 DEF Pointing, Written, MadeWith, RelaysOwned, Owner, GoesHome
<1>2. ASSUME NEW c \in SessionCall, NEW i \in SessionId, NEW kind \in {"use", "again"}, UseSession(c, i, kind)
      PROVE  GoesHome'
  <2>1. /\ scall[c].at = "idle" /\ i \in known
        /\ UNCHANGED <<table, relay, goesTo, home, over, known, sseOpen>>
        /\ \/ table[i] # 0 /\ Written(c, "send", table[i], kind, i)
           \/ i \in UpSession /\ Written(c, "resume", 0, kind, i)
           \/ Written(c, "done", 0, kind, i)
    BY <1>2, UseShape
  <2>2. CASE table[i] # 0 /\ Written(c, "send", table[i], kind, i)
    BY <2>1, <2>2 DEF Written, CallsPlaced, GoesHome
  <2>3. CASE i \in UpSession /\ Written(c, "resume", 0, kind, i)
    BY <2>1, <2>3 DEF Written, CallsPlaced, GoesHome
  <2>4. CASE Written(c, "done", 0, kind, i)
    BY <2>1, <2>4 DEF Written, CallsPlaced, GoesHome
  <2> QED  BY <2>1, <2>2, <2>3, <2>4
<1>3. ASSUME NEW c \in SessionCall, Resume(c) PROVE GoesHome'
  <2>1. /\ scall[c].at = "resume" /\ UNCHANGED <<goesTo, home, over, known, sseOpen>>
        /\ scall[c].id \in UpSession /\ home[scall[c].id] # NoEndpoint
        /\ scall[c].kind \in {"use", "again"}
        /\ \/ SCallAt(c, "done") /\ UNCHANGED <<relay, table>>
           \/ \E r \in Relay : /\ MadeWith(r, scall[c].id) /\ relay'[r].pinned = home[scall[c].id]
                               /\ PutUnder(scall[c].id, r)
                               /\ Written(c, "send", r, scall[c].kind, scall[c].id)
    BY <1>3, ResumeShape
  <2>2. CASE SCallAt(c, "done") /\ UNCHANGED <<relay, table>>
    BY <2>1, <2>2 DEF SCallAt, GoesHome
  <2>3. ASSUME NEW r \in Relay, MadeWith(r, scall[c].id), relay'[r].pinned = home[scall[c].id],
               PutUnder(scall[c].id, r), Written(c, "send", r, scall[c].kind, scall[c].id)
        PROVE  GoesHome'
    BY <1>a, <2>1, <2>3 DEF Pointing, Written, MadeWith, RelaysOwned, Owner, GoesHome
  <2> QED  BY <2>1, <2>2, <2>3
<1>4. ASSUME NEW c \in SessionCall, NEW e \in Endpoint, SendUp(c, e)
      PROVE  GoesHome'
  BY <1>4
  DEF SendUp, SCallAt, Relay, SessionTypeOK, SessionsHome, CallsPlaced, RelaysMade,
      RelaysOwned, Owner, SessionActive, GoesHome
<1>5. ASSUME NEW c \in SessionCall, UpFails(c) \/ ClientLeaves(c) PROVE GoesHome'
  <2>1. CASE UpFails(c)
    BY <2>1 DEF UpFails, SCallAt, GoesHome
  <2>2. CASE ClientLeaves(c)
    BY <2>2 DEF ClientLeaves, SCallAt, GoesHome
  <2> QED  BY <1>5, <2>1, <2>2
<1>6. ASSUME NEW c \in SessionCall, FinishUse(c) PROVE GoesHome'
  BY <1>6 DEF FinishUse, SCallAt, GoesHome
<1>7. ASSUME NEW c \in SessionCall, FinishStateless(c) PROVE GoesHome'
  BY <1>7 DEF FinishStateless, SCallAt, GoesHome
<1>8. ASSUME NEW c \in SessionCall, UpAnswers(c) PROVE GoesHome'
  BY <1>8 DEF UpAnswers, SCallAt, GoesHome
<1>9. ASSUME NEW c \in SessionCall, Pin(c) PROVE GoesHome'
  BY <1>9 DEF Pin, SCallAt, GoesHome
<1>10. ASSUME NEW c \in SessionCall, NEW x \in UpSession \cup {NoUp}, FinishInit(c, x)
       PROVE  GoesHome'
  <2> DEFINE r == scall[c].relay
  <2>1. /\ r \in Relay /\ scall[c].kind = "init" /\ scall[c].id \notin UpSession
        /\ \A d \in SessionCall \ {c} : scall[d].relay # r
    BY <1>a, <1>10 DEF FinishInit, Pointing, CallsPlaced, RelaysOwned, Owner, SessionActive
  <2>2. /\ UNCHANGED goesTo /\ scall'[c].kind = scall[c].kind /\ scall'[c].id = scall[c].id
        /\ \A d \in SessionCall \ {c} : scall'[d] = scall[d]
        /\ \A q \in Relay \ {r} : relay'[q] = relay[q]
    BY <1>10 DEF FinishInit, SCallAt, SessionTypeOK
  <2>3. \A y \in UpSession : home[y] # NoEndpoint => home'[y] = home[y]
    BY <1>10, SessionAssumption DEF FinishInit, Given
  <2>4. \A d \in SessionCall : scall[d].kind = "oneshot" => scall[d].relay \in Relay
    BY <1>a DEF RelaysOwned, Owner, Pointing
  <2>5. \A q \in Relay : relay[q].up # NoUp => relay[q].up \in UpSession
    BY DEF SessionTypeOK
  <2> HIDE DEF r
  <2> QED  BY <2>1, <2>2, <2>3, <2>4, <2>5 DEF GoesHome
<1>11. ASSUME NEW c \in SessionCall, NEW x \in UpSession \cup {NoUp}, FinishAgain(c, x)
       PROVE  GoesHome'
  BY <1>11, SessionAssumption
  DEF FinishAgain, SCallAt, Given, Relay, SessionTypeOK, RelaysOwned, Owner, GoesHome
<1>12. ASSUME NEW c \in SessionCall, NEW x \in UpSession \cup {NoUp}, InitializedStateless(c, x)
       PROVE  GoesHome'
  <2> DEFINE r == scall[c].relay
  <2>1. /\ r \in Relay /\ scall[c].id \notin UpSession
        /\ \A d \in SessionCall \ {c} : scall[d].relay # r
        /\ \A d \in SessionCall : scall[d].kind = "oneshot" => scall[d].relay \in Relay
    BY <1>a, <1>12, StatelessShape DEF CallsPlaced, RelaysOwned, Owner, Pointing, SessionActive
  <2>2. /\ Written(c, "send", r, "oneshot", scall[c].id) /\ UNCHANGED goesTo
        /\ relay'[r].up = x /\ \A q \in Relay \ {r} : relay'[q] = relay[q]
        /\ x = NoUp \/ (x \in UpSession /\ home'[x] = goesTo[c])
        /\ \A y \in UpSession : home[y] # NoEndpoint => home'[y] = home[y]
    BY <1>a, <1>12, StatelessShape, SessionAssumption
  <2>3. \A q \in Relay : relay[q].up # NoUp => relay[q].up \in UpSession
    BY DEF SessionTypeOK
  <2> HIDE DEF r
  <2> SUFFICES ASSUME NEW d \in SessionCall, goesTo'[d] # NoEndpoint
               PROVE  /\ scall'[d].id \in UpSession => goesTo'[d] = home'[scall'[d].id]
                      /\ scall'[d].kind = "oneshot" /\ relay'[scall'[d].relay].up # NoUp
                           => goesTo'[d] = home'[relay'[scall'[d].relay].up]
    BY DEF GoesHome
  <2>4. CASE d = c
    BY <2>1, <2>2, <2>4 DEF Written
  <2>5. CASE d # c
    <3>1. scall'[d] = scall[d] /\ goesTo'[d] = goesTo[d]
      BY <2>2, <2>5 DEF Written
    <3>2. scall[d].id \in UpSession => goesTo[d] = home[scall[d].id]
      BY <3>1 DEF GoesHome
    <3>3. ASSUME scall[d].kind = "oneshot", relay'[scall[d].relay].up # NoUp
          PROVE  goesTo[d] = home'[relay'[scall[d].relay].up]
      <4>1. relay'[scall[d].relay] = relay[scall[d].relay] /\ relay[scall[d].relay].up \in UpSession
        BY <2>1, <2>2, <2>3, <2>5, <3>3
      <4>2. goesTo[d] = home[relay[scall[d].relay].up]
        BY <2>5, <3>1, <3>3, <4>1 DEF GoesHome
      <4> QED  BY <2>2, <3>1, <4>1, <4>2
    <3> QED  BY <2>2, <3>1, <3>2, <3>3
  <2> QED  BY <2>4, <2>5
<1>13. ASSUME NEW c \in SessionCall, NEW i \in SessionId, DeleteSession(c, i)
       PROVE  GoesHome'
  BY <1>13 DEF DeleteSession, SCall, CallsPlaced, GoesHome
<1>14. ASSUME NEW c \in SessionCall, TellUpstream(c) PROVE GoesHome'
  BY <1>14 DEF TellUpstream, SCallAt, GoesHome
<1>15. ASSUME NEW c \in SessionCall, OpenLegacy(c) PROVE GoesHome'
  <2>1. PICK r \in Relay, i \in RandomId :
          /\ MadeWith(r, i) /\ relay'[r].pinned = relay[r].pinned /\ PutUnder(i, r)
          /\ known' = known \cup {i} /\ Written(c, "done", r, "sse", i)
          /\ scall[c].at = "idle" /\ UNCHANGED <<goesTo, home, over>>
    BY <1>15, OpenShape
  <2> QED  BY <1>a, <2>1 DEF Pointing, Written, MadeWith, RelaysOwned, Owner, GoesHome
<1>16. ASSUME NEW c \in SessionCall, CloseLegacy(c) PROVE GoesHome'
  BY <1>16 DEF CloseLegacy, SCallAt, GoesHome
<1>17. ASSUME RestartGateway PROVE GoesHome'
  BY <1>17, SessionAssumption DEF RestartGateway, RestingCall, GoesHome
<1>18. ASSUME NEW c \in SessionCall, NextCall(c) PROVE GoesHome'
  BY <1>18 DEF NextCall, SessionTypeOK, GoesHome
<1>19. ASSUME UNCHANGED sessionVars PROVE GoesHome'
  BY <1>19 DEF sessionVars, GoesHome
<1> QED  BY <1>1, <1>2, <1>3, <1>4, <1>5, <1>6, <1>7, <1>8, <1>9, <1>10, <1>11, <1>12, <1>13,
            <1>14, <1>15, <1>16, <1>17, <1>18, <1>19
         DEF SessionNext, CallProgress

(* A stateless request that is done has deleted its session.               *)
LEMMA LeftStep ==
  ASSUME SessionTypeOK, RelaysMade, CallsPlaced, RelaysOwned, NothingLeftBehind, [SessionNext]_sessionVars
  PROVE  NothingLeftBehind'
<1>a. Pointing
  BY PointingHolds
<1>1. ASSUME NEW c \in SessionCall, NEW kind \in {"init", "stateless"}, NewSession(c, kind)
      PROVE  NothingLeftBehind'
  <2>1. PICK r \in Relay, i \in RandomId :
          /\ MadeWith(r, i) /\ relay'[r].pinned = relay[r].pinned /\ Written(c, "send", r, kind, i)
          /\ scall[c].at = "idle" /\ UNCHANGED <<table, goesTo, home, over, known, sseOpen>>
    BY <1>1, NewShape
  <2> QED  BY <1>a, <2>1 DEF Pointing, Written, MadeWith, RelaysOwned, Owner, NothingLeftBehind
<1>2. ASSUME NEW c \in SessionCall, NEW i \in SessionId, NEW kind \in {"use", "again"}, UseSession(c, i, kind)
      PROVE  NothingLeftBehind'
  <2>1. /\ scall[c].at = "idle" /\ i \in known
        /\ UNCHANGED <<table, relay, goesTo, home, over, known, sseOpen>>
        /\ \/ table[i] # 0 /\ Written(c, "send", table[i], kind, i)
           \/ i \in UpSession /\ Written(c, "resume", 0, kind, i)
           \/ Written(c, "done", 0, kind, i)
    BY <1>2, UseShape
  <2>2. CASE table[i] # 0 /\ Written(c, "send", table[i], kind, i)
    BY <2>1, <2>2 DEF Written, NothingLeftBehind
  <2>3. CASE i \in UpSession /\ Written(c, "resume", 0, kind, i)
    BY <2>1, <2>3 DEF Written, NothingLeftBehind
  <2>4. CASE Written(c, "done", 0, kind, i)
    BY <2>1, <2>4 DEF Written, NothingLeftBehind
  <2> QED  BY <2>1, <2>2, <2>3, <2>4
<1>3. ASSUME NEW c \in SessionCall, Resume(c) PROVE NothingLeftBehind'
  <2>1. /\ scall[c].at = "resume" /\ UNCHANGED <<goesTo, home, over, known, sseOpen>>
        /\ scall[c].id \in UpSession /\ home[scall[c].id] # NoEndpoint
        /\ scall[c].kind \in {"use", "again"}
        /\ \/ SCallAt(c, "done") /\ UNCHANGED <<relay, table>>
           \/ \E r \in Relay : /\ MadeWith(r, scall[c].id) /\ relay'[r].pinned = home[scall[c].id]
                               /\ PutUnder(scall[c].id, r)
                               /\ Written(c, "send", r, scall[c].kind, scall[c].id)
    BY <1>3, ResumeShape
  <2>2. CASE SCallAt(c, "done") /\ UNCHANGED <<relay, table>>
    BY <2>1, <2>2 DEF SCallAt, NothingLeftBehind
  <2>3. ASSUME NEW r \in Relay, MadeWith(r, scall[c].id), relay'[r].pinned = home[scall[c].id],
               PutUnder(scall[c].id, r), Written(c, "send", r, scall[c].kind, scall[c].id)
        PROVE  NothingLeftBehind'
    BY <1>a, <2>1, <2>3 DEF Pointing, Written, MadeWith, RelaysOwned, Owner, NothingLeftBehind
  <2> QED  BY <2>1, <2>2, <2>3
<1>4. ASSUME NEW c \in SessionCall, NEW e \in Endpoint, SendUp(c, e)
      PROVE  NothingLeftBehind'
  BY <1>4 DEF SendUp, SCallAt, NothingLeftBehind
<1>5. ASSUME NEW c \in SessionCall, UpFails(c) \/ ClientLeaves(c) PROVE NothingLeftBehind'
  <2>1. CASE UpFails(c)
    BY <2>1 DEF UpFails, SCallAt, NothingLeftBehind
  <2>2. CASE ClientLeaves(c)
    BY <2>2 DEF ClientLeaves, SCallAt, NothingLeftBehind
  <2> QED  BY <1>5, <2>1, <2>2
<1>6. ASSUME NEW c \in SessionCall, FinishUse(c) PROVE NothingLeftBehind'
  BY <1>6 DEF FinishUse, SCallAt, NothingLeftBehind
<1>7. ASSUME NEW c \in SessionCall, FinishStateless(c) PROVE NothingLeftBehind'
  BY <1>7 DEF FinishStateless, SCallAt, NothingLeftBehind
<1>8. ASSUME NEW c \in SessionCall, UpAnswers(c) PROVE NothingLeftBehind'
  BY <1>8 DEF UpAnswers, SCallAt, NothingLeftBehind
<1>9. ASSUME NEW c \in SessionCall, Pin(c) PROVE NothingLeftBehind'
  BY <1>9 DEF Pin, SCallAt, NothingLeftBehind
<1>10. ASSUME NEW c \in SessionCall, NEW x \in UpSession \cup {NoUp}, FinishInit(c, x)
       PROVE  NothingLeftBehind'
  BY <1>10 DEF FinishInit, SCallAt, Relay, SessionTypeOK, RelaysOwned, Owner, NothingLeftBehind
<1>11. ASSUME NEW c \in SessionCall, NEW x \in UpSession \cup {NoUp}, FinishAgain(c, x)
       PROVE  NothingLeftBehind'
  BY <1>11 DEF FinishAgain, SCallAt, RelaysOwned, Owner, NothingLeftBehind
<1>12. ASSUME NEW c \in SessionCall, NEW x \in UpSession \cup {NoUp}, InitializedStateless(c, x)
       PROVE  NothingLeftBehind'
  BY <1>a, <1>12, StatelessShape, SessionAssumption
  DEF Pointing, Written, RelaysOwned, Owner, NothingLeftBehind
<1>13. ASSUME NEW c \in SessionCall, NEW i \in SessionId, DeleteSession(c, i)
       PROVE  NothingLeftBehind'
  BY <1>13 DEF DeleteSession, SCall, NothingLeftBehind
<1>14. ASSUME NEW c \in SessionCall, TellUpstream(c) PROVE NothingLeftBehind'
  BY <1>14 DEF TellUpstream, SCallAt, NothingLeftBehind
<1>15. ASSUME NEW c \in SessionCall, OpenLegacy(c) PROVE NothingLeftBehind'
  <2>1. PICK r \in Relay, i \in RandomId :
          /\ MadeWith(r, i) /\ relay'[r].pinned = relay[r].pinned /\ PutUnder(i, r)
          /\ known' = known \cup {i} /\ Written(c, "done", r, "sse", i)
          /\ scall[c].at = "idle" /\ UNCHANGED <<goesTo, home, over>>
    BY <1>15, OpenShape
  <2> QED  BY <1>a, <2>1 DEF Pointing, Written, MadeWith, RelaysOwned, Owner, NothingLeftBehind
<1>16. ASSUME NEW c \in SessionCall, CloseLegacy(c) PROVE NothingLeftBehind'
  BY <1>16 DEF CloseLegacy, SCallAt, NothingLeftBehind
<1>17. ASSUME RestartGateway PROVE NothingLeftBehind'
  BY <1>17 DEF RestartGateway, RestingCall, NothingLeftBehind
<1>18. ASSUME NEW c \in SessionCall, NextCall(c) PROVE NothingLeftBehind'
  BY <1>18 DEF NextCall, RestingCall, NothingLeftBehind
<1>19. ASSUME UNCHANGED sessionVars PROVE NothingLeftBehind'
  BY <1>19 DEF sessionVars, NothingLeftBehind
<1> QED  BY <1>1, <1>2, <1>3, <1>4, <1>5, <1>6, <1>7, <1>8, <1>9, <1>10, <1>11, <1>12, <1>13,
            <1>14, <1>15, <1>16, <1>17, <1>18, <1>19
         DEF SessionNext, CallProgress

(* Sessions stay with the replica that has them: the relay a session id    *)
(* stands for, through resumptions, repeated initializations, deletions    *)
(* and restarts, is the one that reaches the upstream session's replica.   *)
(* A stateless request that is answered or refused leaves none behind.     *)
THEOREM SessionsStayConsistent == SessionSpec => []SessionsConsistent
<1>1. SessionInit => SessionInvariant
  <2> SUFFICES ASSUME SessionInit PROVE SessionInvariant
    OBVIOUS
  <2>1. MaxRelays \in Nat /\ UpSession \subseteq SessionId
    BY SessionAssumption DEF SessionId
  <2>2. FreshRelay \in RelayRecord /\ RestingCall \in CallRecord
    BY <2>1 DEF FreshRelay, RelayRecord, RestingCall, CallRecord, CallAt, CallKinds
  <2>3. SessionTypeOK
    BY <2>1, <2>2 DEF SessionInit, SessionTypeOK, RelayRecord, CallRecord, CallAt
  <2>4. RelaysMade /\ SessionsHome
    BY DEF SessionInit, RelaysMade, SessionsHome, FreshRelay, RestingCall, SessionActive
  <2>5. CallsPlaced /\ RelaysOwned
    BY SessionAssumption
    DEF SessionInit, CallsPlaced, RelaysOwned, Owner, RestingCall, SessionActive
  <2>6. GoesHome /\ NothingLeftBehind
    BY DEF SessionInit, GoesHome, NothingLeftBehind, RestingCall
  <2> QED  BY <2>3, <2>4, <2>5, <2>6 DEF SessionInvariant
<1>2. SessionInvariant /\ [SessionNext]_sessionVars => SessionInvariant'
  BY TypeStep, MadeStep, HomeStep, PlaceStep, OwnStep, GoStep, LeftStep DEF SessionInvariant
<1>3. SessionInvariant => SessionsConsistent
  <2> SUFFICES ASSUME SessionInvariant PROVE SessionsConsistent
    OBVIOUS
  <2>1. Pointing /\ SessionTypeOK
    BY PointingHolds DEF SessionInvariant
  <2>2. TableMatchesIds
    BY <2>1 DEF SessionInvariant, Pointing, SessionsHome, TableMatchesIds
  <2> QED  BY <2>1, <2>2 DEF SessionInvariant, SessionsConsistent
<1> QED  BY <1>1, <1>2, <1>3, PTL DEF SessionSpec

-----------------------------------------------------------------------------
(***************************************************************************)
(* McpDispatch: a name that a client is shown is taken apart into the      *)
(* target and the tool it was made of, so what the rules allowed in the    *)
(* list is what they allow in the call.                                    *)
(***************************************************************************)

(* The length and the characters of a name made of a target's and a tool's. *)
LEMMA NameConcat ==
  ASSUME NEW C, NEW t \in Seq(C), NEW x \in Seq(C), NEW d \in C,
         NEW n, n = t \o <<d>> \o x
  PROVE  /\ n \in Seq(C) /\ Len(n) = Len(t) + 1 + Len(x)
         /\ \A i \in 1..Len(t) : n[i] = t[i]
         /\ n[Len(t) + 1] = d
         /\ \A i \in 1..Len(x) : n[Len(t) + 1 + i] = x[i]
<1> DEFINE e == <<d>>
           a == t \o e
           r == a \o x
           l == Len(t)
           m == Len(x)
<1>1. l \in Nat /\ m \in Nat
  BY LenProperties
<1>2. e \in Seq(C) /\ Len(e) = 1 /\ e[1] = d
  OBVIOUS
<1> HIDE DEF e
<1>3. /\ a \in Seq(C) /\ Len(a) = Len(t) + Len(e)
      /\ \A i \in 1..(Len(t) + Len(e)) :
           a[i] = IF i <= Len(t) THEN t[i] ELSE e[i - Len(t)]
  BY <1>2, ConcatProperties
<1> HIDE DEF a
<1>4. /\ r \in Seq(C) /\ Len(r) = Len(a) + Len(x)
      /\ \A i \in 1..(Len(a) + Len(x)) :
           r[i] = IF i <= Len(a) THEN a[i] ELSE x[i - Len(a)]
  <2>1. a \in Seq(C)
    BY <1>3
  <2>2. x \in Seq(C)
    OBVIOUS
  <2> QED BY Zenon, <2>1, <2>2, ConcatProperties
<1> HIDE DEF r, l, m
<1>5. /\ a \in Seq(C) /\ Len(a) = l + 1
      /\ \A i \in 1..(l + 1) : a[i] = IF i <= l THEN t[i] ELSE e[i - l]
  BY <1>2, <1>3 DEF l
<1>6. /\ r \in Seq(C) /\ Len(r) = l + 1 + m
      /\ \A i \in 1..(l + 1 + m) :
           r[i] = IF i <= l + 1 THEN a[i] ELSE x[i - (l + 1)]
  BY <1>4, <1>5 DEF m
<1>7. \A i \in 1..l : r[i] = t[i]
  <2> TAKE i \in 1..l
  <2>1. i \in 1..(l + 1) /\ i \in 1..(l + 1 + m) /\ i <= l /\ i <= l + 1
    BY <1>1
  <2> QED BY <2>1, <1>5, <1>6
<1>8. r[l + 1] = d
  <2> DEFINE k == l + 1
  <2>1. k \in 1..k /\ k \in 1..(k + m) /\ ~(k <= l) /\ k <= k /\ k - l = 1
    BY <1>1
  <2>2. \A i \in 1..k : a[i] = IF i <= l THEN t[i] ELSE e[i - l]
    BY <1>5
  <2>3. \A i \in 1..(k + m) : r[i] = IF i <= k THEN a[i] ELSE x[i - k]
    BY <1>6
  <2> HIDE DEF k
  <2>4. r[k] = a[k] /\ a[k] = e[k - l]
    BY <2>1, <2>2, <2>3
  <2>5. r[k] = d
    BY <2>4, <2>1, <1>2
  <2> QED BY <2>5 DEF k
<1>9. \A i \in 1..m : r[l + 1 + i] = x[i]
  <2> TAKE i \in 1..m
  <2> DEFINE k == l + 1
             j == l + 1 + i
  <2>1. j \in 1..(k + m) /\ ~(j <= k) /\ j - k = i
    BY <1>1
  <2>2. \A h \in 1..(k + m) : r[h] = IF h <= k THEN a[h] ELSE x[h - k]
    BY <1>6
  <2> HIDE DEF k, j
  <2>3. r[j] = x[j - k]
    BY <2>1, <2>2
  <2>4. r[j] = x[i]
    BY <2>1, <2>3
  <2> QED BY <2>4 DEF j
<1>10. n = r
  BY DEF r, a, e
<1> QED BY <1>6, <1>7, <1>8, <1>9, <1>10 DEF l, m

(* A set of naturals has a least element.                                   *)
LEMMA LeastNatural ==
  ASSUME NEW T, T \subseteq Nat, T # {}
  PROVE \E x \in T : \A y \in T : x <= y
<1> DEFINE R == {ss \in Nat \X Nat : ss[1] < ss[2]}
<1>1. IsWellFoundedOn(R, Nat)
  BY NatLessThanWellFounded DEF OpToRel
<1>2. \E x \in T : \A y \in T : ~(<<y, x>> \in R)
  <2> HIDE DEF R
  <2> QED BY <1>1, WFMin
<1>3. PICK x \in T : \A y \in T : <<y, x>> \notin R
  BY <1>2
<1>4. ASSUME NEW y \in T PROVE x <= y
  <2>1. x \in Nat /\ y \in Nat
    OBVIOUS
  <2>2. <<y, x>> \notin R
    BY <1>3
  <2>3. <<y, x>> \in R <=> y < x
    BY <2>1
  <2> QED BY <2>1, <2>2, <2>3
<1> QED BY <1>4

LEMMA FirstSplit ==
  ASSUME NEW S, NEW k \in Nat, k \in S, S \subseteq Nat, \A j \in S : k <= j
  PROVE  FirstOf(S) = k
<1>1. \A i \in S : (\A j \in S : i <= j) => i = k
  OBVIOUS
<1> QED BY <1>1 DEF FirstOf

LEMMA NamesAreSequences ==
  /\ Target \subseteq Seq(Character) /\ Tool \subseteq Seq(Character)
  /\ Delimiter \in Character
<1>1. Delimiter \in Character
  BY Zenon DEF Character
<1> QED BY <1>1, NamesAssumption

(* A name made of a target without a delimiter and a tool is taken apart   *)
(* into them again.                                                        *)
LEMMA ParsedBack ==
  ASSUME NEW t \in Target, NEW x \in Tool, ~HasDefault, Undelimited(t)
  PROVE  ~ParseFails(Concat(t, x)) /\ Parsed(Concat(t, x)) = <<t, x>>
<1> DEFINE n == Concat(t, x)
           l == Len(t)
           m == Len(x)
           C == Character
<1>1. t \in Seq(C) /\ x \in Seq(C) /\ Delimiter \in C /\ l \in Nat /\ m \in Nat
  <2>1. t \in Seq(C) /\ x \in Seq(C) /\ Delimiter \in C
    BY NamesAreSequences
  <2> HIDE DEF C
  <2> QED BY <2>1, LenProperties
<1> HIDE DEF C
<1>2. /\ n \in Seq(C) /\ Len(n) = l + 1 + m
      /\ \A i \in 1..l : n[i] = t[i]
      /\ n[l + 1] = Delimiter
      /\ \A i \in 1..m : n[l + 1 + i] = x[i]
  <2>1. n = t \o <<Delimiter>> \o x
    BY DEF Concat
  <2> HIDE DEF n
  <2>2. t \in Seq(C) /\ x \in Seq(C) /\ Delimiter \in C
    BY <1>1
  <2>3. t \in Seq(C)
    BY <2>2
  <2>4. x \in Seq(C)
    BY <2>2
  <2>5. Delimiter \in C
    BY <2>2
  <2>6. /\ n \in Seq(C) /\ Len(n) = Len(t) + 1 + Len(x)
        /\ \A i \in 1..Len(t) : n[i] = t[i]
        /\ n[Len(t) + 1] = Delimiter
        /\ \A i \in 1..Len(x) : n[Len(t) + 1 + i] = x[i]
    BY <2>1, <2>3, <2>4, <2>5, NameConcat
  <2> QED BY <2>6
<1>3. \A i \in 1..l : t[i] # Delimiter
  <2>1. \A i \in DOMAIN t : t[i] # Delimiter
    BY Zenon DEF Undelimited
  <2>2. DOMAIN t = 1..l
    BY <1>1, LenProperties
  <2> QED BY Zenon, <2>1, <2>2
<1> HIDE DEF n
<1> DEFINE d == Delimiter
<1>4. /\ l + 1 \in Splits(n) /\ Splits(n) \subseteq Nat
      /\ \A j \in Splits(n) : l + 1 <= j
  <2>1. DOMAIN n = 1..(l + 1 + m)
    BY <1>2, LenProperties
  <2>2. Splits(n) = {j \in 1..(l + 1 + m) : n[j] = d}
    BY Zenon, <2>1 DEF Splits
  <2>3. \A j \in 1..l : n[j] # d
    BY Zenon, <1>2, <1>3
  <2>4. n[l + 1] = d
    BY <1>2
  <2>5. l \in Nat /\ m \in Nat
    BY <1>1
  <2> HIDE DEF d, l, m
  <2>6. l + 1 \in 1..(l + 1 + m)
    BY <2>5
  <2>7. \A j \in 1..(l + 1 + m) : j \notin 1..l => l + 1 <= j
    BY <2>5
  <2> QED BY <2>2, <2>3, <2>4, <2>5, <2>6, <2>7
<1> HIDE DEF d
<1>5. FirstOf(Splits(n)) = l + 1
  <2> DEFINE k == l + 1
  <2>1. k \in Nat
    BY <1>1
  <2>2. k \in Splits(n)
    BY <1>4
  <2>3. Splits(n) \subseteq Nat
    BY <1>4
  <2>4. \A j \in Splits(n) : k <= j
    BY <1>4
  <2> HIDE DEF k
  <2>5. FirstOf(Splits(n)) = k
    BY Zenon, <2>1, <2>2, <2>3, <2>4, FirstSplit
  <2> QED BY <2>5 DEF k
<1>6. Parsed(n) = <<SubSeq(n, 1, l), SubSeq(n, l + 2, Len(n))>>
  <2>1. l + 1 - 1 = l /\ l + 1 + 1 = l + 2
    BY <1>1
  <2> DEFINE i == FirstOf(Splits(n))
  <2>2. Parsed(n) = <<SubSeq(n, 1, i - 1), SubSeq(n, i + 1, Len(n))>>
    BY Zenon DEF Parsed
  <2>3. i = l + 1
    BY <1>5
  <2> HIDE DEF i
  <2>4. i - 1 = l /\ i + 1 = l + 2
    BY <1>1, <2>3
  <2> HIDE DEF l
  <2> QED BY <2>2, <2>4
<1> DEFINE p == SubSeq(n, 1, l)
           q == SubSeq(n, l + 2, Len(n))
<1>7. p = t
  <2> DEFINE one == 1
  <2>1. l \in Int /\ \A i \in 1..l : n[i] \in C
    BY <1>1, <1>2, ElementOfSeq
  <2>2. p \in Seq(C) /\ Len(p) = l /\ \A i \in 1..l : p[i] = n[i]
    <3> HIDE DEF l
    <3>1. /\ p \in Seq(C) /\ Len(p) = (IF 1 <= l THEN l - 1 + 1 ELSE 0)
          /\ \A i \in 1..(l - 1 + 1) : p[i] = n[1 + i - 1]
      BY <2>1, SubSeqProperties
    <3> HIDE DEF p
    <3>2. l \in Nat
      BY <1>1
    <3> QED BY <3>1, <3>2
  <2> HIDE DEF p
  <2>3. \A i \in 1..l : p[i] = t[i]
    BY <1>2, <2>2
  <2> QED BY <1>1, <2>2, <2>3, SeqEqual
<1>8. q = x
  <2> DEFINE lo == l + 2
             hi == l + 1 + m
  <2>1. l \in Nat /\ m \in Nat
    BY <1>1
  <2> HIDE DEF l, m
  <2>2. q = SubSeq(n, lo, hi)
    BY <1>2
  <2>3. /\ lo \in Int /\ hi \in Int /\ hi - lo + 1 = m
        /\ \A i \in lo..hi : i \in 1..(l + 1 + m)
        /\ (IF lo <= hi THEN hi - lo + 1 ELSE 0) = m
        /\ \A i \in 1..m : lo + i - 1 = l + 1 + i
    BY <2>1
  <2> HIDE DEF q, lo, hi
  <2>4. \A i \in lo..hi : n[i] \in C
    BY <1>2, <2>3, ElementOfSeq
  <2>5. /\ q \in Seq(C) /\ Len(q) = (IF lo <= hi THEN hi - lo + 1 ELSE 0)
        /\ \A i \in 1..(hi - lo + 1) : q[i] = n[lo + i - 1]
    BY <2>2, <2>3, <2>4, SubSeqProperties
  <2>6. q \in Seq(C) /\ Len(q) = m /\ \A i \in 1..m : q[i] = x[i]
    BY <1>2, <2>3, <2>5
  <2> QED BY <1>1, <2>6, SeqEqual DEF m
<1>9. ~ParseFails(n)
  BY Zenon, <1>4 DEF ParseFails
<1> HIDE DEF p, q
<1> QED BY <1>6, <1>7, <1>8, <1>9 DEF p, q, n

LEMMA NamesTyped == AllNames \cup {NoName} \subseteq Seq(Character)
<1> DEFINE C == Character
<1>1. Target \subseteq Seq(C) /\ Tool \subseteq Seq(C) /\ Delimiter \in C
  BY NamesAreSequences
<1> HIDE DEF C
<1>2. ASSUME NEW t \in Target, NEW x \in Tool
      PROVE  Concat(t, x) \in Seq(C)
  <2> DEFINE e == <<Delimiter>>
  <2>1. t \in Seq(C)
    BY <1>1
  <2>2. x \in Seq(C)
    BY <1>1
  <2>3. e \in Seq(C)
    BY <1>1
  <2> HIDE DEF e
  <2> DEFINE a == t \o e
  <2>4. a \in Seq(C)
    BY Zenon, <2>1, <2>3, ConcatProperties
  <2> HIDE DEF a
  <2>5. a \o x \in Seq(C)
    BY Zenon, <2>2, <2>4, ConcatProperties
  <2> QED BY <2>5 DEF Concat, a, e
<1>3. NoName \in Seq(C)
  BY DEF NoName
<1>4. Tool \subseteq Seq(C)
  BY <1>1
<1>5. ASSUME NEW n \in AllNames PROVE n \in Seq(C)
  <2>1. (\E t \in Target, x \in Tool : n = Concat(t, x)) \/ n \in Tool
    BY DEF AllNames
  <2> QED BY <2>1, <1>2, <1>4
<1> HIDE DEF NoName
<1>6. AllNames \cup {NoName} \subseteq Seq(C)
  BY <1>3, <1>5
<1> QED BY <1>6 DEF C

LEMMA DefaultIsTheTarget ==
  ASSUME DispatchTypeOK, HasDefault
  PROVE  backend.targets = {DefaultTarget} /\ DefaultTarget \in Target
<1> DEFINE S == backend.targets
<1>1. S \subseteq Target
  BY DEF DispatchTypeOK
<1>2. Cardinality(S) = 1
  BY DEF HasDefault, Multiplexing
<1>3. IsFiniteSet(S)
  BY <1>1, NamesAssumption, FS_Subset
<1>4. PICK t : S = {t}
  BY <1>2, <1>3, FS_Singleton
<1>5. DefaultTarget = t
  BY <1>4 DEF DefaultTarget
<1> QED BY <1>1, <1>4, <1>5

(* What a listed name is taken apart into: the target and the tool it was   *)
(* made of.                                                                *)
LEMMA NameLeadsBack ==
  ASSUME DispatchTypeOK, NEW t \in backend.targets, NEW x \in Tool, LeadsBack(t)
  PROVE  /\ ~ParseFails(ResourceName(t, x))
         /\ Parsed(ResourceName(t, x)) = <<t, x>>
<1>1. CASE HasDefault
  <2>1. t = DefaultTarget
    BY <1>1, DefaultIsTheTarget
  <2>2. ResourceName(t, x) = x
    BY <1>1 DEF ResourceName
  <2>3. ~ParseFails(x) /\ Parsed(x) = <<DefaultTarget, x>>
    BY <1>1 DEF ParseFails, Parsed
  <2> QED BY <2>1, <2>2, <2>3
<1>2. CASE ~HasDefault
  <2>1. t \in Target
    BY DEF DispatchTypeOK
  <2>2. ~ParseFails(Concat(t, x)) /\ Parsed(Concat(t, x)) = <<t, x>>
    BY <1>2, <2>1, ParsedBack DEF LeadsBack
  <2>3. ResourceName(t, x) = Concat(t, x)
    BY <1>2 DEF ResourceName
  <2> QED BY <2>2, <2>3
<1> QED BY <1>1, <1>2

(* What is asked of a target besides its name is a name.                   *)
LEMMA ParsedTyped ==
  ASSUME DispatchTypeOK, NEW n \in AllNames \cup {NoName}, ~ParseFails(n),
         Parsed(n)[1] \in backend.targets
  PROVE  Parsed(n) \in Target \X Seq(Character)
<1> DEFINE C == Character
<1>1. n \in Seq(C)
  BY Zenon, NamesTyped
<1>2. CASE HasDefault
  <2>1. DefaultTarget \in Target /\ Parsed(n) = <<DefaultTarget, n>>
    BY <1>2, DefaultIsTheTarget DEF Parsed
  <2> HIDE DEF C
  <2>2. Parsed(n) \in Target \X Seq(C)
    BY <1>1, <2>1
  <2> QED BY <2>2 DEF C
<1>3. CASE ~HasDefault
  <2> DEFINE i == FirstOf(Splits(n))
             p == SubSeq(n, 1, i - 1)
             q == SubSeq(n, i + 1, Len(n))
  <2>1. Parsed(n) = <<p, q>>
    BY <1>3 DEF Parsed
  <2>2. Splits(n) # {} /\ Splits(n) \subseteq Nat
    <3>1. DOMAIN n = 1..Len(n)
      BY <1>1, LenProperties
    <3> QED BY <1>3, <3>1 DEF ParseFails, Splits
  <2>3. i \in Splits(n) /\ i \in Nat
    <3> DEFINE S == Splits(n)
    <3>1. S # {} /\ S \subseteq Nat
      BY <2>2
    <3> HIDE DEF S
    <3>2. \E k \in S : \A j \in S : k <= j
      BY <3>1, LeastNatural
    <3>3. FirstOf(S) \in S
      BY Zenon, <3>2 DEF FirstOf
    <3> QED BY <3>1, <3>3 DEF S
  <2>4. q \in Seq(C)
    <3> DEFINE lo == i + 1
               hi == Len(n)
    <3> HIDE DEF i, C
    <3>1. lo \in Int /\ hi \in Nat /\ 1 <= lo
      BY <1>1, <2>3, LenProperties
    <3>2. \A j \in lo..hi : n[j] \in C
      BY <1>1, <3>1, ElementOfSeq
    <3> HIDE DEF lo, hi
    <3>3. hi \in Int
      BY <3>1
    <3>4. SubSeq(n, lo, hi) \in Seq(C)
      BY <3>1, <3>2, <3>3, SubSeqProperties
    <3> QED BY <3>4 DEF lo, hi
  <2> HIDE DEF p, q, C
  <2>5. p \in Target
    <3>1. Parsed(n)[1] = p
      BY <2>1
    <3> QED BY <3>1 DEF DispatchTypeOK
  <2>6. Parsed(n) \in Target \X Seq(C)
    BY <2>1, <2>4, <2>5
  <2> QED BY <2>6 DEF C
<1> QED BY <1>2, <1>3

(* A name that is taken apart is made of the parts again, and the first of *)
(* them has no delimiter.                                                  *)
LEMMA JoinsAgain ==
  ASSUME DispatchTypeOK, NEW n \in AllNames \cup {NoName}, ~ParseFails(n)
  PROVE  LeadsBack(Parsed(n)[1]) /\ n = ResourceName(Parsed(n)[1], Parsed(n)[2])
<1> DEFINE C == Character
<1>1. n \in Seq(C) /\ Delimiter \in C
  BY Zenon, NamesTyped, NamesAreSequences
<1>2. CASE HasDefault
  <2>1. Parsed(n) = <<DefaultTarget, n>>
    BY <1>2 DEF Parsed
  <2> QED BY <1>2, <2>1 DEF LeadsBack, ResourceName
<1>3. CASE ~HasDefault
  <2> DEFINE i == FirstOf(Splits(n))
             h == Len(n)
             p == SubSeq(n, 1, i - 1)
             q == SubSeq(n, i + 1, Len(n))
             r == p \o <<Delimiter>> \o q
  <2>1. Parsed(n) = <<p, q>>
    BY <1>3 DEF Parsed
  <2>2. h \in Nat /\ DOMAIN n = 1..h /\ \A j \in 1..h : n[j] \in C
    BY <1>1, LenProperties, ElementOfSeq
  <2>3. /\ i \in 1..h /\ n[i] = Delimiter
        /\ \A j \in 1..h : n[j] = Delimiter => i <= j
    <3> DEFINE S == Splits(n)
    <3>1. S = {j \in 1..h : n[j] = Delimiter} /\ S # {}
      BY <1>3, <2>2 DEF ParseFails, Splits
    <3> HIDE DEF S
    <3>2. S \subseteq Nat
      BY <3>1, <2>2
    <3>3. \E k \in S : \A j \in S : k <= j
      BY <3>1, <3>2, LeastNatural
    <3>4. FirstOf(S) \in S /\ \A j \in S : FirstOf(S) <= j
      BY Zenon, <3>3 DEF FirstOf
    <3>5. i = FirstOf(S)
      BY DEF S
    <3> HIDE DEF i
    <3> QED BY <3>1, <3>4, <3>5
  <2> HIDE DEF i, h, C
  <2>4. /\ p \in Seq(C) /\ Len(p) = i - 1
        /\ \A j \in 1..(i - 1) : p[j] = n[j]
    <3>1. i - 1 \in Int /\ \A j \in 1..(i - 1) : n[j] \in C
      BY <2>2, <2>3
    <3> DEFINE k == i - 1
    <3> HIDE DEF k
    <3>2. k \in Int /\ \A j \in 1..k : n[j] \in C
      BY <3>1 DEF k
    <3>3. /\ SubSeq(n, 1, k) \in Seq(C) /\ Len(SubSeq(n, 1, k)) = (IF 1 <= k THEN k - 1 + 1 ELSE 0)
          /\ \A j \in 1..(k - 1 + 1) : SubSeq(n, 1, k)[j] = n[1 + j - 1]
      BY <3>2, SubSeqProperties
    <3>4. p = SubSeq(n, 1, k)
      BY DEF k
    <3> HIDE DEF p
    <3>5. k \in Nat
      BY <2>2, <2>3 DEF k
    <3>6. p \in Seq(C) /\ Len(p) = k /\ \A j \in 1..k : p[j] = n[j]
      BY <3>3, <3>4, <3>5
    <3> QED BY <3>6 DEF k
  <2>5. /\ q \in Seq(C) /\ Len(q) = h - i
        /\ \A j \in 1..(h - i) : q[j] = n[i + j]
    <3> DEFINE lo == i + 1
    <3>1. lo \in Int /\ h \in Int /\ \A j \in lo..h : j \in 1..h
      BY <2>2, <2>3
    <3>2. /\ h - lo + 1 = h - i /\ (IF lo <= h THEN h - lo + 1 ELSE 0) = h - i
          /\ \A j \in 1..(h - i) : lo + j - 1 = i + j
      BY <2>2, <2>3
    <3> HIDE DEF lo
    <3>3. \A j \in lo..h : n[j] \in C
      BY <2>2, <3>1
    <3>4. /\ SubSeq(n, lo, h) \in Seq(C)
          /\ Len(SubSeq(n, lo, h)) = (IF lo <= h THEN h - lo + 1 ELSE 0)
          /\ \A j \in 1..(h - lo + 1) : SubSeq(n, lo, h)[j] = n[lo + j - 1]
      BY <3>1, <3>3, SubSeqProperties
    <3>5. q = SubSeq(n, lo, h)
      BY DEF lo, h
    <3> HIDE DEF q
    <3> QED BY <3>2, <3>4, <3>5
  <2> HIDE DEF p, q
  <2>6. /\ r \in Seq(C) /\ Len(r) = Len(p) + 1 + Len(q)
        /\ \A j \in 1..Len(p) : r[j] = p[j]
        /\ r[Len(p) + 1] = Delimiter
        /\ \A j \in 1..Len(q) : r[Len(p) + 1 + j] = q[j]
    <3>1. Delimiter \in C /\ p \in Seq(C) /\ q \in Seq(C) /\ r = p \o <<Delimiter>> \o q
      BY <1>1, <2>4, <2>5 DEF C
    <3> HIDE DEF r
    <3> QED BY <3>1, NameConcat
  <2> HIDE DEF r
  <2>7. Len(r) = h /\ \A j \in 1..h : r[j] = n[j]
    <3>1. Len(r) = h
      BY <2>2, <2>3, <2>4, <2>5, <2>6
    <3>2. ASSUME NEW j \in 1..h PROVE r[j] = n[j]
      <4>1. CASE j < i
        BY <4>1, <2>2, <2>3, <2>4, <2>6
      <4>2. CASE j = i
        <5>1. Len(p) + 1 = i
          BY <2>2, <2>3, <2>4
        <5> QED BY <4>2, <5>1, <2>3, <2>6
      <4>3. CASE j > i
        <5> DEFINE k == j - i
        <5>1. k \in 1..(h - i) /\ i + k = j /\ Len(p) + 1 + k = j
          BY <4>3, <2>2, <2>3, <2>4
        <5> HIDE DEF k
        <5> QED BY <5>1, <2>5, <2>6
      <4> QED BY <4>1, <4>2, <4>3, <2>2, <2>3
    <3> QED BY <3>1, <3>2
  <2>8. r = n
    <3>1. n \in Seq(C) /\ Len(n) = h
      BY <1>1 DEF C, h
    <3> QED BY <2>6, <2>7, <3>1, SeqEqual
  <2>9. Undelimited(p)
    <3>1. DOMAIN p = 1..(i - 1)
      BY <2>4, LenProperties
    <3>2. \A j \in 1..(i - 1) : p[j] # Delimiter
      BY <2>2, <2>3, <2>4
    <3> QED BY <3>1, <3>2 DEF Undelimited
  <2>10. Parsed(n)[1] = p /\ Parsed(n)[2] = q
    <3>1. Parsed(n) = <<p, q>>
      BY Zenon, <2>1
    <3> QED BY <3>1
  <2>11. ResourceName(p, q) = r
    BY <1>3 DEF ResourceName, Concat, r
  <2> QED BY <2>8, <2>9, <2>10, <2>11 DEF LeadsBack
<1> QED BY <1>2, <1>3

(* Only what a handler has just asked of upstreams is held as asked, and   *)
(* the last list has the names of tools that are offered and allowed.      *)
ListedFrom ==
  \A n \in listed : \E t \in backend.targets, x \in Tool :
    x \in offers[t] /\ Validate(<<t, x>>) /\ n = ResourceName(t, x)
DispatchIndInv ==
  /\ DispatchTypeOK
  /\ ListedFrom
  /\ ReachedAsNamed
  /\ OnlyAllowedReached
  /\ AuthenticatedFirst
  /\ handling # "done" => reached = {}

LEMMA DispatchHoldsAtFirst == DispatchInit => DispatchIndInv
<1> SUFFICES ASSUME DispatchInit PROVE DispatchIndInv
  OBVIOUS
<1>1. DispatchTypeOK
  BY DEF DispatchInit, DispatchTypeOK, NoMessage, NoName, Method, FanOut, Token
<1> QED BY <1>1 DEF DispatchInit, DispatchIndInv, ListedFrom, ReachedAsNamed,
                   OnlyAllowedReached, AuthenticatedFirst

(* What a handler asks of upstreams, with the type, the rules and the      *)
(* token it needs, is all it has to show.                                  *)
LEMMA Finished ==
  ASSUME DispatchIndInv, NEW a, NEW new, Finish(a, new), ~Unauthenticated \/ new = {},
         a \in {"ok", "unauthorized", "unknown", "invalid", "method"},
         new \subseteq (Target \X Seq(Character)) \cup {<<t>> : t \in Target},
         \A p \in new : Len(p) = 2 =>
           Validate(p) /\ LeadsBack(p[1]) /\ message.name = ResourceName(p[1], p[2]),
         listed' \subseteq AllNames,
         ListedFrom'
  PROVE  DispatchIndInv'
<1>1. reached = {} /\ reached' = new /\ handling' = "done"
  BY DEF Finish, DispatchIndInv
<1>2. backend' = backend /\ offers' = offers /\ message' = message /\ answer' = a
  BY DEF Finish
<1>3. DispatchTypeOK'
  <2> DEFINE R == (Target \X Seq(Character)) \cup {<<t>> : t \in Target}
  <2>1. reached' \subseteq R
    BY <1>1
  <2> HIDE DEF R
  <2> QED BY <1>1, <1>2, <2>1 DEF DispatchIndInv, DispatchTypeOK, R
<1>4. OnlyAllowedReached'
  <2> SUFFICES ASSUME NEW p \in new, Len(p) = 2
               PROVE  /\ p \notin backend.deny
                      /\ backend.allow # {} \/ backend.deny # {} => p \in backend.allow
    BY <1>1, <1>2 DEF OnlyAllowedReached
  <2>1. Validate(p)
    OBVIOUS
  <2> QED BY <2>1 DEF Validate
<1>5. AuthenticatedFirst'
  <2> SUFFICES ASSUME new # {}, backend.authn = "strict" PROVE message.token = "valid"
    BY <1>1, <1>2 DEF AuthenticatedFirst
  <2>1. message.token \in Token
    BY DEF DispatchIndInv, DispatchTypeOK
  <2>2. ~Unauthenticated
    OBVIOUS
  <2> QED BY <2>1, <2>2 DEF Unauthenticated, Token
<1>6. ReachedAsNamed'
  <2>1. ASSUME NEW t PROVE LeadsBack(t)' <=> LeadsBack(t)
    BY <1>2 DEF LeadsBack, HasDefault, Multiplexing, Undelimited
  <2>2. ASSUME NEW t, NEW x PROVE ResourceName(t, x)' = ResourceName(t, x)
    BY <1>2 DEF ResourceName, HasDefault, Multiplexing
  <2> QED BY <1>1, <1>2, <2>1, <2>2 DEF ReachedAsNamed
<1> QED BY <1>1, <1>3, <1>4, <1>5, <1>6 DEF DispatchIndInv

(* A handler that changes no list keeps what is known of the last one.     *)
LEMMA ListKept ==
  ASSUME DispatchIndInv, UNCHANGED <<backend, offers, listed>>
  PROVE  listed' \subseteq AllNames /\ ListedFrom'
<1>1. listed' \subseteq AllNames
  BY DEF DispatchIndInv, DispatchTypeOK
<1>2. ASSUME NEW t, NEW x PROVE ResourceName(t, x)' = ResourceName(t, x)
  BY DEF ResourceName, HasDefault, Multiplexing
<1>3. ASSUME NEW p PROVE Validate(p)' <=> Validate(p)
  BY DEF Validate
<1> QED BY <1>1, <1>2, <1>3 DEF DispatchIndInv, ListedFrom

LEMMA DispatchStep ==
  ASSUME DispatchIndInv, DispatchNext PROVE DispatchIndInv'
<1> DEFINE R == (Target \X Seq(Character)) \cup {<<t>> : t \in Target}
<1>0. DispatchTypeOK /\ backend.targets \subseteq Target
  BY DEF DispatchIndInv, DispatchTypeOK
<1>1. ASSUME NEW m \in Method, NEW n \in AllNames \cup {NoName}, NEW k \in Token,
             Receive(m, n, k)
      PROVE DispatchIndInv'
  <2>1. UNCHANGED <<backend, offers, listed>> /\ reached' = reached /\ reached = {}
    BY <1>1 DEF Receive, DispatchIndInv
  <2>2. listed' \subseteq AllNames /\ ListedFrom'
    BY <2>1, ListKept
  <2>3. DispatchTypeOK'
    <3>1. message' \in [method : Method, name : AllNames \cup {NoName}, token : Token]
      BY <1>1 DEF Receive
    <3> QED BY <1>1, <2>2, <3>1, <1>0 DEF Receive, DispatchTypeOK
  <2> QED BY <2>1, <2>2, <2>3 DEF DispatchIndInv, ReachedAsNamed, OnlyAllowedReached,
                              AuthenticatedFirst
<1>2. CASE RefuseUnauthenticated
  <2>1. Finish("unauthorized", {}) /\ UNCHANGED <<backend, offers, listed>>
    BY <1>2 DEF RefuseUnauthenticated, Finish
  <2>2. listed' \subseteq AllNames /\ ListedFrom'
    BY <2>1, ListKept
  <2> QED BY <2>1, <2>2, Finished
<1>3. ASSUME NEW a \in {"ok"}, Finish(a, Everyone), ~Unauthenticated,
             listed' \subseteq AllNames, ListedFrom'
      PROVE  DispatchIndInv'
  <2>1. Everyone \subseteq R
    BY <1>0 DEF Everyone
  <2>2. \A p \in Everyone : Len(p) # 2
    BY DEF Everyone
  <2> HIDE DEF Everyone, R
  <2> QED BY <1>3, <2>1, <2>2, Finished DEF R
<1>4. CASE HandleList
  <2> DEFINE O == {q \in backend.targets \X Tool : q[2] \in offers[q[1]] /\ Validate(q)}
  <2>1. UNCHANGED <<backend, offers>> /\ listed' = {ResourceName(p[1], p[2]) : p \in O}
    BY <1>4 DEF HandleList, Finish
  <2>2. ASSUME NEW t, NEW x PROVE ResourceName(t, x)' = ResourceName(t, x)
    BY <2>1 DEF ResourceName, HasDefault, Multiplexing
  <2>3. ASSUME NEW p PROVE Validate(p)' <=> Validate(p)
    BY <2>1 DEF Validate
  <2>4. ASSUME NEW n \in listed'
        PROVE  \E t \in backend.targets, x \in Tool :
                 x \in offers[t] /\ Validate(<<t, x>>) /\ n = ResourceName(t, x)
    <3>1. PICK p \in O : n = ResourceName(p[1], p[2])
      BY <2>1
    <3>2. /\ p[1] \in backend.targets /\ p[2] \in Tool /\ p = <<p[1], p[2]>>
          /\ p[2] \in offers[p[1]] /\ Validate(p)
      BY <3>1
    <3> QED BY <3>1, <3>2
  <2>5. ListedFrom'
    BY <2>1, <2>2, <2>3, <2>4 DEF ListedFrom
  <2>6. listed' \subseteq AllNames
    <3>1. ASSUME NEW t \in Target, NEW x \in Tool PROVE ResourceName(t, x) \in AllNames
      BY DEF ResourceName, AllNames
    <3> QED BY <1>0, <2>4, <3>1
  <2>7. Finish("ok", Everyone) /\ ~Unauthenticated
    BY <1>4 DEF HandleList
  <2> QED BY <1>3, <2>5, <2>6, <2>7
<1>5. CASE HandleFanOut
  <2>1. Finish("ok", Everyone) /\ ~Unauthenticated /\ UNCHANGED <<backend, offers, listed>>
    BY <1>5 DEF HandleFanOut, Finish
  <2>2. listed' \subseteq AllNames /\ ListedFrom'
    BY <2>1, ListKept
  <2> QED BY <1>3, <2>1, <2>2
<1>6. CASE HandleNamed
  <2> DEFINE n == message.name
             p == Parsed(n)
  <2>1. n \in AllNames \cup {NoName} /\ ~Unauthenticated
    BY <1>0, <1>6 DEF DispatchTypeOK, HandleNamed
  <2>2. UNCHANGED <<backend, offers, listed>>
    BY <1>6 DEF HandleNamed, Finish
  <2>3. listed' \subseteq AllNames /\ ListedFrom'
    BY <2>2, ListKept
  <2>4. ASSUME NEW a \in {"invalid", "unknown"}, Finish(a, {}) PROVE DispatchIndInv'
    BY <2>3, <2>4, Finished
  <2>5. ASSUME ~ParseFails(n), Validate(p), p[1] \in backend.targets, Finish("ok", {p})
        PROVE  DispatchIndInv'
    <3>1. p \in Target \X Seq(Character)
      BY Zenon, <1>0, <2>1, <2>5, ParsedTyped
    <3> DEFINE new == {p}
    <3> HIDE DEF p, R
    <3>2. new \subseteq R
      BY <3>1 DEF R
    <3>3. \A s \in new : Len(s) = 2 =>
            Validate(s) /\ LeadsBack(s[1]) /\ n = ResourceName(s[1], s[2])
      <4>1. LeadsBack(p[1]) /\ n = ResourceName(p[1], p[2])
        BY Zenon, <1>0, <2>1, <2>5, JoinsAgain DEF p
      <4> QED BY <2>5, <4>1
    <3>4. Finish("ok", new)
      BY <2>5
    <3> HIDE DEF new
    <3> QED BY <2>1, <2>3, <3>2, <3>3, <3>4, Finished DEF R
  <2>6. \/ Finish("invalid", {}) \/ Finish("unknown", {})
        \/ /\ ~ParseFails(n) /\ Validate(p) /\ p[1] \in backend.targets
           /\ Finish("ok", {p})
    <3> HIDE DEF p
    <3> QED BY Zenon, <1>6 DEF HandleNamed, p
  <2> QED BY <2>4, <2>5, <2>6
<1>7. CASE HandleResource
  <2> DEFINE n == message.name
             p == <<DefaultTarget, n>>
  <2>1. n \in AllNames \cup {NoName} /\ ~Unauthenticated
    BY <1>0, <1>7 DEF DispatchTypeOK, HandleResource
  <2>2. UNCHANGED <<backend, offers, listed>>
    BY <1>7 DEF HandleResource, Finish
  <2>3. listed' \subseteq AllNames /\ ListedFrom'
    BY <2>2, ListKept
  <2>4. ASSUME NEW a \in {"method", "unknown"}, Finish(a, {}) PROVE DispatchIndInv'
    BY <2>3, <2>4, Finished
  <2>5. ASSUME HasDefault, Validate(p), Finish("ok", {p}) PROVE DispatchIndInv'
    <3>1. DefaultTarget \in Target
      BY <1>0, <2>5, DefaultIsTheTarget
    <3>2. n \in Seq(Character)
      BY Zenon, <2>1, NamesTyped
    <3> DEFINE new == {p}
    <3> HIDE DEF n
    <3>3. p \in Target \X Seq(Character)
      BY <3>1, <3>2
    <3> HIDE DEF p, R
    <3>4. new \subseteq R
      BY <3>3 DEF R
    <3>5. \A s \in new : Len(s) = 2 =>
            Validate(s) /\ LeadsBack(s[1]) /\ message.name = ResourceName(s[1], s[2])
      <4>1. LeadsBack(p[1]) /\ message.name = ResourceName(p[1], p[2])
        BY <2>5 DEF LeadsBack, ResourceName, p, n
      <4> QED BY <2>5, <4>1
    <3>6. Finish("ok", new)
      BY <2>5
    <3> HIDE DEF new
    <3> QED BY <2>1, <2>3, <3>4, <3>5, <3>6, Finished DEF R
  <2>6. \/ Finish("method", {}) \/ Finish("unknown", {})
        \/ HasDefault /\ Validate(p) /\ Finish("ok", {p})
    <3> HIDE DEF p
    <3> QED BY Zenon, <1>7 DEF HandleResource, p
  <2> QED BY <2>4, <2>5, <2>6
<1>8. CASE HandleOneTarget
  <2>1. /\ ~Unauthenticated /\ UNCHANGED <<backend, offers, listed>>
        /\ \/ Finish("method", {})
           \/ HasDefault /\ Finish("ok", {<<DefaultTarget>>})
    BY <1>8 DEF HandleOneTarget, Finish
  <2>2. listed' \subseteq AllNames /\ ListedFrom'
    BY <2>1, ListKept
  <2>3. ASSUME Finish("method", {}) PROVE DispatchIndInv'
    BY <2>2, <2>3, Finished
  <2>4. ASSUME HasDefault, Finish("ok", {<<DefaultTarget>>}) PROVE DispatchIndInv'
    <3> DEFINE new == {<<DefaultTarget>>}
    <3>1. new \subseteq R
      BY <1>0, <2>4, DefaultIsTheTarget
    <3>2. \A p \in new : Len(p) # 2
      OBVIOUS
    <3> HIDE DEF new, R
    <3>3. Finish("ok", new)
      BY <2>4 DEF new
    <3> QED BY <2>1, <2>2, <3>1, <3>2, <3>3, Finished DEF R
  <2> QED BY <2>1, <2>3, <2>4
<1>9. CASE HandleUnsupported
  <2>1. Finish("method", {}) /\ UNCHANGED <<backend, offers, listed>>
    BY <1>9 DEF HandleUnsupported, Finish
  <2>2. listed' \subseteq AllNames /\ ListedFrom'
    BY <2>1, ListKept
  <2> QED BY <2>1, <2>2, Finished
<1>10. CASE NextMessage
  <2>1. UNCHANGED <<backend, offers, listed>> /\ reached' = {}
    BY <1>10 DEF NextMessage
  <2>2. listed' \subseteq AllNames /\ ListedFrom'
    BY <2>1, ListKept
  <2>3. DispatchTypeOK'
    BY <1>0, <1>10, <2>2
       DEF NextMessage, DispatchTypeOK, NoMessage, NoName, Method, FanOut, Token
  <2> QED BY <2>1, <2>2, <2>3 DEF DispatchIndInv, ReachedAsNamed, OnlyAllowedReached,
                              AuthenticatedFirst
<1> QED BY <1>1, <1>2, <1>4, <1>5, <1>6, <1>7, <1>8, <1>9, <1>10 DEF DispatchNext

LEMMA DispatchShows == DispatchIndInv => NamesDispatched
<1> SUFFICES ASSUME DispatchIndInv PROVE ListedIsCallable
  BY DEF DispatchIndInv, NamesDispatched
<1>0. DispatchTypeOK /\ ListedFrom
  BY DEF DispatchIndInv
<1>1. ASSUME NEW t \in backend.targets, NEW x \in Tool, LeadsBack(t)
      PROVE  ~ParseFails(ResourceName(t, x)) /\ Parsed(ResourceName(t, x)) = <<t, x>>
  BY <1>0, <1>1, NameLeadsBack
<1> DEFINE S == {t \in backend.targets : LeadsBack(t)}
<1>2. ASSUME NEW p \in S \X Tool, NEW q \in S \X Tool,
             ResourceName(p[1], p[2]) = ResourceName(q[1], q[2])
      PROVE  p = q
  <2>1. /\ p[1] \in backend.targets /\ LeadsBack(p[1]) /\ p[2] \in Tool /\ p = <<p[1], p[2]>>
        /\ q[1] \in backend.targets /\ LeadsBack(q[1]) /\ q[2] \in Tool /\ q = <<q[1], q[2]>>
    OBVIOUS
  <2>2. Parsed(ResourceName(p[1], p[2])) = <<p[1], p[2]>>
    BY <1>1, <2>1
  <2>3. Parsed(ResourceName(q[1], q[2])) = <<q[1], q[2]>>
    BY <1>1, <2>1
  <2> QED BY <1>2, <2>1, <2>2, <2>3
<1> HIDE DEF S
<1>3. /\ \A n \in listed : \E t \in backend.targets, x \in Tool :
           x \in offers[t] /\ Validate(<<t, x>>) /\ n = ResourceName(t, x)
      /\ \A t \in backend.targets, x \in Tool :
           LeadsBack(t) => ~ParseFails(ResourceName(t, x)) /\ Parsed(ResourceName(t, x)) = <<t, x>>
      /\ \A p, q \in S \X Tool : p # q => ResourceName(p[1], p[2]) # ResourceName(q[1], q[2])
  <2>1. \A p, q \in S \X Tool : p # q => ResourceName(p[1], p[2]) # ResourceName(q[1], q[2])
    BY <1>2
  <2> QED BY Zenon, <1>0, <1>1, <2>1 DEF ListedFrom
<1> QED BY Zenon, <1>3 DEF ListedIsCallable, S

(* For any targets, tools and rules, whatever their names: what an MCP     *)
(* client is shown is offered and allowed, and leads back to its tool if   *)
(* its target's name has no delimiter; a call reaches only what its name   *)
(* is the joined name of; nothing denied or unauthenticated reaches an     *)
(* upstream.                                                               *)
THEOREM NamesStayDispatched == DispatchSpec => []NamesDispatched
<1>1. DispatchIndInv /\ [DispatchNext]_dispatchVars => DispatchIndInv'
  <2> SUFFICES ASSUME DispatchIndInv, [DispatchNext]_dispatchVars PROVE DispatchIndInv'
    OBVIOUS
  <2>1. CASE UNCHANGED dispatchVars
    <3>0. UNCHANGED <<backend, offers, message, handling, listed, reached, answer>>
      BY <2>1 DEF dispatchVars
    <3>1. /\ \A t, x : ResourceName(t, x)' = ResourceName(t, x)
          /\ \A t : LeadsBack(t)' <=> LeadsBack(t)
          /\ \A p : Validate(p)' <=> Validate(p)
      BY <3>0 DEF ResourceName, LeadsBack, Undelimited, HasDefault, Multiplexing, Validate
    <3>2. ReachedAsNamed'
      BY <3>0, <3>1 DEF DispatchIndInv, ReachedAsNamed
    <3>3. ListedFrom'
      BY <3>0, <3>1 DEF DispatchIndInv, ListedFrom
    <3> QED BY <3>0, <3>2, <3>3 DEF DispatchIndInv, DispatchTypeOK, OnlyAllowedReached,
                                    AuthenticatedFirst
  <2> QED BY <2>1, DispatchStep
<1> QED BY <1>1, DispatchHoldsAtFirst, DispatchShows, PTL DEF DispatchSpec

-----------------------------------------------------------------------------
(***************************************************************************)
(* PolicyMerge: the policies of a request, for any number of policies at   *)
(* any targets and whatever the order in which hash sets are read.         *)
(***************************************************************************)

(* The two maps of the store, and what the merging needs of them.           *)
PolicyIndInv ==
  /\ PolicyTypeOK
  /\ byTarget \in [PolicyTarget -> SUBSET PolicyKey]
  /\ \A k \in DOMAIN byKey : byKey[k].target \in PolicyTarget

LEMMA PoliciesAtFirst == PolicyInit => PolicyIndInv
<1> SUFFICES ASSUME PolicyInit PROVE PolicyIndInv
  OBVIOUS
<1>1. DOMAIN byKey = {}
  BY DEF PolicyInit
<1> QED BY <1>1 DEF PolicyInit, PolicyIndInv, PolicyTypeOK

LEMMA PolicyInserted ==
  ASSUME PolicyIndInv, NEW k \in PolicyKey, NEW t \in PolicyTarget, NEW body,
         InsertPolicy(k, t, body)
  PROVE  PolicyIndInv'
<1> DEFINE D == DOMAIN byKey
           new == [target |-> t, body |-> body]
<1>1. D \subseteq PolicyKey /\ byTarget \in [PolicyTarget -> SUBSET PolicyKey]
  BY DEF PolicyIndInv, PolicyTypeOK
<1>2. /\ \A u \in PolicyTarget : byTarget[u] = {x \in D : byKey[x].target = u}
      /\ \A x \in D : byKey[x].target \in PolicyTarget
  BY DEF PolicyIndInv, PolicyTypeOK
<1>3. new.target = t
  OBVIOUS
<1> HIDE DEF new
<1>4. byKey' = [x \in D \cup {k} |-> IF x = k THEN new ELSE byKey[x]]
  BY DEF InsertPolicy, new
<1>5. /\ DOMAIN byKey' = D \cup {k} /\ byKey'[k] = new
      /\ \A x \in D : x # k => byKey'[x] = byKey[x]
  BY <1>4
<1>6. /\ Detached(k) \in [PolicyTarget -> SUBSET PolicyKey]
      /\ \A u \in PolicyTarget : Detached(k)[u] = {x \in D \ {k} : byKey[x].target = u}
  <2>1. CASE k \in D
    <3> DEFINE o == byKey[k].target
    <3>1. o \in PolicyTarget
      BY <1>2, <2>1
    <3>2. Detached(k) = [byTarget EXCEPT ![o] = byTarget[o] \ {k}]
      BY <2>1 DEF Detached
    <3> HIDE DEF D
    <3> QED BY <1>1, <1>2, <3>1, <3>2
  <2>2. CASE k \notin D
    <3>1. Detached(k) = byTarget
      BY <2>2 DEF Detached
    <3> QED BY <1>1, <1>2, <2>2, <3>1
  <2> QED BY <2>1, <2>2
<1> DEFINE d == Detached(k)
<1>7. byTarget' = [d EXCEPT ![t] = d[t] \cup {k}] /\ order' = order
  BY DEF InsertPolicy
<1> HIDE DEF d, D
<1>8. /\ byTarget' \in [PolicyTarget -> SUBSET PolicyKey]
      /\ \A u \in PolicyTarget : byTarget'[u] = IF u = t THEN d[u] \cup {k} ELSE d[u]
  BY <1>6, <1>7 DEF d
<1>9. \A u \in PolicyTarget : byTarget'[u] = {x \in D \cup {k} : byKey'[x].target = u}
  <2> TAKE u \in PolicyTarget
  <2>1. d[u] = {x \in D \ {k} : byKey[x].target = u}
    BY <1>6 DEF d
  <2>2. d[u] = {x \in D \ {k} : byKey'[x].target = u}
    BY <1>5, <2>1
  <2>3. byKey'[k].target = t
    BY <1>3, <1>5
  <2> QED BY <1>8, <2>2, <2>3
<1>10. \A x \in D \cup {k} : byKey'[x].target \in PolicyTarget
  BY <1>2, <1>3, <1>5
<1>11. order' \in Orders
  BY <1>7 DEF PolicyIndInv, PolicyTypeOK
<1>12. DOMAIN byKey' \subseteq PolicyKey
  BY <1>1, <1>5
<1> QED BY <1>5, <1>8, <1>9, <1>10, <1>11, <1>12 DEF PolicyIndInv, PolicyTypeOK

LEMMA PolicyRemoved ==
  ASSUME PolicyIndInv, NEW k \in PolicyKey, RemovePolicy(k)
  PROVE  PolicyIndInv'
<1> DEFINE D == DOMAIN byKey
           o == byKey[k].target
<1>1. D \subseteq PolicyKey /\ byTarget \in [PolicyTarget -> SUBSET PolicyKey]
  BY DEF PolicyIndInv, PolicyTypeOK
<1>2. /\ \A u \in PolicyTarget : byTarget[u] = {x \in D : byKey[x].target = u}
      /\ \A x \in D : byKey[x].target \in PolicyTarget
  BY DEF PolicyIndInv, PolicyTypeOK
<1>3. /\ k \in D /\ byKey' = [x \in D \ {k} |-> byKey[x]]
      /\ byTarget' = [byTarget EXCEPT ![o] = byTarget[o] \ {k}] /\ order' = order
  BY DEF RemovePolicy, Detached
<1>4. o \in PolicyTarget
  BY <1>2, <1>3
<1> HIDE DEF D, o
<1>5. DOMAIN byKey' = D \ {k} /\ \A x \in D \ {k} : byKey'[x] = byKey[x]
  BY <1>3
<1>6. /\ byTarget' \in [PolicyTarget -> SUBSET PolicyKey]
      /\ \A u \in PolicyTarget : byTarget'[u] = IF u = o THEN byTarget[u] \ {k} ELSE byTarget[u]
  BY <1>1, <1>3, <1>4
<1>7. \A u \in PolicyTarget : byTarget'[u] = {x \in D \ {k} : byKey'[x].target = u}
  BY <1>2, <1>5, <1>6 DEF o
<1>8. \A x \in D \ {k} : byKey'[x].target \in PolicyTarget
  BY <1>2, <1>5
<1>9. order' \in Orders
  BY <1>3 DEF PolicyIndInv, PolicyTypeOK
<1> QED BY <1>1, <1>5, <1>6, <1>7, <1>8, <1>9 DEF PolicyIndInv, PolicyTypeOK

(* Every key has a place in the order in which the hash sets are read.     *)
LEMMA EveryKeyIsRead ==
  ASSUME PolicyIndInv
  PROVE  DOMAIN order \subseteq Nat /\ \A k \in DOMAIN byKey : \E j \in DOMAIN order : order[j] = k
<1> DEFINE n == Cardinality(PolicyKey)
<1>1. n \in Nat
  BY PolicyKeyAssumption, FS_CardinalityType
<1>2. order \in Bijection(1..n, PolicyKey) /\ DOMAIN byKey \subseteq PolicyKey
  BY DEF PolicyIndInv, PolicyTypeOK, Orders
<1> HIDE DEF n
<1>3. order \in [1..n -> PolicyKey] /\ \A k \in PolicyKey : \E j \in 1..n : order[j] = k
  BY <1>2 DEF Bijection, Surjection
<1> QED BY <1>1, <1>2, <1>3

(* A path: each target once.                                               *)
Path(ts, n) ==
  /\ n \in Nat /\ DOMAIN ts = 1..n
  /\ \A i, j \in 1..n : ts[i] = ts[j] => i = j

LEMMA LevelFound ==
  ASSUME NEW ts, NEW n, Path(ts, n), NEW k, NEW i \in 1..n, ts[i] = byKey[k].target
  PROVE  Level(ts, k) = i
<1>1. \A j \in 1..n : ts[j] = byKey[k].target => j = i
  BY DEF Path
<1>2. DOMAIN ts = 1..n
  BY DEF Path
<1> QED BY <1>1, <1>2 DEF Level

(* The first place of some policies, each read once, is the nearest.       *)
LEMMA FirstIsNearest ==
  ASSUME PolicyIndInv, NEW ts, NEW n, Path(ts, n), NEW among, NEW R,
         among \subseteq {k \in DOMAIN byKey : byKey[k].target \in Range(ts)},
         R = {r \in (1..n) \X (DOMAIN order) :
                PolicyAt(r) \in among /\ byKey[PolicyAt(r)].target = ts[r[1]]}
  PROVE  Nearest(ts, Chosen(R), among)
<1>1. DOMAIN order \subseteq Nat /\ \A k \in DOMAIN byKey : \E j \in DOMAIN order : order[j] = k
  BY EveryKeyIsRead
<1>2. n \in Nat /\ DOMAIN ts = 1..n
  BY DEF Path
<1>3. ASSUME NEW k \in among
      PROVE  \E i \in 1..n, j \in DOMAIN order :
               <<i, j>> \in R /\ order[j] = k /\ Level(ts, k) = i
  <2>1. PICK i \in 1..n : ts[i] = byKey[k].target
    BY <1>2 DEF Range
  <2>2. PICK j \in DOMAIN order : order[j] = k
    BY <1>1
  <2>3. <<i, j>> \in R
    BY <2>1, <2>2 DEF PolicyAt
  <2>4. Level(ts, k) = i
    BY <2>1, LevelFound
  <2> QED BY <2>2, <2>3, <2>4
<1> DEFINE M == {r \in R : \A s \in R : ReadBefore(r, s)}
<1>4. Chosen(R) = {PolicyAt(r) : r \in M}
  BY DEF Chosen, PoliciesAt
<1>5. CASE among = {}
  <2>1. R = {}
    BY <1>5
  <2>2. Chosen(R) = {}
    BY <1>4, <2>1
  <2> QED BY <1>5, <2>2, FS_EmptySet DEF Nearest
<1>6. CASE among # {}
  <2>1. R # {}
    BY <1>3, <1>6
  <2> DEFINE I == {r[1] : r \in R}
  <2>2. I # {} /\ I \subseteq Nat
    BY <1>2, <2>1
  <2>3. PICK i \in I : \A h \in I : i <= h
    <3> HIDE DEF I
    <3> QED BY <2>2, LeastNatural
  <2> DEFINE J == {r[2] : r \in {s \in R : s[1] = i}}
  <2>4. J # {} /\ J \subseteq Nat
    BY <1>1, <2>3
  <2>5. PICK j \in J : \A h \in J : j <= h
    <3> HIDE DEF J
    <3> QED BY <2>4, LeastNatural
  <2>6. PICK m \in R : m[1] = i /\ m[2] = j
    BY <2>5
  <2>7. \A s \in R : s[1] \in Nat /\ s[2] \in Nat /\ s = <<s[1], s[2]>>
    BY <1>1, <1>2
  <2>8. \A s \in R : i <= s[1] /\ (s[1] = i => j <= s[2])
    BY <2>3, <2>5
  <2>9. m \in M
    <3> SUFFICES ASSUME NEW s \in R PROVE ReadBefore(m, s)
      OBVIOUS
    <3> QED BY <2>6, <2>7, <2>8 DEF ReadBefore
  <2>10. \A r \in M : r = m
    <3> SUFFICES ASSUME NEW r \in M PROVE r = m
      OBVIOUS
    <3>1. r \in R /\ ReadBefore(r, m) /\ ReadBefore(m, r)
      BY <2>6, <2>9
    <3>2. r[1] = m[1] /\ r[2] = m[2]
      BY <2>7, <3>1, <2>6 DEF ReadBefore
    <3> QED BY <2>7, <3>1, <3>2
  <2> DEFINE c == PolicyAt(m)
  <2>11. Chosen(R) = {c}
    BY <1>4, <2>9, <2>10
  <2>12. c \in among /\ byKey[c].target = ts[m[1]] /\ m[1] \in 1..n
    BY <2>6
  <2> HIDE DEF c, M
  <2>13. Level(ts, c) = i
    BY <2>6, <2>12, LevelFound
  <2>14. \A other \in among : i <= Level(ts, other)
    <3> SUFFICES ASSUME NEW other \in among PROVE i <= Level(ts, other)
      OBVIOUS
    <3>1. PICK a \in 1..n, b \in DOMAIN order : <<a, b>> \in R /\ Level(ts, other) = a
      BY <1>3
    <3>2. <<a, b>>[1] = a
      OBVIOUS
    <3> QED BY <2>8, <3>1, <3>2
  <2>15. Cardinality(Chosen(R)) = 1
    BY <2>11, FS_Singleton
  <2> QED BY <1>6, <2>11, <2>12, <2>13, <2>14, <2>15 DEF Nearest
<1> QED BY <1>5, <1>6

LEMMA PlacesOfKind ==
  ASSUME PolicyIndInv, NEW ts, NEW n, Path(ts, n), NEW type, NEW kind
  PROVE  OfKind(Rules(ts, type), kind) =
           {r \in (1..n) \X (DOMAIN order) :
              /\ PolicyAt(r) \in Applying(ts, type, kind)
              /\ byKey[PolicyAt(r)].target = ts[r[1]]}
<1> DEFINE ofType == {j \in DOMAIN order :
                       order[j] \in DOMAIN byKey /\ byKey[order[j]].body.type = type}
<1>1. DOMAIN ts = 1..n
  BY DEF Path
<1>2. Rules(ts, type) =
        {r \in (1..n) \X ofType :
           ts[r[1]] \in PolicyTarget /\ PolicyAt(r) \in byTarget[ts[r[1]]]}
  BY <1>1 DEF Rules
<1>3. ASSUME NEW r \in (1..n) \X (DOMAIN order)
      PROVE  r \in OfKind(Rules(ts, type), kind) <=>
               /\ PolicyAt(r) \in Applying(ts, type, kind)
               /\ byKey[PolicyAt(r)].target = ts[r[1]]
  <2> DEFINE k == PolicyAt(r)
             u == ts[r[1]]
  <2>1. k = order[r[2]] /\ r[1] \in 1..n /\ r[2] \in DOMAIN order /\ r = <<r[1], r[2]>>
    BY DEF PolicyAt
  <2>2. u \in Range(ts)
    BY <1>1, <2>1 DEF Range
  <2>3. u \in PolicyTarget =>
          (k \in byTarget[u] <=> k \in DOMAIN byKey /\ byKey[k].target = u)
    BY DEF PolicyIndInv, PolicyTypeOK
  <2>4. k \in DOMAIN byKey => byKey[k].target \in PolicyTarget
    BY DEF PolicyIndInv
  <2>5. r \in OfKind(Rules(ts, type), kind) <=>
          /\ k \in DOMAIN byKey /\ byKey[k].body.type = type /\ byKey[k].body.kind = kind
          /\ u \in PolicyTarget /\ k \in byTarget[u]
    BY <1>2, <2>1 DEF OfKind
  <2>6. k \in Applying(ts, type, kind) <=>
          /\ k \in DOMAIN byKey /\ byKey[k].target \in Range(ts)
          /\ byKey[k].body.type = type /\ byKey[k].body.kind = kind
    BY DEF Applying
  <2> HIDE DEF k, u
  <2>7. r \in OfKind(Rules(ts, type), kind) <=>
          k \in Applying(ts, type, kind) /\ byKey[k].target = u
    BY <2>2, <2>3, <2>4, <2>5, <2>6
  <2> QED BY <2>7 DEF k, u
<1>4. OfKind(Rules(ts, type), kind) \subseteq (1..n) \X (DOMAIN order)
  BY <1>2 DEF OfKind
<1> QED BY <1>3, <1>4

(* The first of a kind along a path is the nearest of that kind.            *)
LEMMA FirstOfKind ==
  ASSUME PolicyIndInv, NEW ts, NEW n, Path(ts, n), NEW type, NEW kind
  PROVE  Nearest(ts, Chosen(OfKind(Rules(ts, type), kind)), Applying(ts, type, kind))
<1> DEFINE A == Applying(ts, type, kind)
           R == OfKind(Rules(ts, type), kind)
<1>1. A \subseteq {k \in DOMAIN byKey : byKey[k].target \in Range(ts)}
  BY DEF Applying
<1>2. R = {r \in (1..n) \X (DOMAIN order) :
             PolicyAt(r) \in A /\ byKey[PolicyAt(r)].target = ts[r[1]]}
  BY PlacesOfKind
<1> HIDE DEF A, R
<1>3. Nearest(ts, Chosen(R), A)
  BY <1>1, <1>2, FirstIsNearest
<1> QED BY <1>3 DEF A, R

LEMMA FirstList ==
  ASSUME PolicyIndInv, NEW ts, NEW n, Path(ts, n), NEW type
  PROVE  Nearest(ts, Chosen({r \in OfKind(Rules(ts, type), "list") : ~byKey[PolicyAt(r)].body.empty}),
                 {k \in Applying(ts, type, "list") : ~byKey[k].body.empty})
<1> DEFINE L == Applying(ts, type, "list")
           A == {k \in L : ~byKey[k].body.empty}
           Q == OfKind(Rules(ts, type), "list")
           R == {r \in Q : ~byKey[PolicyAt(r)].body.empty}
<1>1. L \subseteq {k \in DOMAIN byKey : byKey[k].target \in Range(ts)}
  BY DEF Applying
<1>2. Q = {r \in (1..n) \X (DOMAIN order) :
             PolicyAt(r) \in L /\ byKey[PolicyAt(r)].target = ts[r[1]]}
  BY PlacesOfKind
<1> HIDE DEF L, Q
<1>3. A \subseteq {k \in DOMAIN byKey : byKey[k].target \in Range(ts)}
  BY <1>1
<1>4. R = {r \in (1..n) \X (DOMAIN order) :
             PolicyAt(r) \in A /\ byKey[PolicyAt(r)].target = ts[r[1]]}
  BY <1>2
<1> HIDE DEF A, R
<1>5. Nearest(ts, Chosen(R), A)
  BY <1>3, <1>4, FirstIsNearest
<1> QED BY <1>5 DEF A, R, L, Q

(* What is nearest on a path is so on one that goes on after others.        *)
LEMMA NearestFarther ==
  ASSUME NEW ts, NEW n, Path(ts, n), NEW us, NEW m, Path(us, m), NEW d \in Nat,
         \A i \in 1..n : i + d \in 1..m /\ us[i + d] = ts[i],
         NEW choice, NEW among,
         among \subseteq {k \in DOMAIN byKey : byKey[k].target \in Range(ts)},
         Nearest(ts, choice, among)
  PROVE  Nearest(us, choice, among)
<1>1. ASSUME NEW k \in among
      PROVE  Level(ts, k) \in Nat /\ Level(us, k) = Level(ts, k) + d
  <2>1. PICK i \in 1..n : ts[i] = byKey[k].target
    BY DEF Path, Range
  <2>2. n \in Nat /\ i \in Nat
    BY DEF Path
  <2> DEFINE j == i + d
  <2>3. j \in 1..m /\ us[j] = byKey[k].target
    BY <2>1
  <2> HIDE DEF j
  <2>4. Level(ts, k) = i /\ Level(us, k) = j
    BY <2>1, <2>3, LevelFound
  <2> QED BY <2>2, <2>4 DEF j
<1>2. /\ Cardinality(choice) = (IF among = {} THEN 0 ELSE 1) /\ choice \subseteq among
      /\ \A k \in choice, other \in among : Level(ts, k) <= Level(ts, other)
  BY Zenon DEF Nearest
<1>3. \A k \in choice, other \in among : Level(us, k) <= Level(us, other)
  <2> SUFFICES ASSUME NEW k \in choice, NEW other \in among
               PROVE  Level(us, k) <= Level(us, other)
    OBVIOUS
  <2>1. k \in among
    BY <1>2
  <2>2. /\ Level(ts, k) \in Nat /\ Level(us, k) = Level(ts, k) + d
        /\ Level(ts, other) \in Nat /\ Level(us, other) = Level(ts, other) + d
    BY <1>1, <2>1
  <2>3. Level(ts, k) <= Level(ts, other)
    BY <1>2
  <2> QED BY <2>2, <2>3
<1> QED BY Zenon, <1>2, <1>3 DEF Nearest

LEMMA PathsOfRequests ==
  /\ Path(RouteLevels, 4) /\ Path(<<"listener", "gateway">>, 2)
  /\ Path(BackendLevels, 6) /\ Path(<<"section">>, 1)
  /\ Path(GroupLevels, 5) /\ Path(TargetLevels, 6)
<1>1. Path(RouteLevels, 4)
  BY DEF Path, RouteLevels
<1>2. Path(<<"listener", "gateway">>, 2)
  BY DEF Path
<1>3. Path(BackendLevels, 6)
  BY DEF Path, BackendLevels
<1>4. Path(<<"section">>, 1)
  BY DEF Path
<1>5. Path(GroupLevels, 5)
  BY DEF Path, GroupLevels
<1>6. Path(TargetLevels, 6)
  BY DEF Path, TargetLevels
<1> QED BY <1>1, <1>2, <1>3, <1>4, <1>5, <1>6

LEMMA MergedParts ==
  ASSUME NEW rules
  PROVE  /\ Merged(rules).first = Chosen(OfKind(rules, "first"))
         /\ Merged(rules).list =
              Chosen({r \in OfKind(rules, "list") : ~byKey[PolicyAt(r)].body.empty})
         /\ Merged(rules).authz = PoliciesAt(OfKind(rules, "authz"))
BY DEF Merged

(* The policies of one of several targets: its own before the group's.      *)
LEMMA TargetNearest ==
  ASSUME PolicyIndInv
  PROVE  Nearest(TargetLevels, TargetPolicies.first, Applying(BackendLevels, "backend", "first"))
<1> DEFINE sec == <<"section">>
           S == Applying(sec, "backend", "first")
           G == Applying(GroupLevels, "backend", "first")
           A == Applying(BackendLevels, "backend", "first")
           s == Chosen(OfKind(Rules(sec, "backend"), "first"))
           g == Chosen(OfKind(Rules(GroupLevels, "backend"), "first"))
           t == TargetPolicies.first
<1>1. t = Or(g, s)
  <2>1. SubBackendPolicies.first = s /\ Merged(Rules(GroupLevels, "backend")).first = g
    BY MergedParts DEF SubBackendPolicies
  <2>2. TargetPolicies.first = Or(Merged(Rules(GroupLevels, "backend")).first, SubBackendPolicies.first)
    BY DEF TargetPolicies, Overlaid
  <2> QED BY <2>1, <2>2
<1>2. Nearest(sec, s, S) /\ Nearest(GroupLevels, g, G)
  BY PathsOfRequests, FirstOfKind
<1>3. A = S \cup G
  <2>1. Range(BackendLevels) = Range(sec) \cup Range(GroupLevels)
    <3>1. Range(sec) = {"section"}
      BY DEF Range
    <3>2. Range(GroupLevels) = {"rule", "route", "backend", "listener", "gateway"}
      BY DEF Range, GroupLevels
    <3>3. Range(BackendLevels) = {"rule", "section", "route", "backend", "listener", "gateway"}
      BY DEF Range, BackendLevels
    <3> QED BY <3>1, <3>2, <3>3
  <2> HIDE DEF sec
  <2> QED BY <2>1 DEF Applying
<1>4. /\ S \subseteq {k \in DOMAIN byKey : byKey[k].target = "section"}
      /\ A \subseteq {k \in DOMAIN byKey : byKey[k].target \in Range(TargetLevels)}
      /\ G \subseteq {k \in DOMAIN byKey : byKey[k].target \in Range(GroupLevels)}
  <2>1. Range(sec) = {"section"}
    BY DEF Range
  <2>2. Range(TargetLevels) = Range(BackendLevels)
    <3>1. Range(TargetLevels) = {"rule", "section", "route", "backend", "listener", "gateway"}
      BY DEF Range, TargetLevels
    <3>2. Range(BackendLevels) = {"rule", "section", "route", "backend", "listener", "gateway"}
      BY DEF Range, BackendLevels
    <3> QED BY <3>1, <3>2
  <2> HIDE DEF sec
  <2> QED BY <2>1, <2>2 DEF Applying
<1>5. /\ Cardinality(s) = (IF S = {} THEN 0 ELSE 1) /\ s \subseteq S
  BY Zenon, <1>2 DEF Nearest
<1> HIDE DEF S, G, A, s, g, t, sec
<1>6. CASE s = {}
  <2>1. S = {}
    BY <1>5, <1>6, FS_EmptySet
  <2>2. t = g /\ A = G
    BY <1>1, <1>3, <1>6, <2>1 DEF Or
  <2>3. Nearest(TargetLevels, g, G)
    <3>1. \A i \in 1..5 : i + 1 \in 1..6 /\ TargetLevels[i + 1] = GroupLevels[i]
      BY DEF TargetLevels, GroupLevels
    <3>2. Path(GroupLevels, 5) /\ Path(TargetLevels, 6) /\ 1 \in Nat
      BY PathsOfRequests
    <3>3. Nearest(GroupLevels, g, G)
      BY <1>2
    <3> QED BY <1>4, <3>1, <3>2, <3>3, NearestFarther
  <2> QED BY <2>2, <2>3 DEF A, t
<1>7. CASE s # {}
  <2>1. t = s /\ S # {} /\ A # {}
    BY <1>1, <1>3, <1>5, <1>7 DEF Or
  <2>2. TargetLevels[1] = "section" /\ 1 \in 1..6
    BY DEF TargetLevels
  <2>3. Path(TargetLevels, 6)
    BY PathsOfRequests
  <2>4. \A k \in S : Level(TargetLevels, k) = 1
    BY <1>4, <2>2, <2>3, LevelFound
  <2>5. \A k \in A : Level(TargetLevels, k) \in 1..6
    <3> SUFFICES ASSUME NEW k \in A PROVE Level(TargetLevels, k) \in 1..6
      OBVIOUS
    <3>1. byKey[k].target \in Range(TargetLevels) /\ DOMAIN TargetLevels = 1..6
      BY <1>4, <2>3 DEF Path
    <3>2. PICK i \in 1..6 : TargetLevels[i] = byKey[k].target
      BY <3>1 DEF Range
    <3>3. Level(TargetLevels, k) = i
      BY <2>3, <3>2, LevelFound
    <3> QED BY <3>3
  <2>6. Nearest(TargetLevels, s, A)
    <3>1. Cardinality(s) = 1 /\ s \subseteq A
      BY <1>3, <1>5, <2>1
    <3>2. \A k \in s, other \in A : Level(TargetLevels, k) <= Level(TargetLevels, other)
      BY <1>5, <2>4, <2>5
    <3> QED BY <2>1, <3>1, <3>2 DEF Nearest
  <2> QED BY <2>1, <2>6 DEF A, t
<1> QED BY <1>6, <1>7

LEMMA NearestAlways == PolicyIndInv => NearestWins
<1> SUFFICES ASSUME PolicyIndInv PROVE NearestWins
  OBVIOUS
<1>1. Nearest(RouteLevels, RoutePolicies.first, Applying(RouteLevels, "route", "first"))
  <2>1. RoutePolicies.first = Chosen(OfKind(Rules(RouteLevels, "route"), "first"))
    BY MergedParts DEF RoutePolicies
  <2> QED BY <2>1, PathsOfRequests, FirstOfKind
<1>2. Nearest(RouteLevels, RoutePolicies.list,
              {k \in Applying(RouteLevels, "route", "list") : ~byKey[k].body.empty})
  <2>1. RoutePolicies.list =
          Chosen({r \in OfKind(Rules(RouteLevels, "route"), "list") : ~byKey[PolicyAt(r)].body.empty})
    BY Zenon, MergedParts DEF RoutePolicies
  <2>2. Path(RouteLevels, 4)
    BY PathsOfRequests
  <2> QED BY Zenon, <2>1, <2>2, FirstList
<1>3. Nearest(BackendLevels, BackendPolicies.first, Applying(BackendLevels, "backend", "first"))
  <2>1. BackendPolicies.first = Chosen(OfKind(Rules(BackendLevels, "backend"), "first"))
    BY MergedParts DEF BackendPolicies
  <2> QED BY <2>1, PathsOfRequests, FirstOfKind
<1>4. Nearest(TargetLevels, TargetPolicies.first, Applying(BackendLevels, "backend", "first"))
  BY TargetNearest
<1>5. Nearest(RouteLevels, GatewayPolicies.first,
              Applying(<<"listener", "gateway">>, "gateway", "first"))
  <2> DEFINE ts == <<"listener", "gateway">>
             A == Applying(ts, "gateway", "first")
  <2>1. GatewayPolicies.first = Chosen(OfKind(Rules(ts, "gateway"), "first"))
    BY MergedParts DEF GatewayPolicies
  <2>2. Path(ts, 2) /\ Path(RouteLevels, 4)
    BY PathsOfRequests
  <2>3. \A i \in 1..2 : i + 2 \in 1..4 /\ RouteLevels[i + 2] = ts[i]
    BY DEF RouteLevels
  <2> HIDE DEF ts
  <2>4. Nearest(ts, GatewayPolicies.first, A)
    BY <2>1, <2>2, FirstOfKind
  <2>5. A \subseteq {k \in DOMAIN byKey : byKey[k].target \in Range(ts)}
    BY DEF Applying
  <2> HIDE DEF A
  <2>6. Nearest(RouteLevels, GatewayPolicies.first, A)
    <3>1. 2 \in Nat
      OBVIOUS
    <3> QED BY <2>2, <2>3, <2>4, <2>5, <3>1, NearestFarther
  <2> QED BY <2>6 DEF A, ts
<1> QED BY Zenon, <1>1, <1>2, <1>3, <1>4, <1>5 DEF NearestWins

(* Authorization: all of the path.                                         *)
LEMMA AllOfPath ==
  ASSUME PolicyIndInv, NEW ts, NEW n, Path(ts, n), NEW type, NEW kind
  PROVE  PoliciesAt(OfKind(Rules(ts, type), kind)) = Applying(ts, type, kind)
<1> DEFINE A == Applying(ts, type, kind)
           R == OfKind(Rules(ts, type), kind)
<1>1. R = {r \in (1..n) \X (DOMAIN order) :
             PolicyAt(r) \in A /\ byKey[PolicyAt(r)].target = ts[r[1]]}
  BY PlacesOfKind
<1>2. A \subseteq {k \in DOMAIN byKey : byKey[k].target \in Range(ts)}
  BY DEF Applying
<1> HIDE DEF A, R
<1>3. ASSUME NEW k \in A PROVE \E r \in R : PolicyAt(r) = k
  <2>1. PICK i \in 1..n : ts[i] = byKey[k].target
    BY <1>2 DEF Path, Range
  <2>2. PICK j \in DOMAIN order : order[j] = k
    BY <1>2, EveryKeyIsRead
  <2>3. PolicyAt(<<i, j>>) = k /\ <<i, j>>[1] = i
    BY <2>2 DEF PolicyAt
  <2> QED BY <1>1, <2>1, <2>2, <2>3
<1>4. PoliciesAt(R) = A
  BY <1>1, <1>3 DEF PoliciesAt
<1> QED BY <1>4 DEF A, R

(* What is chosen of some rules is of their type.                          *)
LEMMA ChosenOfType ==
  ASSUME NEW ts, NEW type, NEW m, m = Merged(Rules(ts, type)),
         NEW k \in m.first \cup m.list \cup m.authz
  PROVE  byKey[k].body.type = type
<1> DEFINE R == Rules(ts, type)
<1>1. \A r \in R : byKey[PolicyAt(r)].body.type = type
  BY DEF Rules, PolicyAt
<1>2. /\ m.first = Chosen(OfKind(R, "first"))
      /\ m.list = Chosen({r \in OfKind(R, "list") : ~byKey[PolicyAt(r)].body.empty})
      /\ m.authz = PoliciesAt(OfKind(R, "authz"))
  BY Zenon, MergedParts
<1> HIDE DEF R
<1>3. \A r \in R : PolicyAt(r) = k => byKey[k].body.type = type
  BY <1>1
<1>4. \E r \in R : PolicyAt(r) = k
  BY <1>2 DEF Chosen, PoliciesAt, OfKind
<1> QED BY <1>3, <1>4

(* A request gets, of each kind, the policy of the most specific object on *)
(* its path, whatever the order in which the hash sets are read, an empty  *)
(* list hiding none; every authorization policy of the path, or for one of *)
(* several targets those of its own when it has some; and no policy in two *)
(* phases.  For any policies and any history of updates and moves.  *)
THEOREM PoliciesStayConsistent == PolicySpec => []PoliciesConsistent
<1>1. PolicyInit => PolicyIndInv
  BY PoliciesAtFirst
<1>2. PolicyIndInv /\ [PolicyNext]_policyVars => PolicyIndInv'
  <2> SUFFICES ASSUME PolicyIndInv, [PolicyNext]_policyVars PROVE PolicyIndInv'
    OBVIOUS
  <2>1. CASE PolicyNext
    <3>1. PICK k \in PolicyKey :
            RemovePolicy(k) \/ \E t \in PolicyTarget, body \in PolicyBody : InsertPolicy(k, t, body)
      BY Zenon, <2>1 DEF PolicyNext
    <3> QED BY <3>1, PolicyInserted, PolicyRemoved
  <2>2. CASE UNCHANGED policyVars
    BY <2>2 DEF policyVars, PolicyIndInv, PolicyTypeOK
  <2> QED BY <2>1, <2>2
<1>3. PolicyIndInv => AuthorizationAdds
  <2> SUFFICES ASSUME PolicyIndInv PROVE AuthorizationAdds
    OBVIOUS
  <2>1. /\ RoutePolicies.authz = PoliciesAt(OfKind(Rules(RouteLevels, "route"), "authz"))
        /\ BackendPolicies.authz = PoliciesAt(OfKind(Rules(BackendLevels, "backend"), "authz"))
    BY MergedParts DEF RoutePolicies, BackendPolicies
  <2>2. /\ Path(RouteLevels, 4) /\ Path(BackendLevels, 6)
        /\ Path(GroupLevels, 5) /\ Path(<<"section">>, 1)
    BY PathsOfRequests
  <2>3. /\ RoutePolicies.authz = Applying(RouteLevels, "route", "authz")
        /\ BackendPolicies.authz = Applying(BackendLevels, "backend", "authz")
    BY <2>1, <2>2, AllOfPath
  <2>4. /\ SubBackendPolicies.authz = Applying(<<"section">>, "backend", "authz")
        /\ Merged(Rules(GroupLevels, "backend")).authz = Applying(GroupLevels, "backend", "authz")
    <3>1. /\ SubBackendPolicies.authz = PoliciesAt(OfKind(Rules(<<"section">>, "backend"), "authz"))
          /\ Merged(Rules(GroupLevels, "backend")).authz
               = PoliciesAt(OfKind(Rules(GroupLevels, "backend"), "authz"))
      BY MergedParts DEF SubBackendPolicies
    <3> QED BY <3>1, <2>2, AllOfPath
  <2>5. TargetPolicies.authz
          = Or(Merged(Rules(GroupLevels, "backend")).authz, SubBackendPolicies.authz)
    BY DEF TargetPolicies, Overlaid
  <2> DEFINE own == Applying(<<"section">>, "backend", "authz")
  <2>6. TargetPolicies.authz = IF own # {} THEN own ELSE Applying(GroupLevels, "backend", "authz")
    BY <2>4, <2>5 DEF Or
  <2> QED BY Zenon, <2>3, <2>6 DEF AuthorizationAdds
<1>4. PhasesAreApart
  <2> DEFINE keys(p) == p.first \cup p.list \cup p.authz
  <2>1. /\ \A k \in keys(RoutePolicies) : byKey[k].body.type = "route"
        /\ \A k \in keys(GatewayPolicies) : byKey[k].body.type = "gateway"
        /\ \A k \in keys(BackendPolicies) : byKey[k].body.type = "backend"
    BY ChosenOfType DEF RoutePolicies, GatewayPolicies, BackendPolicies
  <2> DEFINE r == keys(RoutePolicies)
             g == keys(GatewayPolicies)
             b == keys(BackendPolicies)
  <2> HIDE DEF r, g, b
  <2>2. r \cap g = {} /\ (r \cup g) \cap b = {}
    <3>1. /\ \A k \in r : byKey[k].body.type = "route"
          /\ \A k \in g : byKey[k].body.type = "gateway"
          /\ \A k \in b : byKey[k].body.type = "backend"
      BY Zenon, <2>1 DEF r, g, b
    <3> QED BY <3>1
  <2> QED BY Zenon, <2>2 DEF PhasesAreApart, r, g, b
<1>5. PolicyIndInv => PoliciesConsistent
  BY <1>3, <1>4, NearestAlways DEF PoliciesConsistent, PolicyIndInv
<1> QED BY <1>1, <1>2, <1>5, PTL DEF PolicySpec

-----------------------------------------------------------------------------
(***************************************************************************)
(* LlmExchange: a call of a language model, for any policy, provider,      *)
(* conversation and webhook.                                               *)
(***************************************************************************)

(* The place of an element among some places of a list.                    *)
Rank(places, i) == Cardinality({j \in places : j <= i})

LEMMA RanksDiffer ==
  ASSUME NEW n \in Nat, NEW K, K \subseteq 1..n
  PROVE  /\ IsFiniteSet(K) /\ Cardinality(K) \in Nat
         /\ \A i \in K : Rank(K, i) \in 1..Cardinality(K)
         /\ \A i, j \in K : Rank(K, i) = Rank(K, j) => i = j
<1>1. IsFiniteSet(1..n)
  BY FS_Interval
<1>2. IsFiniteSet(K) /\ Cardinality(K) \in Nat
  BY <1>1, FS_Subset, FS_CardinalityType
<1> DEFINE U(i) == {j \in K : j <= i}
<1>3. \A i \in K : /\ IsFiniteSet(U(i)) /\ Cardinality(U(i)) \in Nat
                   /\ Cardinality(U(i)) <= Cardinality(K) /\ Cardinality(U(i)) # 0
  <2> SUFFICES ASSUME NEW i \in K
               PROVE /\ IsFiniteSet(U(i)) /\ Cardinality(U(i)) \in Nat
                     /\ Cardinality(U(i)) <= Cardinality(K) /\ Cardinality(U(i)) # 0
    OBVIOUS
  <2>1. U(i) \in SUBSET K /\ i \in U(i)
    OBVIOUS
  <2> HIDE DEF U
  <2>2. IsFiniteSet(U(i)) /\ Cardinality(U(i)) <= Cardinality(K)
    BY <1>2, <2>1, FS_Subset
  <2> QED BY <2>1, <2>2, FS_CardinalityType, FS_EmptySet
<1>4. ASSUME NEW i \in K, NEW j \in K, i < j PROVE Cardinality(U(i)) # Cardinality(U(j))
  <2>1. i \in Int /\ j \in Int /\ \A x \in K : x \in Int
    OBVIOUS
  <2>2. \A x \in K : x <= i => x <= j
    BY <1>4, <2>1
  <2>3. U(i) \in SUBSET U(j)
    BY <2>2
  <2>4. j <= j /\ ~(j <= i)
    BY <1>4, <2>1
  <2>5. U(i) \in SUBSET U(j) /\ j \in U(j) /\ j \notin U(i)
    BY <2>3, <2>4
  <2> HIDE DEF U
  <2> QED BY <1>3, <2>5, FS_Subset
<1>5. \A i \in K : Rank(K, i) = Cardinality(U(i))
  BY DEF Rank
<1> HIDE DEF U
<1>6. \A i, j \in K : Rank(K, i) = Rank(K, j) => i = j
  <2> SUFFICES ASSUME NEW i \in K, NEW j \in K, Rank(K, i) = Rank(K, j), i # j PROVE FALSE
    OBVIOUS
  <2>1. i < j \/ j < i
    OBVIOUS
  <2> QED BY <1>4, <1>5, <2>1
<1>7. \A i \in K : Rank(K, i) \in 1..Cardinality(K)
  BY <1>2, <1>3, <1>5
<1> QED BY <1>2, <1>6, <1>7

LEMMA RanksExist ==
  ASSUME NEW n \in Nat, NEW K, K \subseteq 1..n, NEW m \in 1..Cardinality(K)
  PROVE  \E i \in K : Rank(K, i) = m
<1> DEFINE f == [i \in K |-> Rank(K, i)]
           T == 1..Cardinality(K)
<1>1. f \in Injection(K, T)
  BY RanksDiffer DEF Injection, IsInjective
<1>2. IsFiniteSet(T) /\ Cardinality(T) = Cardinality(K)
  <2>1. Cardinality(K) \in Nat
    BY RanksDiffer
  <2>2. IsFiniteSet(1..Cardinality(K)) /\ Cardinality(1..Cardinality(K)) = Cardinality(K)
    BY <2>1, FS_Interval
  <2> QED BY <2>2
<1>3. f \in Surjection(K, T)
  <2> HIDE DEF f, T
  <2> QED BY <1>1, <1>2, FS_Injection
<1> QED BY <1>3 DEF Surjection

LEMMA RankOfFirst ==
  ASSUME NEW n \in Nat, NEW K, K \subseteq 1..n, NEW k \in Nat, 1..k \subseteq K, NEW i \in 1..k
  PROVE  Rank(K, i) = i
<1>1. i \in Int /\ i >= 1 /\ \A x \in K : x \in Int /\ x >= 1
  OBVIOUS
<1>2. \A x \in 1..i : x \in K
  OBVIOUS
<1> DEFINE U == {j \in K : j <= i}
<1>3. \A x \in 1..i : x <= i
  BY <1>1
<1>4. \A x \in U : x \in 1..i
  BY <1>1
<1>5. \A x \in 1..i : x \in U
  BY <1>2, <1>3
<1>6. U = 1..i
  <2> HIDE DEF U
  <2> QED BY <1>4, <1>5
<1>7. Cardinality(1..i) = i
  BY <1>1, FS_Interval
<1> QED BY <1>6, <1>7 DEF Rank

(* What is at some places of a list: each of them once, and what stands    *)
(* before all that is left out stays where it is.                          *)
LEMMA AtPlacesIs ==
  ASSUME NEW s, NEW n \in Nat, NEW K, K \subseteq 1..n
  PROVE  /\ Cardinality(K) \in Nat
         /\ AtPlaces(s, K) = [m \in 1..Cardinality(K) |-> AtPlaces(s, K)[m]]
         /\ \A m \in 1..Cardinality(K) : \E i \in K : AtPlaces(s, K)[m] = s[i]
         /\ \A k \in Nat : 1..k \subseteq K =>
              \A i \in 1..k : i \in 1..Cardinality(K) /\ AtPlaces(s, K)[i] = s[i]
<1> DEFINE P(m) == CHOOSE i \in K : Rank(K, i) = m
<1>1. AtPlaces(s, K) = [m \in 1..Cardinality(K) |-> s[P(m)]]
  BY DEF AtPlaces, Rank
<1>2. \A m \in 1..Cardinality(K) : P(m) \in K /\ Rank(K, P(m)) = m
  BY RanksExist
<1> HIDE DEF P
<1>3. ASSUME NEW k \in Nat, 1..k \subseteq K, NEW i \in 1..k
      PROVE  i \in 1..Cardinality(K) /\ AtPlaces(s, K)[i] = s[i]
  <2>1. i \in K /\ Rank(K, i) = i
    BY <1>3, RankOfFirst
  <2>2. i \in 1..Cardinality(K)
    <3>1. Rank(K, i) \in 1..Cardinality(K)
      BY <2>1, RanksDiffer
    <3> QED BY <2>1, <3>1
  <2>3. P(i) = i
    BY <1>2, <2>1, <2>2, RanksDiffer
  <2> QED BY <1>1, <2>2, <2>3
<1>4. Cardinality(K) \in Nat
  BY RanksDiffer
<1> QED BY <1>1, <1>2, <1>3, <1>4

(* Conversations.                                                          *)
LEMMA ConversationParts ==
  ASSUME NEW s, Conversation(s)
  PROVE  /\ Len(s) \in Nat /\ DOMAIN s = 1..Len(s) /\ s = [i \in 1..Len(s) |-> s[i]]
         /\ \A i \in 1..Len(s) : IsMessage(s[i])
<1>1. s \in Seq({s[i] : i \in DOMAIN s}) /\ \A i \in DOMAIN s : IsMessage(s[i])
  BY DEF Conversation
<1>2. Len(s) \in Nat /\ s \in [1..Len(s) -> {s[i] : i \in DOMAIN s}] /\ DOMAIN s = 1..Len(s)
  BY <1>1, LenProperties
<1> QED BY <1>1, <1>2

LEMMA ConversationMade ==
  ASSUME NEW n \in Nat, NEW s, s = [i \in 1..n |-> s[i]], \A i \in 1..n : IsMessage(s[i])
  PROVE  Conversation(s) /\ Len(s) = n /\ DOMAIN s = 1..n
<1> DEFINE T == {s[i] : i \in DOMAIN s}
<1>1. DOMAIN s = 1..n
  OBVIOUS
<1>2. s \in [1..n -> T]
  BY <1>1
<1> HIDE DEF T
<1>3. s \in Seq(T)
  BY <1>2, SeqDef
<1>4. Len(s) = n
  <2>1. Len(s) \in Nat /\ DOMAIN s = 1..Len(s)
    BY <1>3, LenProperties
  <2>2. 1..Len(s) = 1..n
    BY <1>1, <2>1
  <2>3. \A m \in Nat : 1..m = 1..n => m = n
    <3> SUFFICES ASSUME NEW m \in Nat, 1..m = 1..n PROVE m = n
      OBVIOUS
    <3>1. m # 0 => m \in 1..n
      OBVIOUS
    <3>2. n # 0 => n \in 1..m
      OBVIOUS
    <3> QED BY <3>1, <3>2
  <2> QED BY <2>1, <2>2, <2>3
<1> QED BY <1>1, <1>3, <1>4 DEF Conversation, T

LEMMA ConversationsJoined ==
  ASSUME NEW s, NEW t, Conversation(s), Conversation(t)
  PROVE  /\ Conversation(s \o t) /\ Len(s \o t) = Len(s) + Len(t)
         /\ \A i \in 1..Len(s) : (s \o t)[i] = s[i]
         /\ \A i \in 1..Len(s) + Len(t) : (s \o t)[i] = IF i <= Len(s) THEN s[i] ELSE t[i - Len(s)]
<1> DEFINE T == {s[i] : i \in DOMAIN s} \cup {t[i] : i \in DOMAIN t}
<1>1. s \in Seq(T) /\ t \in Seq(T)
  <2>1. s \in Seq({s[i] : i \in DOMAIN s}) /\ t \in Seq({t[i] : i \in DOMAIN t})
    BY DEF Conversation
  <2> QED BY <2>1, SeqMonotonic
<1> HIDE DEF T
<1>2. /\ s \o t \in Seq(T) /\ Len(s \o t) = Len(s) + Len(t)
      /\ \A i \in 1..Len(s) + Len(t) :
           (s \o t)[i] = IF i <= Len(s) THEN s[i] ELSE t[i - Len(s)]
  BY <1>1, ConcatProperties
<1>3. Len(s) \in Nat /\ Len(t) \in Nat
  BY ConversationParts
<1>4. s \o t \in [1..Len(s \o t) -> T] /\ DOMAIN (s \o t) = 1..Len(s \o t)
  BY <1>2, LenProperties
<1> DEFINE u == s \o t
           n == Len(s) + Len(t)
<1>5. n \in Nat /\ u = [i \in 1..n |-> u[i]]
  <2>1. n \in Nat /\ Len(u) = n
    BY <1>2, <1>3
  <2>2. u \in [1..n -> T]
    BY <1>4, <2>1
  <2> HIDE DEF u, n
  <2> QED BY <2>1, <2>2
<1>6. \A i \in 1..n : IsMessage(u[i])
  <2> SUFFICES ASSUME NEW i \in 1..n PROVE IsMessage(u[i])
    OBVIOUS
  <2>1. CASE i <= Len(s)
    BY <1>2, <1>3, <2>1, ConversationParts
  <2>2. CASE i > Len(s)
    <3>1. i - Len(s) \in 1..Len(t)
      BY <1>3, <2>2
    <3> QED BY <1>2, <1>3, <2>2, <3>1, ConversationParts
  <2> QED BY <1>3, <2>1, <2>2
<1> HIDE DEF u, n
<1>7. Conversation(u)
  BY <1>5, <1>6, ConversationMade
<1> QED BY <1>2, <1>3, <1>7 DEF u, n

LEMMA MessageChanged ==
  ASSUME NEW m, IsMessage(m)
  PROVE  /\ \A w : IsFiniteSet(w) =>
              LET new == [m EXCEPT !.words = w]
              IN  IsMessage(new) /\ new.words = w /\ new.role = m.role /\ new.form = m.form
         /\ LET new == [m EXCEPT !.form = "text"]
            IN  IsMessage(new) /\ new.words = m.words /\ new.role = m.role /\ new.form = "text"
<1> DEFINE r == m.role
           f == m.form
           v == m.words
<1>1. m = [role |-> r, form |-> f, words |-> v] /\ IsFiniteSet(v)
  BY DEF IsMessage
<1> HIDE DEF r, f, v
<1>2. ASSUME NEW w, IsFiniteSet(w)
      PROVE  LET new == [m EXCEPT !.words = w]
             IN  IsMessage(new) /\ new.words = w /\ new.role = m.role /\ new.form = m.form
  <2>1. [m EXCEPT !.words = w] = [role |-> r, form |-> f, words |-> w]
    BY <1>1
  <2>2. m.role = r /\ m.form = f
    BY <1>1
  <2> QED BY <1>2, <2>1, <2>2 DEF IsMessage
<1>3. LET new == [m EXCEPT !.form = "text"]
      IN  IsMessage(new) /\ new.words = m.words /\ new.role = m.role /\ new.form = "text"
  <2>1. [m EXCEPT !.form = "text"] = [role |-> r, form |-> "text", words |-> v]
    BY <1>1
  <2>2. m.role = r /\ m.words = v
    BY <1>1
  <2> QED BY <1>1, <2>1, <2>2 DEF IsMessage
<1> QED BY <1>2, <1>3

(* What guards are shown.                                                  *)
LEMMA ShownInResponsesIs ==
  ASSUME NEW ms, Conversation(ms)
  PROVE  LET shown == ShownInResponses(ms)
         IN  /\ Conversation(shown)
             /\ \A m \in 1..Len(shown) :
                  \E q \in 1..Len(ms) : ms[q].form # "item" /\ shown[m] = ms[q]
             /\ \A k \in 0..Len(ms) : (\A i \in 1..k : ms[i].form # "item") =>
                  k <= Len(shown) /\ \A i \in 1..k : shown[i] = ms[i]
<1> DEFINE K == {i \in DOMAIN ms : ms[i].form # "item"}
           shown == AtPlaces(ms, K)
           n == Cardinality(K)
<1>1. ShownInResponses(ms) = shown
  BY DEF ShownInResponses
<1>2. Len(ms) \in Nat /\ DOMAIN ms = 1..Len(ms) /\ \A i \in 1..Len(ms) : IsMessage(ms[i])
  BY ConversationParts
<1>3. K \subseteq 1..Len(ms) /\ \A i \in K : ms[i].form # "item" /\ IsMessage(ms[i])
  BY <1>2
<1>4. \A k \in 0..Len(ms) : (\A i \in 1..k : ms[i].form # "item") => 1..k \subseteq K
  BY <1>2
<1> HIDE DEF K
<1>5. /\ n \in Nat
      /\ shown = [m \in 1..n |-> shown[m]]
      /\ \A m \in 1..n : \E i \in K : shown[m] = ms[i]
      /\ \A k \in Nat : 1..k \subseteq K => \A i \in 1..k : i \in 1..n /\ shown[i] = ms[i]
  <2> HIDE DEF shown, n
  <2>1. PICK l \in Nat : l = Len(ms) /\ K \subseteq 1..l
    BY <1>2, <1>3
  <2>2. /\ Cardinality(K) \in Nat
        /\ AtPlaces(ms, K) = [m \in 1..Cardinality(K) |-> AtPlaces(ms, K)[m]]
        /\ \A m \in 1..Cardinality(K) : \E i \in K : AtPlaces(ms, K)[m] = ms[i]
        /\ \A k \in Nat : 1..k \subseteq K =>
             \A i \in 1..k : i \in 1..Cardinality(K) /\ AtPlaces(ms, K)[i] = ms[i]
    BY <2>1, AtPlacesIs
  <2> QED BY Zenon, <2>2 DEF shown, n
<1> HIDE DEF shown, n
<1>6. \A m \in 1..n : IsMessage(shown[m])
  BY <1>3, <1>5
<1>7. Conversation(shown) /\ Len(shown) = n
  BY <1>5, <1>6, ConversationMade
<1>8. \A m \in 1..Len(shown) : \E q \in 1..Len(ms) : ms[q].form # "item" /\ shown[m] = ms[q]
  BY <1>3, <1>5, <1>7
<1>9. ASSUME NEW k \in 0..Len(ms), \A i \in 1..k : ms[i].form # "item"
      PROVE  k <= Len(shown) /\ \A i \in 1..k : shown[i] = ms[i]
  <2>1. k \in Nat /\ \A i \in 1..k : i \in 1..n /\ shown[i] = ms[i]
    <3>1. k \in Nat
      BY <1>2
    <3>2. 1..k \subseteq K
      BY <1>4, <1>9
    <3> QED BY <1>5, <3>1, <3>2
  <2>2. CASE k = 0
    BY <1>5, <1>7, <2>2
  <2>3. CASE k # 0
    <3>1. k \in 1..n
      BY <2>1, <2>3
    <3> QED BY <1>7, <2>1, <3>1
  <2> QED BY <2>2, <2>3
<1> QED BY <1>1, <1>7, <1>8, <1>9

LEMMA ShownInChatsIs ==
  ASSUME NEW ms, Conversation(ms)
  PROVE  LET shown == ShownInChats(ms)
         IN  /\ Conversation(shown) /\ Len(shown) = Len(ms)
             /\ \A i \in 1..Len(ms) :
                  /\ shown[i].role = ms[i].role
                  /\ shown[i].words = IF ms[i].form = "text" THEN ms[i].words ELSE {}
<1> DEFINE n == Len(ms)
           E(i) == [ms[i] EXCEPT !.words = IF ms[i].form = "text" THEN ms[i].words ELSE {}]
           shown == [i \in 1..n |-> E(i)]
<1>1. n \in Nat /\ DOMAIN ms = 1..n /\ \A i \in 1..n : IsMessage(ms[i])
  BY ConversationParts
<1>2. ShownInChats(ms) = shown
  BY <1>1 DEF ShownInChats
<1>3. ASSUME NEW i \in 1..n
      PROVE /\ IsMessage(E(i)) /\ E(i).role = ms[i].role
            /\ E(i).words = IF ms[i].form = "text" THEN ms[i].words ELSE {}
  <2> DEFINE w == IF ms[i].form = "text" THEN ms[i].words ELSE {}
  <2>1. IsFiniteSet(w)
    BY <1>1, FS_EmptySet DEF IsMessage
  <2> HIDE DEF w
  <2>2. LET new == [ms[i] EXCEPT !.words = w]
        IN  IsMessage(new) /\ new.words = w /\ new.role = ms[i].role
    BY <1>1, <2>1, MessageChanged
  <2> QED BY <2>2 DEF w
<1> HIDE DEF E
<1>4. shown = [i \in 1..n |-> shown[i]] /\ \A i \in 1..n : shown[i] = E(i)
  OBVIOUS
<1> HIDE DEF shown, n
<1>5. Conversation(shown) /\ Len(shown) = n
  BY <1>1, <1>3, <1>4, ConversationMade
<1> QED BY <1>2, <1>3, <1>4, <1>5 DEF n

Clean(g, shown) == \A m \in DOMAIN shown : ~Hit(g, shown[m].words \ StandIns)

LEMMA ShownIs ==
  ASSUME NEW f, NEW ms, Conversation(ms)
  PROVE  LET shown == GetMessages(f, ms)
         IN  /\ Conversation(shown)
             /\ \A m \in 1..Len(shown) :
                  shown[m].words = {} \/ \E q \in 1..Len(ms) : shown[m].words = ms[q].words
             /\ f # "responses" => /\ Len(shown) = Len(ms)
                                   /\ \A i \in 1..Len(ms) : shown[i].role = ms[i].role
             /\ f = "responses" =>
                  \A k \in 0..Len(ms) : (\A i \in 1..k : ms[i].form # "item") =>
                    k <= Len(shown) /\ \A i \in 1..k : shown[i] = ms[i]
<1>1. CASE f = "responses"
  <2> DEFINE shown == ShownInResponses(ms)
  <2>1. GetMessages(f, ms) = shown
    BY <1>1 DEF GetMessages
  <2>2. /\ Conversation(shown)
        /\ \A m \in 1..Len(shown) : \E q \in 1..Len(ms) : shown[m] = ms[q]
        /\ \A k \in 0..Len(ms) : (\A i \in 1..k : ms[i].form # "item") =>
             k <= Len(shown) /\ \A i \in 1..k : shown[i] = ms[i]
    BY ShownInResponsesIs
  <2> HIDE DEF shown
  <2>3. \A m \in 1..Len(shown) : \E q \in 1..Len(ms) : shown[m].words = ms[q].words
    BY <2>2
  <2> QED BY Zenon, <1>1, <2>1, <2>2, <2>3
<1>2. CASE f # "responses"
  <2> DEFINE shown == ShownInChats(ms)
  <2>1. GetMessages(f, ms) = shown
    BY <1>2 DEF GetMessages
  <2>2. /\ Conversation(shown) /\ Len(shown) = Len(ms)
        /\ \A i \in 1..Len(ms) :
             /\ shown[i].role = ms[i].role
             /\ shown[i].words = IF ms[i].form = "text" THEN ms[i].words ELSE {}
    BY ShownInChatsIs
  <2> HIDE DEF shown
  <2>3. \A m \in 1..Len(shown) :
          shown[m].words = {} \/ \E q \in 1..Len(ms) : shown[m].words = ms[q].words
    BY <2>2
  <2> QED BY Zenon, <1>2, <2>1, <2>2, <2>3
<1> QED BY <1>1, <1>2

(* A call as it was parsed.                                                *)
IsChat(c) ==
  /\ c = [model |-> c.model, stream |-> c.stream, system |-> c.system,
          messages |-> c.messages, usage |-> c.usage]
  /\ Conversation(c.messages)

LEMMA ChatMade ==
  ASSUME NEW c, IsChat(c), NEW ms, Conversation(ms)
  PROVE  LET new == [c EXCEPT !.messages = ms]
         IN  IsChat(new) /\ new.messages = ms /\ new.model = c.model
<1>1. PICK m, s, y, u, old :
        c = [model |-> m, stream |-> s, system |-> y, messages |-> old, usage |-> u]
  BY DEF IsChat
<1>2. [c EXCEPT !.messages = ms] =
        [model |-> m, stream |-> s, system |-> y, messages |-> ms, usage |-> u]
  BY <1>1
<1>3. c.model = m
  BY <1>1
<1> QED BY <1>2, <1>3 DEF IsChat

LEMMA MessagesSet ==
  ASSUME NEW c, IsChat(c), NEW t, Conversation(t)
  PROVE  LET new == SetMessages(c, t)
         IN  /\ IsChat(new) /\ new.model = c.model /\ Len(new.messages) = Len(t)
             /\ \A i \in 1..Len(t) :
                  /\ new.messages[i].role = t[i].role /\ new.messages[i].words = t[i].words
                  /\ new.messages[i].form = "text"
<1> DEFINE n == Len(t)
           ms == [i \in 1..n |-> [t[i] EXCEPT !.form = "text"]]
<1>1. n \in Nat /\ DOMAIN t = 1..n /\ \A i \in 1..n : IsMessage(t[i])
  BY ConversationParts
<1>2. SetMessages(c, t) = [c EXCEPT !.messages = ms]
  BY <1>1 DEF SetMessages
<1>3. ms = [i \in 1..n |-> ms[i]] /\ \A i \in 1..n : ms[i] = [t[i] EXCEPT !.form = "text"]
  OBVIOUS
<1> HIDE DEF ms, n
<1>4. \A i \in 1..n : /\ IsMessage(ms[i]) /\ ms[i].role = t[i].role
                      /\ ms[i].words = t[i].words /\ ms[i].form = "text"
  <2> SUFFICES ASSUME NEW i \in 1..n
               PROVE  /\ IsMessage(ms[i]) /\ ms[i].role = t[i].role
                      /\ ms[i].words = t[i].words /\ ms[i].form = "text"
    OBVIOUS
  <2>1. IsMessage(t[i]) /\ ms[i] = [t[i] EXCEPT !.form = "text"]
    BY <1>1, <1>3
  <2> QED BY <2>1, MessageChanged
<1>5. Conversation(ms) /\ Len(ms) = n
  BY <1>1, <1>3, <1>4, ConversationMade
<1>6. LET new == [c EXCEPT !.messages = ms]
      IN  IsChat(new) /\ new.messages = ms /\ new.model = c.model
  BY <1>5, ChatMade
<1> QED BY <1>2, <1>4, <1>5, <1>6 DEF n

(* Prompts of the policy p around the messages of a.                       *)
PromptsIn(f, c, p, a) ==
  /\ f = "completions" =>
       Len(c.messages) = Len(p.prepend) + Len(a.messages) + Len(p.append)
  /\ Len(p.prepend) <= Len(c.messages)
  /\ \A i \in 1..Len(p.prepend) :
       c.messages[i].role = p.prepend[i].role /\ c.messages[i].form = "text"

(* A rule takes its words out of all that is shown, and puts none of       *)
(* another rule's there.                                                   *)
LEMMA MaskedIs ==
  ASSUME NEW f, NEW c, IsChat(c), NEW g
  PROVE  LET shown == GetMessages(f, c.messages)
             new == SetMessages(c, [i \in DOMAIN shown |->
                                      [shown[i] EXCEPT !.words = Masked(g, @)]])
         IN  /\ IsChat(new) /\ new.model = c.model
             /\ \A h : h = g \/ Clean(h, shown) =>
                  Clean(h, GetMessages(f, new.messages))
             /\ \A p, a : Conversation(p.prepend) /\ PromptsIn(f, c, p, a) =>
                  PromptsIn(f, new, p, a)
<1>0. ASSUME NEW u, Conversation(u)
      PROVE  /\ IsChat(SetMessages(c, u)) /\ SetMessages(c, u).model = c.model
             /\ Len(SetMessages(c, u).messages) = Len(u)
             /\ \A i \in 1..Len(u) : /\ SetMessages(c, u).messages[i].role = u[i].role
                                     /\ SetMessages(c, u).messages[i].words = u[i].words
                                     /\ SetMessages(c, u).messages[i].form = "text"
  BY <1>0, MessagesSet
<1> DEFINE shown == GetMessages(f, c.messages)
           n == Len(shown)
           t == [i \in 1..n |-> [shown[i] EXCEPT !.words = Masked(g, shown[i].words)]]
           new == SetMessages(c, t)
           after == GetMessages(f, new.messages)
<1>1. Conversation(c.messages)
  BY DEF IsChat
<1>2. Conversation(shown)
  BY <1>1, ShownIs
<1>3. n \in Nat /\ DOMAIN shown = 1..n /\ \A i \in 1..n : IsMessage(shown[i])
  <2> HIDE DEF shown
  <2> QED BY <1>2, ConversationParts
<1>4. [i \in DOMAIN shown |-> [shown[i] EXCEPT !.words = Masked(g, @)]] = t
  BY <1>3
<1> HIDE DEF shown
<1>5. t = [i \in 1..n |-> t[i]]
      /\ \A i \in 1..n : t[i] = [shown[i] EXCEPT !.words = Masked(g, shown[i].words)]
  OBVIOUS
<1> HIDE DEF t, n, new, after
<1>6. \A i \in 1..n : /\ IsMessage(t[i]) /\ t[i].role = shown[i].role
                      /\ t[i].form = shown[i].form /\ t[i].words = Masked(g, shown[i].words)
  <2> SUFFICES ASSUME NEW i \in 1..n
               PROVE  /\ IsMessage(t[i]) /\ t[i].role = shown[i].role
                      /\ t[i].form = shown[i].form /\ t[i].words = Masked(g, shown[i].words)
    OBVIOUS
  <2> DEFINE v == shown[i].words
             w == Masked(g, v)
  <2>1. IsFiniteSet(v)
    BY <1>3 DEF IsMessage
  <2>2. IsFiniteSet(w)
    <3> HIDE DEF v
    <3>1. IsFiniteSet(v \ g.words)
      BY <2>1, FS_Subset
    <3>2. IsFiniteSet((v \ g.words) \cup {"masked"})
      BY <3>1, FS_AddElement
    <3> QED BY <2>1, <3>2 DEF Masked
  <2> HIDE DEF w
  <2>3. LET m == [shown[i] EXCEPT !.words = w]
        IN  IsMessage(m) /\ m.words = w /\ m.role = shown[i].role /\ m.form = shown[i].form
    BY <1>3, <2>2, MessageChanged
  <2>4. t[i] = [shown[i] EXCEPT !.words = w]
    BY <1>5 DEF w
  <2> QED BY <2>3, <2>4 DEF w
<1>7. Conversation(t) /\ Len(t) = n
  BY <1>3, <1>5, <1>6, ConversationMade
<1>8. /\ IsChat(new) /\ new.model = c.model /\ Len(new.messages) = n
      /\ \A i \in 1..n : /\ new.messages[i].role = t[i].role /\ new.messages[i].words = t[i].words
                         /\ new.messages[i].form = "text"
  <2>1. /\ IsChat(SetMessages(c, t)) /\ SetMessages(c, t).model = c.model
        /\ Len(SetMessages(c, t).messages) = Len(t)
        /\ \A i \in 1..Len(t) : /\ SetMessages(c, t).messages[i].role = t[i].role
                                /\ SetMessages(c, t).messages[i].words = t[i].words
                                /\ SetMessages(c, t).messages[i].form = "text"
    BY Zenon, <1>0, <1>7
  <2>2. new = SetMessages(c, t) /\ Len(t) = n
    BY <1>7 DEF new
  <2> QED BY Zenon, <2>1, <2>2
<1>9. Conversation(new.messages)
  BY <1>8 DEF IsChat
<1>10. /\ Conversation(after) /\ DOMAIN after = 1..Len(after)
       /\ \A m \in 1..Len(after) :
            after[m].words = {} \/ \E q \in 1..n : after[m].words = new.messages[q].words
  <2>1. /\ Conversation(after)
        /\ \A m \in 1..Len(after) : after[m].words = {}
             \/ \E q \in 1..Len(new.messages) : after[m].words = new.messages[q].words
    BY <1>9, ShownIs DEF after
  <2> QED BY <1>8, <2>1, ConversationParts
<1>11. ASSUME NEW h, h = g \/ Clean(h, shown)
       PROVE  Clean(h, after)
  <2> SUFFICES ASSUME NEW m \in 1..Len(after), Hit(h, after[m].words \ StandIns) PROVE FALSE
    BY <1>10 DEF Clean
  <2>1. after[m].words # {}
    BY DEF Hit
  <2>2. PICK q \in 1..n : after[m].words = Masked(g, shown[q].words)
    BY <1>6, <1>8, <1>10, <2>1
  <2>3. CASE h = g
    BY <2>2, <2>3 DEF Hit, Masked, StandIns
  <2>4. CASE Clean(h, shown)
    <3>1. ~Hit(h, shown[q].words \ StandIns)
      BY <1>3, <2>4 DEF Clean
    <3> QED BY <2>2, <3>1 DEF Hit, Masked, StandIns
  <2> QED BY <1>11, <2>3, <2>4
<1>12. ASSUME NEW p, NEW a, Conversation(p.prepend), PromptsIn(f, c, p, a)
       PROVE  PromptsIn(f, new, p, a)
  <2> DEFINE k == Len(p.prepend)
             l == Len(c.messages)
  <2>1. /\ f = "completions" => l = k + Len(a.messages) + Len(p.append)
        /\ k <= l
        /\ \A i \in 1..k : c.messages[i].role = p.prepend[i].role /\ c.messages[i].form = "text"
    BY <1>12 DEF PromptsIn
  <2>2. k \in Nat /\ l \in Nat
    BY <1>1, <1>12, ConversationParts
  <2>3. \A i \in 1..k : i \in 1..n => new.messages[i].role = shown[i].role /\ new.messages[i].form = "text"
    BY <1>6, <1>8
  <2>4. CASE f = "responses"
    <3>1. k \in 0..l /\ \A i \in 1..k : c.messages[i].form # "item"
      BY <2>1, <2>2
    <3>2. k <= n /\ \A i \in 1..k : shown[i] = c.messages[i]
      <4> HIDE DEF k
      <4> QED BY <1>1, <2>4, <3>1, ShownIs DEF shown, n
    <3> HIDE DEF k, l
    <3>3. \A i \in 1..k : i \in 1..n
      BY <1>3, <2>2, <3>2
    <3>4. \A i \in 1..k : new.messages[i].role = p.prepend[i].role /\ new.messages[i].form = "text"
      BY <2>1, <2>3, <3>2, <3>3
    <3> QED BY <1>8, <2>4, <3>2, <3>4 DEF PromptsIn, k
  <2>5. CASE f # "responses"
    <3>1. n = l /\ \A i \in 1..l : shown[i].role = c.messages[i].role
      BY <1>1, <2>5, ShownIs DEF shown, n
    <3> HIDE DEF k, l
    <3>2. \A i \in 1..k : i \in 1..n /\ i \in 1..l
      BY <2>1, <2>2, <3>1
    <3>3. \A i \in 1..k : new.messages[i].role = p.prepend[i].role /\ new.messages[i].form = "text"
      BY <2>1, <2>3, <3>1, <3>2
    <3> QED BY <1>8, <2>1, <3>1, <3>3 DEF PromptsIn, k, l
  <2> QED BY <2>4, <2>5
<1> QED BY Zenon, <1>4, <1>8, <1>11, <1>12 DEF shown, new, after

LEMMA PartOfConversation ==
  ASSUME NEW s, Conversation(s), NEW K, K \subseteq DOMAIN s
  PROVE  Conversation(AtPlaces(s, K))
<1> DEFINE n == Cardinality(K)
           t == AtPlaces(s, K)
<1>1. Len(s) \in Nat /\ DOMAIN s = 1..Len(s) /\ \A i \in 1..Len(s) : IsMessage(s[i])
  BY ConversationParts
<1>2. /\ n \in Nat /\ t = [m \in 1..n |-> t[m]]
      /\ \A m \in 1..n : \E i \in K : t[m] = s[i]
  <2>1. PICK l \in Nat : l = Len(s) /\ K \subseteq 1..l
    BY <1>1
  <2>2. /\ Cardinality(K) \in Nat
        /\ AtPlaces(s, K) = [m \in 1..Cardinality(K) |-> AtPlaces(s, K)[m]]
        /\ \A m \in 1..Cardinality(K) : \E i \in K : AtPlaces(s, K)[m] = s[i]
    BY <2>1, AtPlacesIs
  <2> QED BY Zenon, <2>2
<1> HIDE DEF n, t
<1>3. \A m \in 1..n : IsMessage(t[m])
  BY <1>1, <1>2
<1>4. Conversation(t)
  BY <1>2, <1>3, ConversationMade
<1> QED BY <1>4 DEF t

LEMMA EnrichedIs ==
  ASSUME NEW f, NEW c, IsChat(c), NEW p \in LlmPolicy
  PROVE  /\ IsChat(Enriched(f, c, p)) /\ Enriched(f, c, p).model = c.model
         /\ \A a : f \in {"completions", "responses"} /\ c.messages = a.messages =>
              PromptsIn(f, Enriched(f, c, p), p, a)
<1>1. /\ Conversation(p.prepend) /\ Conversation(p.append)
      /\ \A i \in DOMAIN p.prepend : p.prepend[i].form = "text"
  BY LlmPolicyAssumption DEF PlainTexts
<1>2. Conversation(c.messages)
  BY DEF IsChat
<1>3. CASE f = "messages"
  <2> DEFINE K(s) == {i \in DOMAIN s : s[i].role # "system"}
             first == AtPlaces(p.prepend, K(p.prepend))
             last == AtPlaces(p.append, K(p.append))
             ms == first \o c.messages \o last
  <2>1. Conversation(first) /\ Conversation(last)
    <3>1. \A s : K(s) \subseteq DOMAIN s
      OBVIOUS
    <3> HIDE DEF K
    <3> QED BY <1>1, <3>1, PartOfConversation
  <2> HIDE DEF first, last
  <2>2. Conversation(first \o c.messages)
    BY <1>2, <2>1, ConversationsJoined
  <2>3. Conversation(ms)
    BY <2>1, <2>2, ConversationsJoined
  <2>4. PICK y : Enriched(f, c, p) = [c EXCEPT !.system = y, !.messages = ms]
    <3>1. Enriched(f, c, p) = EnrichedMessages(c, p)
      BY Zenon, <1>3 DEF Enriched
    <3>2. \E y : EnrichedMessages(c, p) = [c EXCEPT !.system = y, !.messages = ms]
      BY DEF EnrichedMessages, first, last
    <3> QED BY <3>1, <3>2
  <2> HIDE DEF ms
  <2>5. PICK m, s, x, u, old :
          c = [model |-> m, stream |-> s, system |-> x, messages |-> old, usage |-> u]
    BY DEF IsChat
  <2>6. Enriched(f, c, p) =
          [model |-> m, stream |-> s, system |-> y, messages |-> ms, usage |-> u]
    BY <2>4, <2>5
  <2>7. IsChat(Enriched(f, c, p)) /\ Enriched(f, c, p).model = c.model
    BY <2>3, <2>5, <2>6 DEF IsChat
  <2> QED BY <1>3, <2>7
<1>4. CASE f \in {"completions", "responses"}
  <2> DEFINE front == p.prepend \o c.messages
             ms == front \o p.append
             new == [c EXCEPT !.messages = ms]
             k == Len(p.prepend)
  <2>1. /\ Conversation(front) /\ Len(front) = k + Len(c.messages)
        /\ \A i \in 1..k : front[i] = p.prepend[i]
    BY <1>1, <1>2, ConversationsJoined
  <2>2. /\ k \in Nat /\ Len(c.messages) \in Nat /\ Len(p.append) \in Nat
        /\ DOMAIN p.prepend = 1..k
    BY <1>1, <1>2, ConversationParts
  <2> HIDE DEF front
  <2>3. /\ Conversation(ms) /\ Len(ms) = Len(front) + Len(p.append)
        /\ \A i \in 1..Len(front) : ms[i] = front[i]
    BY <1>1, <2>1, ConversationsJoined
  <2>4. Enriched(f, c, p) = new
    <3>1. Enriched(f, c, p) = EnrichedItems(c, p)
      BY Zenon, <1>4 DEF Enriched
    <3> QED BY <3>1 DEF EnrichedItems, front
  <2> HIDE DEF ms
  <2>5. IsChat(new) /\ new.messages = ms /\ new.model = c.model
    BY <2>3, ChatMade
  <2> HIDE DEF new, k
  <2>6. \A i \in 1..k : ms[i] = p.prepend[i] /\ ms[i].form = "text"
    <3> SUFFICES ASSUME NEW i \in 1..k PROVE ms[i] = p.prepend[i] /\ ms[i].form = "text"
      OBVIOUS
    <3>1. i \in 1..Len(front)
      BY <2>1, <2>2
    <3>2. ms[i] = front[i] /\ front[i] = p.prepend[i]
      BY Zenon, <2>1, <2>3, <3>1
    <3>3. p.prepend[i].form = "text"
      BY Zenon, <1>1, <2>2
    <3> QED BY Zenon, <3>2, <3>3
  <2>7. Len(ms) = k + Len(c.messages) + Len(p.append) /\ k <= Len(ms)
    <3>1. PICK l \in Nat, m \in Nat : l = Len(c.messages) /\ m = Len(p.append)
      BY Zenon, <2>2
    <3>2. Len(front) = k + l
      BY <2>1, <3>1
    <3>3. Len(ms) = k + l + m
      BY <2>3, <3>1, <3>2
    <3>4. k <= k + l + m
      BY <2>2
    <3>5. k <= Len(ms)
      BY <3>3, <3>4
    <3>6. Len(ms) = k + Len(c.messages) + Len(p.append)
      BY <3>1, <3>3
    <3> QED BY <3>5, <3>6
  <2>8. ASSUME NEW a, c.messages = a.messages PROVE PromptsIn(f, new, p, a)
    BY <2>5, <2>6, <2>7, <2>8 DEF PromptsIn, k
  <2> QED BY <2>4, <2>5, <2>8
<1>5. CASE f \notin {"messages", "completions", "responses"}
  <2>1. Enriched(f, c, p) = c
    BY Zenon, <1>5 DEF Enriched
  <2> QED BY <1>5, <2>1
<1> QED BY <1>3, <1>4, <1>5

(* The most specific alias.                                                *)
AliasOf(p, wanted, model) ==
  LET fits == {a \in DOMAIN p.aliases : IsPattern(a) /\ ModelMatches(a, wanted)}
  IN  IF wanted \in DOMAIN p.aliases THEN model = p.aliases[wanted]
      ELSE IF fits = {} THEN model = wanted
      ELSE \E a \in fits : /\ model = p.aliases[a]
                           /\ \A b \in fits : Len(b) <= Len(a)

LEMMA AliasResolved ==
  ASSUME NEW p \in LlmPolicy, NEW s \in Compiled(p.aliases), NEW wanted
  PROVE  AliasOf(p, wanted, ResolveAlias(p.aliases, s, wanted))
<1> DEFINE A == {a \in DOMAIN p.aliases : IsPattern(a)}
           n == Cardinality(A)
           fits == {a \in DOMAIN p.aliases : IsPattern(a) /\ ModelMatches(a, wanted)}
           places == {i \in DOMAIN s : ModelMatches(s[i], wanted)}
<1>1. IsFiniteSet(A) /\ n \in Nat /\ \A a \in A : Len(a) \in Nat
  <2>1. IsFiniteSet(DOMAIN p.aliases) /\ \A a \in DOMAIN p.aliases : Len(a) \in Nat
    BY LlmPolicyAssumption
  <2>2. A \in SUBSET DOMAIN p.aliases
    OBVIOUS
  <2>3. IsFiniteSet(A)
    <3> HIDE DEF A
    <3> QED BY <2>1, <2>2, FS_Subset
  <2> QED BY <2>1, <2>2, <2>3, FS_CardinalityType
<1>2. /\ s \in [1..n -> A] /\ \A i, j \in 1..n : i # j => s[i] # s[j]
      /\ \A i, j \in DOMAIN s : i < j => Len(s[i]) >= Len(s[j])
  BY DEF Compiled, SetToSeqs
<1>3. fits = {a \in A : ModelMatches(a, wanted)}
  OBVIOUS
<1> HIDE DEF A, n, fits
<1>4. s \in Surjection(1..n, A)
  <2>1. s \in Injection(1..n, A)
    BY <1>2 DEF Injection, IsInjective
  <2>2. Cardinality(1..n) = n
    BY <1>1, FS_Interval
  <2> QED BY <1>1, <2>1, <2>2, FS_Injection DEF n
<1>5. \A a \in A : \E i \in 1..n : s[i] = a
  BY <1>4 DEF Surjection
<1>6. /\ \A a \in fits : \E i \in places : s[i] = a
      /\ \A i \in places : i \in 1..n /\ s[i] \in fits
  BY <1>2, <1>3, <1>5
<1>7. CASE wanted \in DOMAIN p.aliases
  BY <1>7 DEF AliasOf, ResolveAlias
<1>8. CASE wanted \notin DOMAIN p.aliases /\ fits = {}
  <2>1. places = {}
    BY <1>6, <1>8
  <2>2. ResolveAlias(p.aliases, s, wanted) = wanted
    BY <1>8, <2>1 DEF ResolveAlias
  <2> QED BY <1>8, <2>2 DEF AliasOf, fits
<1>9. CASE wanted \notin DOMAIN p.aliases /\ fits # {}
  <2> DEFINE first == CHOOSE i \in places : \A j \in places : i <= j
  <2>1. places # {} /\ places \subseteq Nat
    BY <1>6, <1>9
  <2>2. ResolveAlias(p.aliases, s, wanted) = p.aliases[s[first]]
    BY <1>9, <2>1 DEF ResolveAlias
  <2> HIDE DEF places
  <2>3. \E i \in places : \A j \in places : i <= j
    BY <2>1, LeastNatural
  <2>4. first \in places /\ \A j \in places : first <= j
    BY <2>3
  <2> HIDE DEF first
  <2>5. s[first] \in fits
    BY <1>6, <2>4
  <2>6. ASSUME NEW b \in fits PROVE Len(b) <= Len(s[first])
    <3>1. PICK j \in places : s[j] = b
      BY <1>6
    <3>2. first <= j /\ first \in 1..n /\ j \in 1..n
      BY <1>6, <2>4
    <3>3. Len(b) \in Nat /\ Len(s[first]) \in Nat
      BY <1>1, <1>3, <2>5
    <3>4. CASE first = j
      BY <3>1, <3>3, <3>4
    <3>5. CASE first < j
      BY <1>2, <3>1, <3>2, <3>3, <3>5
    <3> QED BY <3>2, <3>4, <3>5
  <2> QED BY <1>9, <2>2, <2>5, <2>6 DEF AliasOf, fits
<1> QED BY <1>7, <1>8, <1>9

(* What is known of a call at each of its stages.                          *)
Asked ==
  LET fields == Unmarshal(llmPolicy, llmAsk.fields)
  IN  IF provider.model # NoModel THEN provider.model ELSE fields.model

LlmTypes ==
  /\ llmPolicy \in LlmPolicy /\ llmAsk \in LlmAsk
  /\ stage \in {"pick", "route", "read", "shape", "guard", "translate", "limit", "remote",
                "send", "answer", "answer guard", "over"}
  /\ stage # "pick" => provider \in LlmProvider
  /\ chat = Nothing \/ IsChat(chat)
  /\ spent \in [0..Len(llmPolicy.limits) -> Int]
  /\ llmInfo # Nothing => llmInfo.input \in Int

StagesFit ==
  /\ stage \in {"pick", "route", "read", "shape"} => rewritten = {} /\ guardAt = 1
  /\ stage \in {"pick", "route", "read", "shape", "guard", "translate"} =>
       sent = Nothing /\ llmInfo = Nothing /\ reply = Nothing
  /\ stage \in {"limit", "remote", "send"} => reply = Nothing
  /\ stage \in {"limit", "remote", "send", "answer", "answer guard"} =>
       sent # Nothing /\ llmInfo # Nothing /\ format \in InputFormat
  /\ stage \in {"answer", "answer guard"} => reply # Nothing
  /\ stage # "over" => llmGiven = Nothing

(* The prompt is what was asked for, with what the policy adds, and clean  *)
(* of what the rules that were passed look for.                            *)
GuardedBy(i) ==
  llmPolicy.guards[i].kind = "regex" /\ (\A j \in rewritten : j < i) =>
    Clean(llmPolicy.guards[i], GetMessages(format, chat.messages))
GuardedSoFar == \A i \in DOMAIN llmPolicy.guards : i < guardAt => GuardedBy(i)
GuardedByAll == \A i \in DOMAIN llmPolicy.guards : GuardedBy(i)

ChatFits ==
  /\ stage = "shape" =>
       IsChat(chat) /\ chat.model = Asked /\ chat.messages = llmAsk.messages
  /\ stage \in {"guard", "translate"} =>
       /\ IsChat(chat) /\ Supported(provider.kind, format)
       /\ AliasOf(llmPolicy, Asked, chat.model)
       /\ format \in {"completions", "responses"} /\ rewritten = {} =>
            PromptsIn(format, chat, llmPolicy, llmAsk)
  /\ stage = "guard" =>
       /\ guardAt \in Nat /\ format \in Guardable
       /\ GuardedSoFar
  /\ stage = "translate" /\ format \in Guardable => GuardedByAll

SentFits ==
  IsSent =>
    /\ provider \in LlmProvider /\ Supported(provider.kind, format)
    /\ sent.format = Translated(provider, format, llmInfo.model)
    /\ AliasOf(llmPolicy, Asked, sent.chat.model)
    /\ PromptGuarded /\ PromptsKept /\ EndpointFits

(* The estimate is taken from every limit, once.                           *)
ChargesFit ==
  LET estimate == Positive(llmInfo.input)
      limits == 1..Len(llmPolicy.limits)
  IN  /\ stage \in {"pick", "route", "read", "shape", "guard", "translate", "limit"} =>
           \A i \in DOMAIN spent : spent[i] = 0
      /\ stage = "remote" =>
           llmPolicy.remote /\ spent[0] = 0 /\ \A i \in limits : spent[i] = estimate
      /\ stage \in {"send", "answer", "answer guard"} =>
           /\ spent[0] = IF llmPolicy.remote THEN estimate ELSE 0
           /\ \A i \in limits : spent[i] = estimate
      /\ ChargedAtMost

CleanChoices(g, choices) == \A c \in DOMAIN choices : ~Hit(g, choices[c] \ StandIns)

ReplyFits ==
  /\ stage \in {"answer", "answer guard"} =>
       /\ reply = Reply(reply.ok, reply.format, reply.choices, reply.usage, reply.coding,
                        reply.fits)
       /\ reply.usage \in Int /\ reply.format \in {sent.format, "garbled"}
  /\ stage = "answer guard" =>
       /\ reply.ok /\ guardAt \in Nat /\ format \in Guardable
       /\ \A i \in DOMAIN llmPolicy.answerGuards :
            i < guardAt /\ llmPolicy.answerGuards[i].kind = "regex" =>
              CleanChoices(llmPolicy.answerGuards[i], reply.choices)

GivenFits == ChargedTruly /\ AnswerInFormat /\ AnswerGuarded

LlmInvariant ==
  LlmTypes /\ StagesFit /\ ChatFits /\ SentFits /\ ChargesFit /\ ReplyFits /\ GivenFits

LEMMA PolicyLists ==
  ASSUME NEW p \in LlmPolicy
  PROVE  /\ Len(p.guards) \in Nat /\ DOMAIN p.guards = 1..Len(p.guards)
         /\ Len(p.answerGuards) \in Nat /\ DOMAIN p.answerGuards = 1..Len(p.answerGuards)
         /\ Len(p.limits) \in Nat /\ DOMAIN p.limits = 1..Len(p.limits)
<1>1. IsList(p.guards) /\ IsList(p.answerGuards) /\ p.limits \in Seq(Int)
  BY LlmPolicyAssumption
<1>2. ASSUME NEW s, IsList(s) PROVE Len(s) \in Nat /\ DOMAIN s = 1..Len(s)
  BY <1>2, LenProperties DEF IsList
<1>3. Len(p.limits) \in Nat /\ DOMAIN p.limits = 1..Len(p.limits)
  BY <1>1, LenProperties
<1> QED BY <1>1, <1>2, <1>3

LEMMA CallsBegin == LlmInit => LlmInvariant
<1> SUFFICES ASSUME LlmInit PROVE LlmInvariant
  OBVIOUS
<1> USE DEF LlmInit
<1>1. LlmTypes
  BY PolicyLists DEF LlmTypes
<1>2. StagesFit /\ ChatFits /\ ReplyFits
  BY DEF StagesFit, ChatFits, ReplyFits
<1>3. SentFits
  BY DEF SentFits, IsSent
<1>4. ChargesFit
  BY PolicyLists DEF ChargesFit, ChargedAtMost
<1>5. GivenFits
  BY DEF GivenFits, ChargedTruly, AnswerInFormat, AnswerGuarded, Buffered, Nothing
<1> QED BY <1>1, <1>2, <1>3, <1>4, <1>5 DEF LlmInvariant

(* A call that ends without a buffered answer.                             *)
LEMMA CallEnds ==
  LlmInvariant /\ stage # "pick" /\ stage' = "over"
    /\ (llmGiven'.kind = "answer" => format \notin Guardable)
    /\ UNCHANGED <<llmPolicy, provider, llmAsk, format, chat, rewritten, llmInfo, sent, spent, reply>>
  => LlmInvariant'
<1> SUFFICES ASSUME LlmInvariant, stage # "pick", stage' = "over",
             llmGiven'.kind = "answer" => format \notin Guardable,
             UNCHANGED <<llmPolicy, provider, llmAsk, format, chat, rewritten, llmInfo, sent,
                         spent, reply>>
      PROVE  LlmInvariant'
  OBVIOUS
<1>1. LlmTypes'
  BY DEF LlmInvariant, LlmTypes
<1>2. StagesFit' /\ ChatFits' /\ ReplyFits'
  BY DEF StagesFit, ChatFits, ReplyFits
<1>3. SentFits'
  BY DEF LlmInvariant, SentFits, IsSent, Asked, PromptGuarded, PromptsKept, EndpointFits
<1>4. ChargesFit'
  BY DEF LlmInvariant, ChargesFit, ChargedAtMost
<1>5. GivenFits'
  BY DEF GivenFits, ChargedTruly, AnswerInFormat, AnswerGuarded, Buffered
<1> QED BY <1>1, <1>2, <1>3, <1>4, <1>5 DEF LlmInvariant

(* What is sent stays as it was found to be.                               *)
LEMMA SentStays ==
  LlmInvariant /\ UNCHANGED <<llmPolicy, provider, llmAsk, format, rewritten, llmInfo, sent>>
  => SentFits'
BY DEF LlmInvariant, SentFits, IsSent, Asked, PromptGuarded, PromptsKept, EndpointFits

LEMMA NothingIsSent == sent' = Nothing => SentFits'
BY DEF SentFits, IsSent

(* Before the end nothing is given.                                        *)
LEMMA NothingGiven == llmGiven' = Nothing => GivenFits'
BY DEF GivenFits, ChargedTruly, AnswerInFormat, AnswerGuarded, Buffered, Nothing

LEMMA StepPick == LlmInvariant /\ SelectProvider => LlmInvariant'
<1> SUFFICES ASSUME LlmInvariant, SelectProvider PROVE LlmInvariant'
  OBVIOUS
<1> USE DEF LlmInvariant, SelectProvider
<1>1. LlmTypes'
  BY DEF LlmTypes
<1>2. StagesFit'
  BY DEF StagesFit
<1>3. ChatFits' /\ ReplyFits'
  BY DEF ChatFits, ReplyFits
<1>4. SentFits'
  BY NothingIsSent DEF StagesFit
<1>5. ChargesFit'
  BY DEF ChargesFit, ChargedAtMost
<1>6. GivenFits'
  BY NothingGiven DEF StagesFit
<1> QED BY <1>1, <1>2, <1>3, <1>4, <1>5, <1>6

LEMMA StepRoute == LlmInvariant /\ Route => LlmInvariant'
<1> SUFFICES ASSUME LlmInvariant, Route PROVE LlmInvariant'
  OBVIOUS
<1> DEFINE Rest == UNCHANGED <<llmPolicy, provider, llmAsk, chat, guardAt, rewritten, llmInfo,
                               spent, reply>>
<1>1. stage = "route" /\ Rest
  BY DEF Route
<1>2. /\ sent = Nothing /\ llmInfo = Nothing /\ reply = Nothing /\ rewritten = {}
      /\ llmGiven = Nothing /\ guardAt = 1
  BY <1>1 DEF LlmInvariant, StagesFit
<1>3. CASE stage' = "read" /\ sent' = sent /\ llmGiven' = llmGiven
  <2>1. LlmTypes'
    BY <1>1, <1>3 DEF LlmInvariant, LlmTypes
  <2>2. StagesFit' /\ ChatFits' /\ ReplyFits'
    BY <1>1, <1>2, <1>3 DEF StagesFit, ChatFits, ReplyFits
  <2>3. SentFits' /\ GivenFits'
    BY <1>2, <1>3, NothingIsSent, NothingGiven
  <2>4. ChargesFit'
    BY <1>1, <1>3 DEF LlmInvariant, ChargesFit, ChargedAtMost
  <2> QED BY <2>1, <2>2, <2>3, <2>4 DEF LlmInvariant
<1>4. CASE stage' = "over" /\ llmGiven'.kind # "answer"
           /\ (sent' = sent \/ format' \in {"passthrough", "realtime"})
  <2>1. LlmTypes'
    BY <1>1, <1>4 DEF LlmInvariant, LlmTypes
  <2>2. StagesFit' /\ ChatFits' /\ ReplyFits'
    BY <1>4 DEF StagesFit, ChatFits, ReplyFits
  <2>3. SentFits'
    BY <1>2, <1>4 DEF SentFits, IsSent, InputFormat, Guardable
  <2>4. ChargesFit'
    BY <1>1, <1>2, <1>4 DEF LlmInvariant, ChargesFit, ChargedAtMost
  <2>5. GivenFits'
    BY <1>4 DEF GivenFits, ChargedTruly, AnswerInFormat, AnswerGuarded, Buffered
  <2> QED BY <2>1, <2>2, <2>3, <2>4, <2>5 DEF LlmInvariant
<1>5. \/ stage' = "over" /\ llmGiven' = Outcome("not implemented") /\ sent' = sent
      \/ stage' = "over" /\ llmGiven' = Outcome("passed on")
         /\ format' \in {"passthrough", "realtime"}
      \/ stage' = "read" /\ sent' = sent /\ llmGiven' = llmGiven
  <2>1. CASE format' = "models"
    BY Zenon, <2>1 DEF Route, Over
  <2>2. CASE format' \in {"passthrough", "realtime"}
    BY Zenon, <2>2 DEF Route, Over
  <2>3. CASE format' # "models" /\ format' \notin {"passthrough", "realtime"}
    BY Zenon, <2>3 DEF Route, Over
  <2> QED BY Zenon, <2>1, <2>2, <2>3
<1>6. Outcome("not implemented").kind # "answer" /\ Outcome("passed on").kind # "answer"
  BY DEF Outcome
<1> QED BY Zenon, <1>3, <1>4, <1>5, <1>6

LEMMA StepRead == LlmInvariant /\ ReadBody => LlmInvariant'
<1> SUFFICES ASSUME LlmInvariant, ReadBody PROVE LlmInvariant'
  OBVIOUS
<1> DEFINE fields == Unmarshal(llmPolicy, llmAsk.fields)
           model == IF provider.model # NoModel THEN provider.model
                    ELSE IF "model" \in DOMAIN fields THEN fields.model ELSE NoModel
           stream == "stream" \in DOMAIN fields /\ fields.stream
<1>1. /\ stage = "read"
      /\ UNCHANGED <<llmPolicy, provider, llmAsk, format, guardAt, rewritten, llmInfo, sent,
                     spent, reply>>
  BY DEF ReadBody
<1>2. /\ sent = Nothing /\ llmInfo = Nothing /\ reply = Nothing /\ rewritten = {}
      /\ llmGiven = Nothing /\ guardAt = 1
  BY <1>1 DEF LlmInvariant, StagesFit
<1>3. \/ /\ model # NoModel
         /\ chat' = [model |-> model, stream |-> stream, system |-> llmAsk.system,
                     messages |-> llmAsk.messages, usage |-> format = "completions" /\ stream]
         /\ stage' = "shape" /\ llmGiven' = llmGiven
      \/ stage' = "over" /\ llmGiven' = Outcome("error") /\ chat' = chat
  BY DEF ReadBody, Fails, Over
<1>4. CASE stage' = "over" /\ llmGiven' = Outcome("error") /\ chat' = chat
  <2>1. llmGiven'.kind # "answer"
    BY <1>4 DEF Outcome
  <2> QED BY <1>1, <1>4, <2>1, CallEnds
<1>5. CASE /\ model # NoModel
           /\ chat' = [model |-> model, stream |-> stream, system |-> llmAsk.system,
                       messages |-> llmAsk.messages, usage |-> format = "completions" /\ stream]
           /\ stage' = "shape" /\ llmGiven' = llmGiven
  <2>1. Asked = model
    BY <1>5 DEF Asked
  <2>2. Asked' = Asked
    BY <1>1 DEF Asked
  <2> HIDE DEF model, stream
  <2>3. Conversation(llmAsk.messages)
    BY LlmAskAssumption DEF LlmInvariant, LlmTypes
  <2>4. IsChat(chat') /\ chat'.model = model /\ chat'.messages = llmAsk.messages
    BY <1>5, <2>3 DEF IsChat
  <2>5. LlmTypes'
    BY <1>1, <1>2, <1>5, <2>4 DEF LlmInvariant, LlmTypes
  <2>6. StagesFit' /\ ReplyFits'
    BY <1>1, <1>2, <1>5 DEF StagesFit, ReplyFits
  <2>7. ChatFits'
    BY <1>1, <1>5, <2>1, <2>2, <2>4 DEF ChatFits
  <2>8. SentFits' /\ GivenFits'
    BY <1>1, <1>2, <1>5, NothingIsSent, NothingGiven
  <2>9. ChargesFit'
    BY <1>1, <1>5 DEF LlmInvariant, ChargesFit, ChargedAtMost
  <2> QED BY <2>5, <2>6, <2>7, <2>8, <2>9 DEF LlmInvariant
<1> QED BY <1>3, <1>4, <1>5

LEMMA StepShape == LlmInvariant /\ ShapeRequest => LlmInvariant'
<1> SUFFICES ASSUME LlmInvariant, ShapeRequest PROVE LlmInvariant'
  OBVIOUS
<1>1. /\ stage = "shape"
      /\ UNCHANGED <<llmPolicy, provider, llmAsk, format, guardAt, rewritten, llmInfo, sent,
                     spent, reply>>
  BY DEF ShapeRequest
<1>2. /\ sent = Nothing /\ llmInfo = Nothing /\ reply = Nothing /\ rewritten = {}
      /\ llmGiven = Nothing /\ guardAt = 1
  BY <1>1 DEF LlmInvariant, StagesFit
<1>3. CASE ~Supported(provider.kind, format)
  <2>1. stage' = "over" /\ llmGiven' = Outcome("error") /\ chat' = chat
    BY <1>3 DEF ShapeRequest, Fails, Over
  <2>2. llmGiven'.kind # "answer"
    BY <2>1 DEF Outcome
  <2> QED BY <1>1, <2>1, <2>2, CallEnds
<1>4. CASE Supported(provider.kind, format)
  <2>1. PICK patterns \in Compiled(llmPolicy.aliases) :
          chat' = Enriched(format,
            [chat EXCEPT !.model = ResolveAlias(llmPolicy.aliases, patterns, @)], llmPolicy)
    BY <1>4 DEF ShapeRequest
  <2>2. stage' = (IF format \in Guardable THEN "guard" ELSE "translate") /\ llmGiven' = llmGiven
    BY <1>4 DEF ShapeRequest
  <2>3. /\ IsChat(chat) /\ chat.model = Asked /\ chat.messages = llmAsk.messages
        /\ llmPolicy \in LlmPolicy /\ provider \in LlmProvider
    BY <1>1 DEF LlmInvariant, ChatFits, LlmTypes
  <2> DEFINE model == ResolveAlias(llmPolicy.aliases, patterns, Asked)
             c == [chat EXCEPT !.model = model]
  <2>4. IsChat(c) /\ c.model = model /\ c.messages = llmAsk.messages
    <3> HIDE DEF model
    <3>1. PICK m, s, x, u, old :
            chat = [model |-> m, stream |-> s, system |-> x, messages |-> old, usage |-> u]
      BY <2>3 DEF IsChat
    <3>2. c = [model |-> model, stream |-> s, system |-> x, messages |-> old, usage |-> u]
      BY <3>1
    <3>3. old = llmAsk.messages /\ Conversation(old)
      BY <2>3, <3>1 DEF IsChat
    <3> QED BY <3>2, <3>3 DEF IsChat
  <2>5. AliasOf(llmPolicy, Asked, model)
    BY <2>3, AliasResolved
  <2>6. chat' = Enriched(format, c, llmPolicy)
    BY <2>1, <2>3
  <2> HIDE DEF c, model
  <2>7. /\ IsChat(chat') /\ chat'.model = model
        /\ format \in {"completions", "responses"} => PromptsIn(format, chat', llmPolicy, llmAsk)
    BY <2>3, <2>4, <2>6, EnrichedIs
  <2>8. Asked' = Asked
    BY <1>1 DEF Asked
  <2>9. LlmTypes'
    BY <1>1, <1>2, <2>2, <2>7 DEF LlmInvariant, LlmTypes
  <2>10. StagesFit' /\ ReplyFits'
    BY <1>1, <1>2, <2>2 DEF StagesFit, ReplyFits
  <2>11. ChatFits'
    <3>1. guardAt' = 1
      BY <1>1 DEF LlmInvariant, StagesFit
    <3>2. ~\E i \in DOMAIN llmPolicy.guards : i < 1
      BY <2>3, PolicyLists
    <3>3. GuardedSoFar'
      BY <1>1, <3>1, <3>2 DEF GuardedSoFar, GuardedBy
    <3> QED BY <1>1, <1>4, <2>2, <2>5, <2>7, <2>8, <3>1, <3>3 DEF ChatFits
  <2>12. SentFits' /\ GivenFits'
    BY <1>1, <1>2, <2>2, NothingIsSent, NothingGiven
  <2>13. ChargesFit'
    BY <1>1, <2>2 DEF LlmInvariant, ChargesFit, ChargedAtMost
  <2> QED BY <2>9, <2>10, <2>11, <2>12, <2>13 DEF LlmInvariant
<1> QED BY <1>3, <1>4

LEMMA GuardStep ==
  LlmInvariant /\ stage = "guard" /\ guardAt \in DOMAIN llmPolicy.guards
    /\ stage' = "guard" /\ guardAt' = guardAt + 1 /\ llmGiven' = llmGiven
    /\ IsChat(chat') /\ chat'.model = chat.model
    /\ (format \in {"completions", "responses"} /\ rewritten' = {} =>
          PromptsIn(format, chat', llmPolicy, llmAsk))
    /\ GuardedSoFar'
    /\ GuardUnchanged
  => LlmInvariant'
<1> SUFFICES ASSUME LlmInvariant, stage = "guard", guardAt \in DOMAIN llmPolicy.guards,
             stage' = "guard", guardAt' = guardAt + 1, llmGiven' = llmGiven,
             IsChat(chat'), chat'.model = chat.model,
             format \in {"completions", "responses"} /\ rewritten' = {} =>
               PromptsIn(format, chat', llmPolicy, llmAsk),
             GuardedSoFar',
             GuardUnchanged
      PROVE  LlmInvariant'
  OBVIOUS
<1>1. UNCHANGED <<llmPolicy, provider, llmAsk, format, llmInfo, sent, spent, reply>>
  BY DEF GuardUnchanged
<1>2. sent = Nothing /\ llmInfo = Nothing /\ reply = Nothing /\ llmGiven = Nothing
  BY DEF LlmInvariant, StagesFit
<1>3. LlmTypes'
  BY <1>1 DEF LlmInvariant, LlmTypes
<1>4. StagesFit' /\ ReplyFits'
  BY <1>1, <1>2 DEF StagesFit, ReplyFits
<1>5. ChatFits'
  <2>1. Asked' = Asked
    BY <1>1 DEF Asked
  <2>2. llmPolicy \in LlmPolicy
    BY DEF LlmInvariant, LlmTypes
  <2>3. guardAt' \in Nat
    BY <2>2, PolicyLists
  <2>4. /\ Supported(provider.kind, format) /\ AliasOf(llmPolicy, Asked, chat.model)
        /\ format \in Guardable
    BY DEF LlmInvariant, ChatFits
  <2> QED BY <1>1, <2>1, <2>3, <2>4 DEF ChatFits
<1>6. SentFits' /\ GivenFits'
  BY <1>1, <1>2, NothingIsSent, NothingGiven
<1>7. ChargesFit'
  BY <1>1, <1>2 DEF LlmInvariant, ChargesFit, ChargedAtMost
<1> QED BY <1>3, <1>4, <1>5, <1>6, <1>7 DEF LlmInvariant

LEMMA StepRegex == LlmInvariant /\ ApplyRegex => LlmInvariant'
<1> SUFFICES ASSUME LlmInvariant, ApplyRegex PROVE LlmInvariant'
  OBVIOUS
<1> DEFINE g == llmPolicy.guards[guardAt]
           shown == GetMessages(format, chat.messages)
           hits == {i \in DOMAIN shown : Hit(g, shown[i].words)}
           new == SetMessages(chat, [i \in DOMAIN shown |->
                                       [shown[i] EXCEPT !.words = Masked(g, @)]])
<1>1. /\ stage = "guard" /\ guardAt \in DOMAIN llmPolicy.guards /\ g.kind = "regex"
      /\ rewritten' = rewritten /\ GuardUnchanged
  BY DEF ApplyRegex
<1>2. UNCHANGED <<llmPolicy, provider, llmAsk, format, llmInfo, sent, spent, reply>>
  BY <1>1 DEF GuardUnchanged
<1>3. \/ stage' = "over" /\ llmGiven' = Outcome("rejected") /\ chat' = chat
      \/ /\ chat' = (IF hits = {} THEN chat ELSE new)
         /\ guardAt' = guardAt + 1 /\ stage' = stage /\ llmGiven' = llmGiven
  BY DEF ApplyRegex, Over, NextGuard
<1>4. CASE stage' = "over" /\ llmGiven' = Outcome("rejected") /\ chat' = chat
  <2>1. llmGiven'.kind # "answer"
    BY <1>4 DEF Outcome
  <2> QED BY <1>1, <1>2, <1>4, <2>1, CallEnds
<1>5. CASE /\ chat' = (IF hits = {} THEN chat ELSE new)
           /\ guardAt' = guardAt + 1 /\ stage' = stage /\ llmGiven' = llmGiven
  <2>1. /\ IsChat(chat) /\ format \in Guardable /\ guardAt \in Nat
        /\ GuardedSoFar
        /\ format \in {"completions", "responses"} /\ rewritten = {} =>
             PromptsIn(format, chat, llmPolicy, llmAsk)
        /\ llmPolicy \in LlmPolicy
    BY <1>1 DEF LlmInvariant, ChatFits, LlmTypes
  <2>2. DOMAIN llmPolicy.guards = 1..Len(llmPolicy.guards)
    BY <2>1, PolicyLists
  <2>3. Conversation(llmPolicy.prepend)
    BY <2>1, LlmPolicyAssumption DEF PlainTexts
  <2>4. /\ IsChat(chat') /\ chat'.model = chat.model
        /\ \A h : h = g \/ Clean(h, shown) =>
             Clean(h, GetMessages(format, chat'.messages))
        /\ PromptsIn(format, chat, llmPolicy, llmAsk) =>
             PromptsIn(format, chat', llmPolicy, llmAsk)
    <3>1. CASE hits = {}
      <4>1. chat' = chat
        BY <1>5, <3>1
      <4>2. Clean(g, shown)
        BY <3>1 DEF Clean, Hit
      <4> HIDE DEF g, shown
      <4>3. shown = GetMessages(format, chat'.messages)
        BY <4>1 DEF shown
      <4> QED BY <2>1, <4>1, <4>2, <4>3
    <3>2. CASE hits # {}
      <4>1. chat' = new
        BY <1>5, <3>2
      <4>2. /\ IsChat(new) /\ new.model = chat.model
            /\ \A h : h = g \/ Clean(h, shown) =>
                 Clean(h, GetMessages(format, new.messages))
            /\ \A p, a : Conversation(p.prepend) /\ PromptsIn(format, chat, p, a) =>
                 PromptsIn(format, new, p, a)
        BY <2>1, MaskedIs
      <4> HIDE DEF new, g, shown
      <4> QED BY Zenon, <2>3, <4>1, <4>2
    <3> QED BY <3>1, <3>2
  <2>5. GuardedSoFar'
    <3> SUFFICES ASSUME NEW i \in DOMAIN llmPolicy.guards, i < guardAt',
                        llmPolicy.guards[i].kind = "regex", \A j \in rewritten : j < i
                 PROVE  Clean(llmPolicy.guards[i], GetMessages(format, chat'.messages))
      BY <1>1, <1>2 DEF GuardedSoFar, GuardedBy
    <3> DEFINE h == llmPolicy.guards[i]
    <3>1. i = guardAt \/ i < guardAt
      BY <1>5, <2>1, <2>2
    <3>2. i < guardAt => Clean(h, shown)
      BY <2>1 DEF GuardedSoFar, GuardedBy
    <3>3. i = guardAt => h = g
      OBVIOUS
    <3> HIDE DEF g, h, shown
    <3>4. Clean(h, GetMessages(format, chat'.messages))
      BY <2>4, <3>1, <3>2, <3>3
    <3> QED BY <3>4 DEF h
  <2> HIDE DEF g, shown, hits, new
  <2> QED BY <1>1, <1>5, <2>1, <2>4, <2>5, GuardStep
<1> QED BY <1>3, <1>4, <1>5

LEMMA StepWebhook == LlmInvariant /\ ApplyWebhook => LlmInvariant'
<1> SUFFICES ASSUME LlmInvariant, ApplyWebhook PROVE LlmInvariant'
  OBVIOUS
<1>1. /\ stage = "guard" /\ guardAt \in DOMAIN llmPolicy.guards
      /\ llmPolicy.guards[guardAt].kind = "webhook" /\ GuardUnchanged
  BY DEF ApplyWebhook
<1>2. UNCHANGED <<llmPolicy, provider, llmAsk, format, llmInfo, sent, spent, reply>>
  BY <1>1 DEF GuardUnchanged
<1>3. /\ IsChat(chat) /\ format \in Guardable /\ guardAt \in Nat
      /\ GuardedSoFar
      /\ format \in {"completions", "responses"} /\ rewritten = {} =>
           PromptsIn(format, chat, llmPolicy, llmAsk)
      /\ llmPolicy \in LlmPolicy
  BY <1>1 DEF LlmInvariant, ChatFits, LlmTypes
<1>4. DOMAIN llmPolicy.guards = 1..Len(llmPolicy.guards)
  BY <1>3, PolicyLists
<1>5. \/ stage' = "over" /\ llmGiven'.kind # "answer" /\ UNCHANGED <<chat, rewritten>>
      \/ /\ chat' = chat /\ rewritten' = rewritten
         /\ guardAt' = guardAt + 1 /\ stage' = stage /\ llmGiven' = llmGiven
      \/ /\ \E t \in WebhookTexts : chat' = SetMessages(chat, t)
         /\ rewritten' = rewritten \cup {guardAt}
         /\ guardAt' = guardAt + 1 /\ stage' = stage /\ llmGiven' = llmGiven
  <2>1. Outcome("rejected").kind # "answer" /\ Outcome("error").kind # "answer"
    BY DEF Outcome
  <2> QED BY <2>1 DEF ApplyWebhook, NextGuard, Over, Fails
<1>6. CASE stage' = "over" /\ llmGiven'.kind # "answer" /\ UNCHANGED <<chat, rewritten>>
  BY <1>1, <1>2, <1>6, CallEnds
<1>7. CASE /\ chat' = chat /\ rewritten' = rewritten
           /\ guardAt' = guardAt + 1 /\ stage' = stage /\ llmGiven' = llmGiven
  <2>1. GuardedSoFar'
    <3> SUFFICES ASSUME NEW i \in DOMAIN llmPolicy.guards, i < guardAt',
                        llmPolicy.guards[i].kind = "regex", \A j \in rewritten : j < i
                 PROVE  Clean(llmPolicy.guards[i], GetMessages(format, chat.messages))
      BY <1>2, <1>7 DEF GuardedSoFar, GuardedBy
    <3>1. i # guardAt
      BY <1>1
    <3>2. i < guardAt
      BY <1>3, <1>4, <1>7, <3>1
    <3> QED BY <1>3, <3>2 DEF GuardedSoFar, GuardedBy
  <2> QED BY <1>1, <1>3, <1>7, <2>1, GuardStep
<1>8. ASSUME NEW t \in WebhookTexts, chat' = SetMessages(chat, t),
             rewritten' = rewritten \cup {guardAt},
             guardAt' = guardAt + 1, stage' = stage, llmGiven' = llmGiven
      PROVE  LlmInvariant'
  <2>1. Conversation(t)
    BY LlmAskAssumption
  <2>2. IsChat(chat') /\ chat'.model = chat.model
    BY <1>3, <1>8, <2>1, MessagesSet
  <2>3. GuardedSoFar'
    <3> SUFFICES ASSUME NEW i \in DOMAIN llmPolicy.guards, i < guardAt',
                        \A j \in rewritten' : j < i
                 PROVE  FALSE
      BY <1>2 DEF GuardedSoFar, GuardedBy
    <3>1. guardAt < i
      BY <1>8
    <3> QED BY <1>3, <1>4, <1>8, <3>1
  <2>4. rewritten' # {}
    BY <1>8
  <2> QED BY <1>1, <1>8, <2>2, <2>3, <2>4, GuardStep
<1> QED BY <1>5, <1>6, <1>7, <1>8

LEMMA StepModeration == LlmInvariant /\ ApplyModeration => LlmInvariant'
<1> SUFFICES ASSUME LlmInvariant, ApplyModeration PROVE LlmInvariant'
  OBVIOUS
<1>1. /\ stage = "guard" /\ guardAt \in DOMAIN llmPolicy.guards
      /\ llmPolicy.guards[guardAt].kind = "moderation" /\ GuardUnchanged
      /\ chat' = chat /\ rewritten' = rewritten
  BY DEF ApplyModeration
<1>2. UNCHANGED <<llmPolicy, provider, llmAsk, format, llmInfo, sent, spent, reply>>
  BY <1>1 DEF GuardUnchanged
<1>3. /\ IsChat(chat) /\ format \in Guardable /\ guardAt \in Nat
      /\ GuardedSoFar
      /\ format \in {"completions", "responses"} /\ rewritten = {} =>
           PromptsIn(format, chat, llmPolicy, llmAsk)
      /\ llmPolicy \in LlmPolicy
  BY <1>1 DEF LlmInvariant, ChatFits, LlmTypes
<1>4. DOMAIN llmPolicy.guards = 1..Len(llmPolicy.guards)
  BY <1>3, PolicyLists
<1>5. \/ stage' = "over" /\ llmGiven'.kind # "answer"
      \/ guardAt' = guardAt + 1 /\ stage' = stage /\ llmGiven' = llmGiven
  <2>1. Outcome("rejected").kind # "answer" /\ Outcome("error").kind # "answer"
    BY DEF Outcome
  <2> QED BY <2>1 DEF ApplyModeration, NextGuard, Over, Fails
<1>6. CASE stage' = "over" /\ llmGiven'.kind # "answer"
  BY <1>1, <1>2, <1>6, CallEnds
<1>7. CASE guardAt' = guardAt + 1 /\ stage' = stage /\ llmGiven' = llmGiven
  <2>1. GuardedSoFar'
    <3> SUFFICES ASSUME NEW i \in DOMAIN llmPolicy.guards, i < guardAt',
                        llmPolicy.guards[i].kind = "regex", \A j \in rewritten : j < i
                 PROVE  Clean(llmPolicy.guards[i], GetMessages(format, chat.messages))
      BY <1>1, <1>2 DEF GuardedSoFar, GuardedBy
    <3>1. i # guardAt
      BY <1>1
    <3>2. i < guardAt
      BY <1>3, <1>4, <1>7, <3>1
    <3> QED BY <1>3, <3>2 DEF GuardedSoFar, GuardedBy
  <2> QED BY <1>1, <1>3, <1>7, <2>1, GuardStep
<1> QED BY <1>5, <1>6, <1>7

LEMMA StepGuarded == LlmInvariant /\ GuardsPassed => LlmInvariant'
<1> SUFFICES ASSUME LlmInvariant, GuardsPassed PROVE LlmInvariant'
  OBVIOUS
<1>1. /\ stage = "guard" /\ guardAt = Len(llmPolicy.guards) + 1 /\ stage' = "translate"
      /\ UNCHANGED <<chat, guardAt, rewritten, llmGiven>>
      /\ UNCHANGED <<llmPolicy, provider, llmAsk, format, llmInfo, sent, spent, reply>>
  BY DEF GuardsPassed, GuardUnchanged
<1>2. sent = Nothing /\ llmInfo = Nothing /\ reply = Nothing /\ llmGiven = Nothing
  BY <1>1 DEF LlmInvariant, StagesFit
<1>3. llmPolicy \in LlmPolicy
  BY DEF LlmInvariant, LlmTypes
<1>4. \A i \in DOMAIN llmPolicy.guards : i < guardAt
  BY <1>1, <1>3, PolicyLists
<1>5. ChatFits'
  <2>1. GuardedByAll'
    BY <1>1, <1>4 DEF LlmInvariant, ChatFits, GuardedSoFar, GuardedByAll, GuardedBy
  <2>2. Asked' = Asked
    BY <1>1 DEF Asked
  <2> QED BY <1>1, <2>1, <2>2 DEF LlmInvariant, ChatFits
<1>6. LlmTypes'
  BY <1>1 DEF LlmInvariant, LlmTypes
<1>7. StagesFit' /\ ReplyFits'
  BY <1>1, <1>2 DEF StagesFit, ReplyFits
<1>8. SentFits' /\ GivenFits'
  BY <1>1, <1>2, NothingIsSent, NothingGiven
<1>9. ChargesFit'
  BY <1>1, <1>2 DEF LlmInvariant, ChargesFit, ChargedAtMost
<1> QED BY <1>5, <1>6, <1>7, <1>8, <1>9 DEF LlmInvariant

(* The estimate is a number.                                               *)
LEMMA EstimateIs ==
  ASSUME NEW f, NEW c, IsChat(c), NEW tokenize
  PROVE  Estimate(f, c, tokenize) \in Int
<1> DEFINE shown == GetMessages(f, c.messages)
<1>1. Conversation(shown)
  <2>1. Conversation(c.messages)
    BY DEF IsChat
  <2> QED BY <2>1, ShownIs
<1> HIDE DEF shown
<1>2. Len(shown) \in Nat /\ DOMAIN shown = 1..Len(shown)
      /\ \A i \in 1..Len(shown) : IsFiniteSet(shown[i].words)
  BY <1>1, ConversationParts DEF IsMessage
<1> DEFINE S == 1..Len(shown)
           p == [i \in S |-> {i} \X shown[i].words]
           T == {p[i] : i \in S}
<1>3. IsFiniteSet(S)
  BY <1>2, FS_Interval
<1>4. \A i \in S : IsFiniteSet(p[i])
  <2> SUFFICES ASSUME NEW i \in S PROVE IsFiniteSet(p[i])
    OBVIOUS
  <2>1. IsFiniteSet({i}) /\ IsFiniteSet(shown[i].words)
    BY <1>2, FS_Singleton
  <2>2. IsFiniteSet({i} \X shown[i].words)
    BY <2>1, FS_Product
  <2> QED BY <2>2
<1>5. {{i} \X shown[i].words : i \in DOMAIN shown} = T
  BY <1>2
<1>6. p \in Surjection(S, T)
  BY DEF Surjection
<1> HIDE DEF S, p
<1>7. IsFiniteSet(T) /\ \A x \in T : IsFiniteSet(x)
  <2>1. \A x \in T : IsFiniteSet(x)
    BY <1>4
  <2>2. IsFiniteSet(T)
    <3> HIDE DEF T
    <3> QED BY <1>3, <1>6, FS_Surjection
  <2> QED BY <2>1, <2>2
<1> HIDE DEF T
<1>8. Cardinality(UNION T) \in Nat
  BY <1>7, FS_UNION, FS_CardinalityType
<1>9. NumTokens(shown) \in Int
  <2>1. NumTokens(shown) = 3 + 4 * Len(shown) + Cardinality(UNION T)
    BY <1>5 DEF NumTokens
  <2> QED BY <1>2, <1>8, <2>1
<1> QED BY <1>9 DEF Estimate, shown

(* The translation is that of the endpoint.                                *)
LEMMA TranslationFits ==
  ASSUME NEW p \in LlmProvider, NEW f, Supported(p.kind, f), NEW model
  PROVE  /\ f \in InputFormat
         /\ Translated(p, f, model) = EndpointOf(p, f, model)
         /\ PathModel(p, model) \in {NoModel, p.model, model}
         /\ p.model = NoModel => PathModel(p, model) \in {NoModel, model}
<1>1. p.kind \in {"openai", "anthropic", "gemini", "vertex", "bedrock", "azure"}
  BY LlmProviderAssumption
<1>2. f \in InputFormat
  BY DEF Supported, InputFormat, Guardable
<1>3. PathModel(p, model) \in {NoModel, p.model, model}
      /\ (p.model = NoModel => PathModel(p, model) \in {NoModel, model})
  BY DEF PathModel
<1>4. CASE p.kind = "openai"
  <2>1. f \in {"completions", "responses", "embeddings"}
    BY <1>4 DEF Supported
  <2>2. EndpointOf(p, f, model) =
          IF f \in {"responses", "embeddings", "realtime"} THEN f ELSE "completions"
    BY Zenon, <1>4 DEF EndpointOf
  <2> QED BY <1>2, <1>3, <1>4, <2>1, <2>2 DEF Translated, ToOpenAI
<1>5. CASE p.kind = "anthropic"
  <2>1. f # "count tokens"
    BY <1>5 DEF Supported
  <2>2. EndpointOf(p, f, model) = "anthropic"
    BY Zenon, <1>5 DEF EndpointOf
  <2> QED BY <1>2, <1>3, <1>5, <2>1, <2>2 DEF Translated
<1>6. CASE p.kind = "gemini"
  <2>1. f = "completions"
    BY <1>6 DEF Supported
  <2>2. EndpointOf(p, f, model) = "completions"
    BY Zenon, <1>6 DEF EndpointOf
  <2> QED BY <1>2, <1>3, <1>6, <2>1, <2>2 DEF Translated, ToOpenAI
<1>7. CASE p.kind = "vertex"
  <2>1. f \in {"completions", "messages"}
    BY <1>7 DEF Supported
  <2>2. EndpointOf(p, f, model) = IF IsClaude(p, model) THEN "anthropic"
                                  ELSE IF f = "embeddings" THEN f ELSE "completions"
    BY Zenon, <1>7 DEF EndpointOf
  <2> QED BY <1>2, <1>3, <1>7, <2>1, <2>2 DEF Translated, ToOpenAI
<1>8. CASE p.kind = "bedrock"
  <2>1. EndpointOf(p, f, model) = IF f = "count tokens" THEN f ELSE "bedrock"
    BY Zenon, <1>8 DEF EndpointOf
  <2> QED BY <1>2, <1>3, <1>8, <2>1 DEF Translated
<1>9. CASE p.kind = "azure"
  <2>1. f \in {"completions", "embeddings"}
    BY <1>9 DEF Supported
  <2>2. EndpointOf(p, f, model) = IF f = "embeddings" THEN f ELSE "completions"
    BY Zenon, <1>9 DEF EndpointOf
  <2> QED BY <1>2, <1>3, <1>9, <2>1, <2>2 DEF Translated, ToOpenAI
<1> QED BY <1>1, <1>4, <1>5, <1>6, <1>7, <1>8, <1>9

LEMMA StepTranslate == LlmInvariant /\ Translate => LlmInvariant'
<1> SUFFICES ASSUME LlmInvariant, Translate PROVE LlmInvariant'
  OBVIOUS
<1> DEFINE info == [model |-> chat.model, streaming |-> chat.stream /\ format \in Guardable,
                    input |-> Estimate(format, chat, provider.tokenize)]
           leaving == [format |-> Translated(provider, format, chat.model),
                       endpoint |-> IF provider.hostOverride THEN "own"
                                    ELSE EndpointOf(provider, format, chat.model),
                       pathModel |-> IF provider.hostOverride THEN NoModel
                                     ELSE PathModel(provider, chat.model),
                       chat |-> chat]
<1>1. /\ stage = "translate"
      /\ UNCHANGED <<llmPolicy, provider, llmAsk, format, chat, guardAt, rewritten, spent, reply>>
  BY DEF Translate
<1>2. \/ stage' = "over" /\ llmGiven'.kind # "answer" /\ UNCHANGED <<llmInfo, sent>>
      \/ /\ llmInfo' = info /\ sent' = leaving
         /\ stage' = (IF format = "count tokens" THEN "send" ELSE "limit")
         /\ llmGiven' = llmGiven
  <2>1. Outcome("panic").kind # "answer" /\ Outcome("error").kind # "answer"
    BY DEF Outcome
  <2> DEFINE untold == chat.model \in Untokenized /\ Estimate(format, chat, provider.tokenize) >= 0
             wanted == llmPolicy.readsPrompt /\ format \notin Guardable
             Goal == \/ stage' = "over" /\ llmGiven'.kind # "answer" /\ UNCHANGED <<llmInfo, sent>>
                     \/ /\ llmInfo' = info /\ sent' = leaving
                        /\ stage' = (IF format = "count tokens" THEN "send" ELSE "limit")
                        /\ llmGiven' = llmGiven
  <2>2. untold => Goal
    BY Zenon, <2>1 DEF Translate, Fails, Over
  <2>3. ~untold /\ wanted => Goal
    BY Zenon, <2>1 DEF Translate, Fails, Over
  <2>4. ~untold /\ ~wanted => Goal
    BY Zenon, <2>1 DEF Translate, Fails, Over
  <2> QED BY Zenon, <2>2, <2>3, <2>4
<1>3. CASE stage' = "over" /\ llmGiven'.kind # "answer" /\ UNCHANGED <<llmInfo, sent>>
  BY <1>1, <1>3, CallEnds
<1>4. CASE /\ llmInfo' = info /\ sent' = leaving
           /\ stage' = (IF format = "count tokens" THEN "send" ELSE "limit")
           /\ llmGiven' = llmGiven
  <2>1. /\ IsChat(chat) /\ Supported(provider.kind, format)
        /\ AliasOf(llmPolicy, Asked, chat.model)
        /\ (format \in {"completions", "responses"} /\ rewritten = {} =>
              PromptsIn(format, chat, llmPolicy, llmAsk))
        /\ (format \in Guardable => GuardedByAll)
        /\ provider \in LlmProvider /\ llmPolicy \in LlmPolicy /\ reply = Nothing
        /\ llmGiven = Nothing
    BY <1>1 DEF LlmInvariant, LlmTypes, StagesFit, ChatFits
  <2>2. /\ format \in InputFormat
        /\ Translated(provider, format, chat.model) = EndpointOf(provider, format, chat.model)
        /\ provider.model = NoModel => PathModel(provider, chat.model) \in {NoModel, chat.model}
    BY <2>1, TranslationFits
  <2>3. /\ llmInfo'.model = chat.model
        /\ llmInfo'.input = Estimate(format, chat, provider.tokenize)
        /\ sent'.format = Translated(provider, format, chat.model)
        /\ sent'.endpoint = (IF provider.hostOverride THEN "own"
                             ELSE EndpointOf(provider, format, chat.model))
        /\ sent'.pathModel = (IF provider.hostOverride THEN NoModel
                              ELSE PathModel(provider, chat.model))
        /\ sent'.chat = chat
    BY <1>4
  <2>4. llmInfo' # Nothing /\ sent' # Nothing
    BY <1>4 DEF Nothing
  <2>5. llmInfo'.input \in Int /\ (format = "count tokens" => llmInfo'.input = -1)
    <3>1. Estimate(format, chat, provider.tokenize) \in Int
      BY <2>1, EstimateIs
    <3>2. format = "count tokens" => Estimate(format, chat, provider.tokenize) = -1
      BY DEF Estimate, Guardable
    <3> QED BY <2>3, <3>1, <3>2
  <2> HIDE DEF info, leaving
  <2>6. LlmTypes'
    BY <1>1, <1>4, <2>5 DEF LlmInvariant, LlmTypes
  <2>7. StagesFit' /\ ChatFits' /\ ReplyFits'
    BY <1>1, <1>4, <2>1, <2>2, <2>4 DEF StagesFit, ChatFits, ReplyFits
  <2>8. SentFits'
    <3>1. Asked' = Asked
      BY <1>1 DEF Asked
    <3>2. EndpointFits'
      BY <1>1, <2>2, <2>3 DEF EndpointFits
    <3>3. PromptGuarded'
      BY <1>1, <2>1, <2>3 DEF PromptGuarded, GuardedByAll, GuardedBy, Clean
    <3>4. PromptsKept'
      <4>1. Conversation(llmPolicy.prepend)
        BY <2>1, LlmPolicyAssumption DEF PlainTexts
      <4>2. DOMAIN llmPolicy.prepend = 1..Len(llmPolicy.prepend)
        BY <4>1, ConversationParts
      <4> QED BY <1>1, <2>1, <2>3, <4>2 DEF PromptsKept, PromptsIn
    <3> QED BY <1>1, <2>1, <2>3, <3>1, <3>2, <3>3, <3>4 DEF SentFits
  <2>9. ChargesFit'
    <3>1. \A i \in DOMAIN spent : spent[i] = 0
      BY <1>1 DEF LlmInvariant, ChargesFit
    <3>2. /\ Positive(llmInfo'.input) \in Int /\ 0 <= Positive(llmInfo'.input)
          /\ (format = "count tokens" => Positive(llmInfo'.input) = 0)
      <4>1. PICK e \in Int : e = llmInfo'.input
        BY <2>5
      <4>2. Positive(e) \in Int /\ 0 <= Positive(e) /\ (e = -1 => Positive(e) = 0)
        BY DEF Positive
      <4>3. Positive(llmInfo'.input) = Positive(e)
        BY <4>1
      <4> QED BY <2>5, <4>1, <4>2, <4>3
    <3>3. DOMAIN spent = 0..Len(llmPolicy.limits) /\ Len(llmPolicy.limits) \in Nat
      BY <2>1, PolicyLists DEF LlmInvariant, LlmTypes
    <3>4. 0 \in DOMAIN spent /\ \A i \in 1..Len(llmPolicy.limits) : i \in DOMAIN spent
      BY <3>3
    <3>5. ChargedAtMost'
      BY <1>1, <2>4, <3>1, <3>2 DEF ChargedAtMost
    <3> QED BY <1>1, <1>4, <3>1, <3>2, <3>4, <3>5 DEF ChargesFit
  <2>10. GivenFits'
    BY <1>4, <2>1, NothingGiven
  <2> QED BY <2>6, <2>7, <2>8, <2>9, <2>10 DEF LlmInvariant
<1> QED BY <1>2, <1>3, <1>4

(* What the limits were charged before the provider answers.               *)
LEMMA Charged ==
  ASSUME LlmInvariant
  PROVE  /\ DOMAIN spent = 0..Len(llmPolicy.limits) /\ Len(llmPolicy.limits) \in Nat
         /\ DOMAIN llmPolicy.limits = 1..Len(llmPolicy.limits)
         /\ 0 \in DOMAIN spent /\ 0 \notin DOMAIN llmPolicy.limits
         /\ \A i \in DOMAIN llmPolicy.limits : i \in DOMAIN spent
         /\ \A i \in DOMAIN spent : spent[i] \in Int
         /\ llmInfo # Nothing => llmInfo.input \in Int /\ Positive(llmInfo.input) \in Int
<1>1. llmPolicy \in LlmPolicy /\ spent \in [0..Len(llmPolicy.limits) -> Int]
      /\ (llmInfo # Nothing => llmInfo.input \in Int)
  BY DEF LlmInvariant, LlmTypes
<1>2. Len(llmPolicy.limits) \in Nat /\ DOMAIN llmPolicy.limits = 1..Len(llmPolicy.limits)
  BY <1>1, PolicyLists
<1>3. \A e \in Int : Positive(e) \in Int
  BY DEF Positive
<1>4. DOMAIN spent = 0..Len(llmPolicy.limits) /\ \A i \in DOMAIN spent : spent[i] \in Int
  BY <1>1
<1>5. /\ 0 \in DOMAIN spent /\ 0 \notin DOMAIN llmPolicy.limits
      /\ \A i \in DOMAIN llmPolicy.limits : i \in DOMAIN spent
  BY <1>2, <1>4
<1>6. llmInfo # Nothing => llmInfo.input \in Int /\ Positive(llmInfo.input) \in Int
  BY <1>1, <1>3
<1> QED BY <1>2, <1>4, <1>5, <1>6

LEMMA StepLocalLimits == LlmInvariant /\ CheckLocalLimits => LlmInvariant'
<1> SUFFICES ASSUME LlmInvariant, CheckLocalLimits PROVE LlmInvariant'
  OBVIOUS
<1> DEFINE Admits(i) == IF llmInfo.input >= 0 THEN llmInfo.input <= llmPolicy.limits[i]
                        ELSE llmPolicy.limits[i] > 0
           refusing == {i \in DOMAIN llmPolicy.limits : ~Admits(i)}
           taken == IF refusing = {} THEN DOMAIN llmPolicy.limits
                    ELSE {i \in DOMAIN llmPolicy.limits : \A j \in refusing : i < j}
<1>1. /\ stage = "limit"
      /\ spent' = [i \in DOMAIN spent |-> IF i \in taken /\ llmInfo.input >= 0
                                          THEN llmInfo.input ELSE spent[i]]
      /\ UNCHANGED <<llmPolicy, provider, llmAsk, format, chat, guardAt, rewritten, llmInfo,
                     sent, reply>>
  BY DEF CheckLocalLimits
<1>2. \/ stage' = "over" /\ llmGiven'.kind # "answer"
      \/ /\ taken = DOMAIN llmPolicy.limits
         /\ stage' = (IF llmPolicy.remote THEN "remote" ELSE "send") /\ llmGiven' = llmGiven
  <2>1. Outcome("limited").kind # "answer"
    BY DEF Outcome
  <2> QED BY <2>1 DEF CheckLocalLimits, Over
<1>3. taken \subseteq DOMAIN llmPolicy.limits
  OBVIOUS
<1> HIDE DEF taken, refusing
<1>4. /\ sent # Nothing /\ llmInfo # Nothing /\ format \in InputFormat /\ reply = Nothing
      /\ llmGiven = Nothing /\ \A i \in DOMAIN spent : spent[i] = 0
  BY <1>1 DEF LlmInvariant, StagesFit, ChargesFit
<1>5. \A i \in DOMAIN spent :
        spent'[i] = IF i \in taken /\ llmInfo.input >= 0 THEN llmInfo.input ELSE 0
  BY <1>1, <1>4
<1>6. DOMAIN spent' = DOMAIN spent /\ spent' = [i \in DOMAIN spent |-> spent'[i]]
  BY <1>1
<1>7. PICK e \in Int : e = llmInfo.input
  BY <1>4, Charged
<1>8. Positive(e) = (IF e >= 0 THEN e ELSE 0) /\ Positive(e) \in Int /\ 0 <= Positive(e)
  BY DEF Positive
<1>9. \A i \in DOMAIN spent : /\ spent'[i] \in Int /\ spent'[i] <= Positive(e)
                              /\ i \in taken => spent'[i] = Positive(e)
                              /\ i \notin taken => spent'[i] = 0
  BY <1>5, <1>7, <1>8
<1>10. spent' \in [0..Len(llmPolicy.limits) -> Int]
  BY <1>6, <1>9, Charged
<1>11. LlmTypes'
  BY <1>1, <1>2, <1>10 DEF LlmInvariant, LlmTypes
<1>12. StagesFit' /\ ChatFits' /\ ReplyFits'
  BY <1>1, <1>2, <1>4 DEF StagesFit, ChatFits, ReplyFits
<1>13. SentFits'
  BY <1>1, SentStays
<1>14. ChargesFit'
  <2>1. Positive(llmInfo'.input) = Positive(e)
    BY <1>1, <1>7
  <2>2. ChargedAtMost'
    BY <1>1, <1>4, <1>6, <1>9, <2>1 DEF ChargedAtMost
  <2>3. CASE stage' = "over"
    BY <2>2, <2>3 DEF ChargesFit
  <2>4. CASE /\ taken = DOMAIN llmPolicy.limits
             /\ stage' = (IF llmPolicy.remote THEN "remote" ELSE "send")
    <3>1. spent'[0] = 0
      BY <1>9, <2>4, Charged
    <3>2. \A i \in 1..Len(llmPolicy.limits) : spent'[i] = Positive(e)
      BY <1>9, <2>4, Charged
    <3> QED BY <1>1, <2>1, <2>2, <2>4, <3>1, <3>2 DEF ChargesFit
  <2> QED BY <1>2, <2>3, <2>4
<1>15. GivenFits'
  <2>1. CASE stage' = "over" /\ llmGiven'.kind # "answer"
    BY <2>1 DEF GivenFits, ChargedTruly, AnswerInFormat, AnswerGuarded, Buffered
  <2>2. CASE llmGiven' = llmGiven
    BY <1>4, <2>2, NothingGiven
  <2> QED BY <1>2, <2>1, <2>2
<1> QED BY <1>11, <1>12, <1>13, <1>14, <1>15 DEF LlmInvariant

LEMMA StepRemoteLimit == LlmInvariant /\ CheckRemoteLimit => LlmInvariant'
<1> SUFFICES ASSUME LlmInvariant, CheckRemoteLimit PROVE LlmInvariant'
  OBVIOUS
<1>1. /\ stage = "remote" /\ spent' = [spent EXCEPT ![0] = Positive(llmInfo.input)]
      /\ UNCHANGED <<llmPolicy, provider, llmAsk, format, chat, guardAt, rewritten, llmInfo,
                     sent, reply>>
  BY DEF CheckRemoteLimit
<1>2. \/ stage' = "over" /\ llmGiven'.kind # "answer"
      \/ stage' = "send" /\ llmGiven' = llmGiven
  <2>1. Outcome("limited").kind # "answer"
    BY DEF Outcome
  <2> QED BY <2>1 DEF CheckRemoteLimit, Over
<1>3. /\ sent # Nothing /\ llmInfo # Nothing /\ format \in InputFormat /\ reply = Nothing
      /\ llmGiven = Nothing
  BY <1>1 DEF LlmInvariant, StagesFit
<1>4. PICK e \in Int : e = Positive(llmInfo.input)
  BY <1>3, Charged
<1>5. /\ llmPolicy.remote
      /\ \A i \in 1..Len(llmPolicy.limits) : spent[i] = e
  BY <1>1, <1>4 DEF LlmInvariant, ChargesFit
<1>6. DOMAIN spent' = DOMAIN spent /\ spent' = [i \in DOMAIN spent |-> spent'[i]]
  BY <1>1
<1>7. \A i \in DOMAIN spent : spent'[i] = e
  BY <1>1, <1>4, <1>5, Charged
<1>8. spent' \in [0..Len(llmPolicy.limits) -> Int]
  BY <1>6, <1>7, Charged
<1>9. LlmTypes'
  BY <1>1, <1>2, <1>8 DEF LlmInvariant, LlmTypes
<1>10. StagesFit' /\ ChatFits' /\ ReplyFits'
  BY <1>1, <1>2, <1>3 DEF StagesFit, ChatFits, ReplyFits
<1>11. SentFits'
  BY <1>1, SentStays
<1>12. ChargesFit'
  <2>1. Positive(llmInfo'.input) = e
    BY <1>1, <1>4
  <2>2. ChargedAtMost'
    BY <1>1, <1>3, <1>6, <1>7, <2>1 DEF ChargedAtMost
  <2>3. spent'[0] = e /\ \A i \in 1..Len(llmPolicy.limits) : spent'[i] = e
    BY <1>7, Charged
  <2> QED BY <1>1, <1>2, <1>5, <2>1, <2>2, <2>3 DEF ChargesFit
<1>13. GivenFits'
  <2>1. CASE stage' = "over" /\ llmGiven'.kind # "answer"
    BY <2>1 DEF GivenFits, ChargedTruly, AnswerInFormat, AnswerGuarded, Buffered
  <2>2. CASE llmGiven' = llmGiven
    BY <1>3, <2>2, NothingGiven
  <2> QED BY <1>2, <2>1, <2>2
<1> QED BY <1>9, <1>10, <1>11, <1>12, <1>13 DEF LlmInvariant

LEMMA StepAnswers == LlmInvariant /\ UpstreamAnswers => LlmInvariant'
<1> SUFFICES ASSUME LlmInvariant, UpstreamAnswers PROVE LlmInvariant'
  OBVIOUS
<1>1. /\ stage = "send" /\ stage' = "answer"
      /\ UNCHANGED <<llmPolicy, provider, llmAsk, format, chat, guardAt, rewritten, llmInfo,
                     sent, spent, llmGiven>>
  BY DEF UpstreamAnswers
<1>2. \E ok, f, choices, usage, coding, fits :
        /\ reply' = Reply(ok, f, choices, usage, coding, fits)
        /\ usage \in Int /\ f \in {sent.format, "garbled"}
  <2>1. \/ \E ok \in BOOLEAN, choices \in {<<{"hello"}>>, <<{"secret"}, {"bad"}>>},
              usage \in {-1, 3}, coding \in {"none", "gzip"} :
              reply' = Reply(ok, sent.format, choices, usage, coding, TRUE)
        \/ \E ok \in BOOLEAN : reply' = Reply(ok, "garbled", <<>>, -1, "none", TRUE)
        \/ \E ok \in BOOLEAN :
             reply' = Reply(ok, sent.format, <<{"hello"}>>, 3, "unheard of", TRUE)
        \/ reply' = Reply(TRUE, sent.format, <<{"hello"}>>, 3, "none", FALSE)
    BY Zenon DEF UpstreamAnswers
  <2>2. \A usage \in {-1, 3} : usage \in Int
    OBVIOUS
  <2>3. -1 \in Int /\ 3 \in Int
    OBVIOUS
  <2> QED BY <2>1, <2>2, <2>3
<1>3. /\ reply' = Reply(reply'.ok, reply'.format, reply'.choices, reply'.usage, reply'.coding,
                        reply'.fits)
      /\ reply'.usage \in Int /\ reply'.format \in {sent.format, "garbled"} /\ reply' # Nothing
  BY <1>2 DEF Reply, Nothing
<1>4. /\ sent # Nothing /\ llmInfo # Nothing /\ format \in InputFormat /\ llmGiven = Nothing
  BY <1>1 DEF LlmInvariant, StagesFit
<1>5. LlmTypes'
  BY <1>1 DEF LlmInvariant, LlmTypes
<1>6. StagesFit' /\ ChatFits' /\ ReplyFits'
  BY <1>1, <1>3, <1>4 DEF StagesFit, ChatFits, ReplyFits
<1>7. SentFits' /\ GivenFits'
  BY <1>1, <1>4, SentStays, NothingGiven
<1>8. ChargesFit'
  BY <1>1, <1>3, <1>4 DEF LlmInvariant, ChargesFit, ChargedAtMost
<1> QED BY <1>5, <1>6, <1>7, <1>8 DEF LlmInvariant

LEMMA StepUnreachable == LlmInvariant /\ Unreachable => LlmInvariant'
<1>1. Outcome("error").kind # "answer"
  BY DEF Outcome
<1> QED BY <1>1, CallEnds DEF Unreachable, Fails, Over

LEMMA StepStreaming == LlmInvariant /\ ProcessStreaming => LlmInvariant'
<1> SUFFICES ASSUME LlmInvariant, ProcessStreaming PROVE LlmInvariant'
  OBVIOUS
<1>1. llmGiven'.kind = "stream"
  BY DEF ProcessStreaming, Over, Answered
<1> QED BY <1>1, CallEnds DEF ProcessStreaming, Over

LEMMA StepSimple == LlmInvariant /\ ProcessSimple => LlmInvariant'
<1> SUFFICES ASSUME LlmInvariant, ProcessSimple PROVE LlmInvariant'
  OBVIOUS
<1>1. stage' = "over"
  BY DEF ProcessSimple, Fails, Over
<1>2. stage = "answer" /\ format \notin Guardable
      /\ UNCHANGED <<llmPolicy, provider, llmAsk, format, chat, rewritten, llmInfo, sent, spent,
                     reply>>
  BY DEF ProcessSimple
<1> QED BY <1>1, <1>2, CallEnds

(* Setting the tokens right: what was taken and what is added come to      *)
(* twice the usage the provider reports.                                   *)
LEMMA TokensAmended ==
  LlmInvariant /\ stage \in {"answer", "answer guard"} /\ AmendTokens =>
    /\ spent' \in [0..Len(llmPolicy.limits) -> Int]
    /\ reply.ok /\ reply.usage >= 0 =>
         /\ \A i \in DOMAIN llmPolicy.limits : spent'[i] = 2 * reply.usage
         /\ llmPolicy.remote => spent'[0] >= 2 * reply.usage
<1>0. SUFFICES ASSUME LlmInvariant, stage \in {"answer", "answer guard"}, AmendTokens
      PROVE  /\ spent' \in [0..Len(llmPolicy.limits) -> Int]
             /\ reply.ok /\ reply.usage >= 0 =>
                  /\ \A i \in DOMAIN llmPolicy.limits : spent'[i] = 2 * reply.usage
                  /\ llmPolicy.remote => spent'[0] >= 2 * reply.usage
  OBVIOUS
<1> DEFINE told == reply.ok /\ UsageTaken >= 0
           mismatch == IF ~told THEN 0
                       ELSE IF llmInfo.input >= 0 THEN UsageTaken - llmInfo.input ELSE UsageTaken
           more == mismatch + (IF told THEN UsageTaken ELSE 0)
<1>1. spent' = [i \in DOMAIN spent |->
                  IF i # 0 THEN spent[i] + more
                  ELSE IF llmPolicy.remote THEN spent[i] + Positive(more) ELSE spent[i]]
  BY <1>0 DEF AmendTokens
<1>2. /\ llmInfo # Nothing /\ reply.usage \in Int
      /\ spent[0] = (IF llmPolicy.remote THEN Positive(llmInfo.input) ELSE 0)
      /\ \A i \in 1..Len(llmPolicy.limits) : spent[i] = Positive(llmInfo.input)
  BY <1>0 DEF LlmInvariant, StagesFit, ReplyFits, ChargesFit
<1>3. /\ DOMAIN spent = 0..Len(llmPolicy.limits) /\ 0 \in DOMAIN spent
      /\ Len(llmPolicy.limits) \in Nat
      /\ DOMAIN llmPolicy.limits = 1..Len(llmPolicy.limits)
      /\ \A i \in DOMAIN llmPolicy.limits : i \in DOMAIN spent /\ i # 0
      /\ \A i \in DOMAIN spent : spent[i] \in Int
  BY <1>0, Charged
<1>4. PICK e \in Int : e = llmInfo.input
  BY <1>0, <1>2, Charged
<1>5. Positive(llmInfo.input) = Positive(e)
  BY <1>4
<1> DEFINE v == reply.usage
<1>6. PICK u \in Int : u = UsageTaken /\ (v >= 0 => u = v)
  <2>1. UsageTaken = v \/ (v < 0 /\ UsageTaken = 0)
    BY DEF UsageTaken
  <2>2. v \in Int
    BY <1>2
  <2> HIDE DEF v
  <2> QED BY <2>1, <2>2
<1> HIDE DEF v
<1>7. /\ more \in Int
      /\ told /\ e >= 0 => more = 2 * u - e
      /\ told /\ ~(e >= 0) => more = 2 * u
  <2>1. /\ ~told => more = 0 + 0
        /\ told /\ e >= 0 => more = (u - e) + u
        /\ told /\ ~(e >= 0) => more = u + u
    BY <1>4, <1>6
  <2> HIDE DEF more, told
  <2> QED BY <2>1
<1>8. reply.ok /\ v >= 0 => told /\ u = v
  BY <1>6
<1> HIDE DEF more, told
<1>9. PICK m \in Int : m = more
  BY <1>7
<1>10. /\ Positive(m) \in Int /\ Positive(m) >= m /\ Positive(e) \in Int
       /\ (e >= 0 => Positive(e) = e) /\ (~(e >= 0) => Positive(e) = 0)
  <2>1. Positive(m) \in Int /\ Positive(m) >= m
    BY DEF Positive
  <2>2. Positive(e) \in Int /\ (e >= 0 => Positive(e) = e) /\ (~(e >= 0) => Positive(e) = 0)
    BY DEF Positive
  <2> QED BY <2>1, <2>2
<1>11. Positive(more) = Positive(m)
  BY <1>9
<1>12. spent' = [i \in DOMAIN spent |-> spent'[i]] /\ DOMAIN spent' = DOMAIN spent
  BY <1>1
<1>13. \A i \in DOMAIN spent : spent'[i] \in Int
  <2> SUFFICES ASSUME NEW i \in DOMAIN spent PROVE spent'[i] \in Int
    OBVIOUS
  <2>1. spent'[i] \in {spent[i] + m, spent[i] + Positive(m), spent[i]}
    BY <1>1, <1>9, <1>11
  <2>2. PICK x \in Int : x = spent[i]
    BY <1>3
  <2>3. PICK y \in Int : y = Positive(m)
    BY <1>10
  <2> QED BY <2>1, <2>2, <2>3
<1>14. spent' \in [0..Len(llmPolicy.limits) -> Int]
  BY <1>3, <1>12, <1>13
<1>15. \A i \in DOMAIN llmPolicy.limits : spent'[i] = Positive(e) + m
  BY <1>1, <1>2, <1>3, <1>5, <1>9
<1>16. llmPolicy.remote => spent'[0] = Positive(e) + Positive(m)
  BY <1>1, <1>2, <1>3, <1>5, <1>11
<1>17. told => Positive(e) + m = 2 * u /\ Positive(e) + Positive(m) >= 2 * u
  <2>1. PICK x \in Int, y \in Int : x = Positive(e) /\ y = Positive(m)
    BY <1>10
  <2>2. told => x + m = 2 * u
    BY <1>7, <1>9, <1>10, <2>1
  <2>3. told => x + y >= 2 * u
    BY <1>10, <2>1, <2>2
  <2> QED BY <2>1, <2>2, <2>3
<1> QED BY <1>8, <1>14, <1>15, <1>16, <1>17 DEF v

(* A buffered answer that ends the call.                                   *)
LEMMA AnswerEnds ==
  ASSUME LlmInvariant, stage \in {"answer", "answer guard"}, NEW f, FinishAnswer(f, reply.choices),
         UNCHANGED <<llmPolicy, provider, llmAsk, format, chat, rewritten, llmInfo, sent, reply>>,
         reply.ok => f = NativeFormat(format),
         f # "garbled" /\ ~(provider.kind = "vertex" /\ sent.format # NativeFormat(format))
           => f = NativeFormat(format),
         reply.ok => \A i \in DOMAIN llmPolicy.answerGuards :
           llmPolicy.answerGuards[i].kind = "regex" =>
             CleanChoices(llmPolicy.answerGuards[i], reply.choices)
  PROVE  LlmInvariant'
<1>1. /\ stage' = "over" /\ AmendTokens
      /\ llmGiven' = Answered("answer", f, reply.choices, reply.coding, reply.coding, FALSE)
  BY DEF FinishAnswer, Over
<1>2. /\ llmGiven'.format = f /\ llmGiven'.choices = reply.choices
      /\ llmGiven'.coding = reply.coding /\ llmGiven'.header = reply.coding
      /\ llmGiven'.length = FALSE
  BY <1>1 DEF Answered
<1>3. /\ sent # Nothing /\ llmInfo # Nothing /\ reply # Nothing
  BY DEF LlmInvariant, StagesFit
<1>4. /\ spent' \in [0..Len(llmPolicy.limits) -> Int]
      /\ reply.ok /\ reply.usage >= 0 =>
           /\ \A i \in DOMAIN llmPolicy.limits : spent'[i] = 2 * reply.usage
           /\ llmPolicy.remote => spent'[0] >= 2 * reply.usage
  BY <1>1, TokensAmended
<1>5. LlmTypes'
  BY <1>1, <1>4 DEF LlmInvariant, LlmTypes
<1>6. StagesFit' /\ ChatFits' /\ ReplyFits'
  BY <1>1 DEF StagesFit, ChatFits, ReplyFits
<1>7. SentFits'
  BY SentStays
<1>8. ChargesFit'
  BY <1>1, <1>3 DEF ChargesFit, ChargedAtMost
<1>9. ChargedTruly'
  BY <1>4 DEF ChargedTruly
<1>10. AnswerInFormat'
  BY <1>2 DEF AnswerInFormat
<1>11. AnswerGuarded'
  BY <1>2 DEF AnswerGuarded, CleanChoices
<1> QED BY <1>5, <1>6, <1>7, <1>8, <1>9, <1>10, <1>11 DEF LlmInvariant, GivenFits

(* A format that needs no translation on the way back is the caller's.     *)
LEMMA NativeAnswers ==
  ASSUME NEW p \in LlmProvider, NEW f \in Guardable, Supported(p.kind, f), ~Converts(p, f),
         NEW model
  PROVE  p.kind = "vertex" \/ Translated(p, f, model) = NativeFormat(f)
<1>1. p.kind \in {"openai", "anthropic", "gemini", "vertex", "bedrock", "azure"}
  BY LlmProviderAssumption
<1> QED BY <1>1 DEF Supported, Converts, Translated, NativeFormat, ToOpenAI, Guardable

LEMMA StepBuffer == LlmInvariant /\ BufferResponse => LlmInvariant'
<1> SUFFICES ASSUME LlmInvariant, BufferResponse PROVE LlmInvariant'
  OBVIOUS
<1>1. /\ stage = "answer" /\ format \in Guardable
      /\ UNCHANGED <<llmPolicy, provider, llmAsk, format, chat, rewritten, llmInfo, sent, reply>>
  BY DEF BufferResponse
<1>2. /\ sent # Nothing /\ llmInfo # Nothing /\ reply # Nothing /\ llmGiven = Nothing
      /\ format \in InputFormat
  BY <1>1 DEF LlmInvariant, StagesFit
<1>3. \/ stage' = "over" /\ llmGiven' = Outcome("error") /\ spent' = spent
      \/ /\ reply.ok /\ stage' = "answer guard" /\ guardAt' = 1
         /\ llmGiven' = llmGiven /\ spent' = spent
      \/ /\ ~reply.ok /\ Converts(provider, format)
         /\ FinishAnswer(NativeFormat(format), reply.choices)
      \/ /\ ~reply.ok /\ ~Converts(provider, format)
         /\ FinishAnswer(reply.format, reply.choices)
  BY DEF BufferResponse, Fails, Over
<1>4. CASE stage' = "over" /\ llmGiven' = Outcome("error") /\ spent' = spent
  <2>1. llmGiven'.kind # "answer"
    BY <1>4 DEF Outcome
  <2> QED BY <1>1, <1>4, <2>1, CallEnds
<1>5. CASE /\ reply.ok /\ stage' = "answer guard" /\ guardAt' = 1
           /\ llmGiven' = llmGiven /\ spent' = spent
  <2>1. DOMAIN llmPolicy.answerGuards = 1..Len(llmPolicy.answerGuards)
        /\ Len(llmPolicy.answerGuards) \in Nat
    BY PolicyLists DEF LlmInvariant, LlmTypes
  <2>2. \A i \in DOMAIN llmPolicy.answerGuards : ~(i < 1)
    BY <2>1
  <2>3. LlmTypes'
    BY <1>1, <1>5 DEF LlmInvariant, LlmTypes
  <2>4. StagesFit' /\ ChatFits'
    BY <1>1, <1>2, <1>5 DEF StagesFit, ChatFits
  <2>5. ReplyFits'
    BY <1>1, <1>5, <2>2 DEF LlmInvariant, ReplyFits
  <2>6. SentFits' /\ GivenFits'
    BY <1>1, <1>2, <1>5, SentStays, NothingGiven
  <2>7. ChargesFit'
    BY <1>1, <1>5 DEF LlmInvariant, ChargesFit, ChargedAtMost
  <2> QED BY <2>3, <2>4, <2>5, <2>6, <2>7 DEF LlmInvariant
<1>6. CASE /\ ~reply.ok /\ Converts(provider, format)
           /\ FinishAnswer(NativeFormat(format), reply.choices)
  BY <1>1, <1>6, AnswerEnds
<1>7. CASE /\ ~reply.ok /\ ~Converts(provider, format)
           /\ FinishAnswer(reply.format, reply.choices)
  <2>1. /\ provider \in LlmProvider /\ Supported(provider.kind, format)
        /\ sent.format = Translated(provider, format, llmInfo.model)
    BY <1>2 DEF LlmInvariant, SentFits, IsSent
  <2>2. reply.format \in {sent.format, "garbled"}
    BY <1>1 DEF LlmInvariant, ReplyFits
  <2>3. provider.kind = "vertex" \/ sent.format = NativeFormat(format)
    BY <1>1, <1>7, <2>1, NativeAnswers
  <2> QED BY <1>1, <1>7, <2>2, <2>3, AnswerEnds
<1> QED BY <1>3, <1>4, <1>5, <1>6, <1>7

LEMMA StepResponseGuard == LlmInvariant /\ ApplyResponseGuard => LlmInvariant'
<1> SUFFICES ASSUME LlmInvariant, ApplyResponseGuard PROVE LlmInvariant'
  OBVIOUS
<1> DEFINE g == llmPolicy.answerGuards[guardAt]
           GoesOn(choices) == /\ reply' = [reply EXCEPT !.choices = choices]
                              /\ guardAt' = guardAt + 1 /\ stage' = stage /\ llmGiven' = llmGiven
<1>1. /\ stage = "answer guard" /\ guardAt \in DOMAIN llmPolicy.answerGuards
      /\ UNCHANGED <<llmPolicy, provider, llmAsk, format, chat, rewritten, llmInfo, sent, spent>>
  BY DEF ApplyResponseGuard
<1>2. /\ sent # Nothing /\ llmInfo # Nothing /\ reply # Nothing /\ llmGiven = Nothing
      /\ format \in InputFormat
  BY <1>1 DEF LlmInvariant, StagesFit
<1>3. /\ reply = Reply(reply.ok, reply.format, reply.choices, reply.usage, reply.coding, reply.fits)
      /\ reply.usage \in Int /\ reply.format \in {sent.format, "garbled"}
      /\ reply.ok /\ guardAt \in Nat /\ format \in Guardable
      /\ \A i \in DOMAIN llmPolicy.answerGuards :
           i < guardAt /\ llmPolicy.answerGuards[i].kind = "regex" =>
             CleanChoices(llmPolicy.answerGuards[i], reply.choices)
  BY <1>1 DEF LlmInvariant, ReplyFits
<1>4. /\ DOMAIN llmPolicy.answerGuards = 1..Len(llmPolicy.answerGuards)
      /\ Len(llmPolicy.answerGuards) \in Nat
  BY PolicyLists DEF LlmInvariant, LlmTypes
<1>5. \A i \in DOMAIN llmPolicy.answerGuards : i < guardAt + 1 => i < guardAt \/ i = guardAt
  BY <1>3, <1>4
<1>6. ASSUME NEW choices, GoesOn(choices),
             \A i \in DOMAIN llmPolicy.answerGuards :
               i < guardAt + 1 /\ llmPolicy.answerGuards[i].kind = "regex" =>
                 CleanChoices(llmPolicy.answerGuards[i], choices)
      PROVE  LlmInvariant'
  <2>1. reply' = Reply(reply.ok, reply.format, choices, reply.usage, reply.coding, reply.fits)
    BY <1>3, <1>6 DEF Reply
  <2>2. /\ reply'.ok = reply.ok /\ reply'.format = reply.format /\ reply'.choices = choices
        /\ reply'.usage = reply.usage /\ reply' # Nothing
        /\ reply' = Reply(reply'.ok, reply'.format, reply'.choices, reply'.usage, reply'.coding,
                          reply'.fits)
    BY <2>1 DEF Reply, Nothing
  <2>3. LlmTypes'
    BY <1>1, <1>6 DEF LlmInvariant, LlmTypes
  <2>4. StagesFit' /\ ChatFits'
    BY <1>1, <1>2, <1>6, <2>2 DEF StagesFit, ChatFits
  <2>5. ReplyFits'
    <3>1. guardAt' \in Nat
      BY <1>3, <1>6
    <3> QED BY <1>1, <1>3, <1>6, <2>2, <3>1 DEF ReplyFits
  <2>6. SentFits' /\ GivenFits'
    BY <1>1, <1>2, <1>6, SentStays, NothingGiven
  <2>7. ChargesFit'
    BY <1>1, <1>2, <1>6, <2>2 DEF LlmInvariant, ChargesFit, ChargedAtMost
  <2> QED BY <2>3, <2>4, <2>5, <2>6, <2>7 DEF LlmInvariant
<1>7. \/ stage' = "over" /\ llmGiven'.kind # "answer" /\ reply' = reply
      \/ g.kind = "regex" /\ GoesOn(MaskedChoices(g, reply.choices))
      \/ g.kind = "webhook" /\ GoesOn(reply.choices)
      \/ g.kind = "webhook" /\ GoesOn(AnswerRewritten(reply.choices))
  <2>1. Outcome("rejected").kind # "answer" /\ Outcome("error").kind # "answer"
    BY DEF Outcome
  <2>2. reply = [reply EXCEPT !.choices = reply.choices]
    BY <1>3 DEF Reply
  <2> QED BY <2>1, <2>2 DEF ApplyResponseGuard, NextGuard, Over, Fails
<1>8. CASE stage' = "over" /\ llmGiven'.kind # "answer" /\ reply' = reply
  BY <1>1, <1>8, CallEnds
<1>9. CASE g.kind = "regex" /\ GoesOn(MaskedChoices(g, reply.choices))
  <2> DEFINE choices == MaskedChoices(g, reply.choices)
  <2>1. /\ DOMAIN choices = DOMAIN reply.choices
        /\ \A c \in DOMAIN choices : choices[c] = Masked(g, reply.choices[c])
    BY DEF MaskedChoices
  <2> HIDE DEF choices
  <2>2. ASSUME NEW i \in DOMAIN llmPolicy.answerGuards,
               i < guardAt + 1, llmPolicy.answerGuards[i].kind = "regex"
        PROVE  CleanChoices(llmPolicy.answerGuards[i], choices)
    <3>1. CASE i = guardAt
      BY <2>1, <3>1 DEF CleanChoices, Masked, Hit, StandIns
    <3>2. CASE i < guardAt
      <4>1. CleanChoices(llmPolicy.answerGuards[i], reply.choices)
        BY <1>3, <2>2, <3>2
      <4> QED BY <2>1, <4>1 DEF CleanChoices, Masked, Hit, StandIns
    <3> QED BY <1>5, <2>2, <3>1, <3>2
  <2>3. GoesOn(choices)
    BY <1>9 DEF choices
  <2> HIDE DEF GoesOn
  <2> QED BY <1>6, <2>2, <2>3
<1>10. CASE g.kind = "webhook" /\ GoesOn(reply.choices)
  BY <1>3, <1>5, <1>6, <1>10
<1>11. CASE g.kind = "webhook" /\ GoesOn(AnswerRewritten(reply.choices))
  <2> DEFINE choices == AnswerRewritten(reply.choices)
  <2>1. \A c \in DOMAIN choices : choices[c] = {"fine"}
    BY DEF AnswerRewritten
  <2> HIDE DEF choices
  <2>2. \A i \in DOMAIN llmPolicy.answerGuards : llmPolicy.answerGuards[i].kind = "regex" =>
          CleanChoices(llmPolicy.answerGuards[i], choices)
    BY <2>1 DEF CleanChoices, Hit, StandIns
  <2>3. GoesOn(choices)
    BY <1>11 DEF choices
  <2> HIDE DEF GoesOn
  <2> QED BY <1>6, <2>2, <2>3
<1> QED BY <1>7, <1>8, <1>9, <1>10, <1>11

LEMMA StepPassed == LlmInvariant /\ AnswerPassed => LlmInvariant'
<1> SUFFICES ASSUME LlmInvariant, AnswerPassed PROVE LlmInvariant'
  OBVIOUS
<1>1. /\ stage = "answer guard" /\ guardAt = Len(llmPolicy.answerGuards) + 1
      /\ FinishAnswer(NativeFormat(format), reply.choices)
      /\ UNCHANGED <<llmPolicy, provider, llmAsk, format, chat, rewritten, llmInfo, sent, reply>>
  BY DEF AnswerPassed
<1>2. \A i \in DOMAIN llmPolicy.answerGuards : i < guardAt
  <2>1. DOMAIN llmPolicy.answerGuards = 1..Len(llmPolicy.answerGuards)
        /\ Len(llmPolicy.answerGuards) \in Nat
    BY PolicyLists DEF LlmInvariant, LlmTypes
  <2>2. guardAt = Len(llmPolicy.answerGuards) + 1
    BY <1>1
  <2> QED BY <2>1, <2>2
<1>3. \A i \in DOMAIN llmPolicy.answerGuards : llmPolicy.answerGuards[i].kind = "regex" =>
        CleanChoices(llmPolicy.answerGuards[i], reply.choices)
  BY <1>1, <1>2 DEF LlmInvariant, ReplyFits
<1> QED BY <1>1, <1>3, AnswerEnds

LEMMA CallsKeep == LlmInvariant /\ [LlmNext]_llmVars => LlmInvariant'
<1> SUFFICES ASSUME LlmInvariant, [LlmNext]_llmVars PROVE LlmInvariant'
  OBVIOUS
<1>1. CASE UNCHANGED llmVars
  <2>1. /\ llmPolicy' = llmPolicy /\ provider' = provider /\ llmAsk' = llmAsk /\ stage' = stage
        /\ format' = format /\ chat' = chat /\ guardAt' = guardAt /\ rewritten' = rewritten
        /\ llmInfo' = llmInfo /\ sent' = sent /\ spent' = spent /\ reply' = reply
        /\ llmGiven' = llmGiven
    BY <1>1 DEF llmVars
  <2>2. LlmTypes' /\ StagesFit' /\ ReplyFits'
    BY <2>1 DEF LlmInvariant, LlmTypes, StagesFit, ReplyFits
  <2>3. ChatFits'
    BY <2>1 DEF LlmInvariant, ChatFits, Asked, GuardedSoFar, GuardedByAll, GuardedBy
  <2>4. SentFits'
    BY <2>1, SentStays
  <2>5. ChargesFit'
    BY <2>1 DEF LlmInvariant, ChargesFit, ChargedAtMost
  <2>6. GivenFits'
    BY <2>1 DEF LlmInvariant, GivenFits, ChargedTruly, AnswerInFormat, AnswerGuarded, Buffered
  <2> QED BY <2>2, <2>3, <2>4, <2>5, <2>6 DEF LlmInvariant
<1>2. CASE LlmNext
  BY <1>2, StepPick, StepRoute, StepRead, StepShape, StepRegex, StepWebhook, StepModeration,
     StepGuarded, StepTranslate, StepLocalLimits, StepRemoteLimit, StepAnswers, StepUnreachable,
     StepStreaming, StepSimple, StepBuffer, StepResponseGuard, StepPassed DEF LlmNext
<1> QED BY <1>1, <1>2

LEMMA CallsImply == LlmInvariant => LlmConsistent
<1> SUFFICES ASSUME LlmInvariant PROVE LlmConsistent
  OBVIOUS
<1>1. LlmTypeOK
  <2>1. chat # Nothing => DOMAIN chat.messages = 1..Len(chat.messages)
    <3> SUFFICES ASSUME chat # Nothing PROVE DOMAIN chat.messages = 1..Len(chat.messages)
      OBVIOUS
    <3>1. Conversation(chat.messages)
      BY DEF LlmInvariant, LlmTypes, IsChat
    <3> QED BY <3>1, ConversationParts
  <2> QED BY <2>1 DEF LlmInvariant, LlmTypes, LlmTypeOK
<1>2. PromptGuarded /\ PromptsKept /\ EndpointFits
  BY DEF LlmInvariant, SentFits, PromptGuarded, PromptsKept, EndpointFits
<1>3. AliasSpecific
  <2>1. IsSent => AliasOf(llmPolicy, Asked, sent.chat.model)
    BY DEF LlmInvariant, SentFits
  <2> QED BY <2>1 DEF AliasSpecific, AliasOf, Asked
<1>4. ChargedTruly /\ ChargedAtMost /\ AnswerInFormat /\ AnswerGuarded
  BY DEF LlmInvariant, GivenFits, ChargesFit
<1> QED BY <1>1, <1>2, <1>3, <1>4 DEF LlmConsistent

(* A call of a model is guarded, translated, charged and answered as its   *)
(* policy says, whatever the policy, the provider and the caller           *)
(* (llm/mod.rs, llm/policy/mod.rs).                                        *)
THEOREM CallsStayConsistent == LlmSpec => []LlmConsistent
<1>1. LlmInit => LlmInvariant
  BY CallsBegin
<1>2. LlmInvariant /\ [LlmNext]_llmVars => LlmInvariant'
  BY CallsKeep
<1>3. LlmInvariant => LlmConsistent
  BY CallsImply
<1> QED BY <1>1, <1>2, <1>3, PTL DEF LlmSpec
=============================================================================
