------------------------------ MODULE Gateway -------------------------------
(***************************************************************************)
(* Gateway::run (agentgateway/src/proxy/gateway.rs): one task per address  *)
(* of the configured binds, started and aborted as the bind store reports  *)
(* changes over a bounded broadcast channel, until a drain is signalled.   *)
(*                                                                         *)
(* The store is reduced to the address of each bind (see BindStore for the *)
(* rest); the receiver of the channel that falls behind loses the oldest   *)
(* events and is told once that it lagged.  A bind task opens its socket   *)
(* when it is first polled; an aborted task keeps its socket until the     *)
(* runtime drops it, which happens some time after abort() returned.  The  *)
(* threading mode is the default one, a task for each bind.                *)
(***************************************************************************)
EXTENDS Naturals, Sequences

CONSTANTS
  BindKey, Address,
  Config,    \* the pairs <<key, address>> a configuration may contain
  TaskId,    \* bound on the tasks that exist at once
  Capacity,  \* of the broadcast channel
  None

ASSUME GatewayAssumption ==
  /\ Config \subseteq BindKey \X Address
  /\ Capacity \in Nat \ {0}
  /\ None \notin Address \cup TaskId

(* Binds that have an address of their own: the instance that is checked,  *)
(* and what the answer to which addresses are served depends on.           *)
OwnAddress ==
  LET own == CHOOSE f \in [BindKey -> Address] : \A b, c \in BindKey : f[b] = f[c] => b = c
  IN  {<<b, own[b]>> : b \in BindKey}
OneAddressEach == \A c, d \in Config : c[1] = d[1] <=> c[2] = d[2]

VARIABLES
  store,    \* bind key -> its address, or None
  queue,    \* events sent and not yet received
  lagged,   \* the receiver has yet to be told that it lagged
  lost,     \* history: some event was lost
  todo,     \* the initial binds still to be handled
  active,   \* address -> the task that serves it (its AbortHandle), or None
  task,     \* task -> its state
  drain,    \* the drain has been signalled
  phase     \* of Gateway::run: "new", "running", "draining", "returned"

storeVars == <<store, queue, lagged, lost>>
runVars   == <<todo, active, phase>>
vars      == <<storeVars, runVars, task, drain>>

Event == [kind : {"Add", "Remove"}, addr : Address]

\* A task is absent (addr = None), or it owns an address.
Task   == [addr : Address \cup {None}, open : BOOLEAN, aborted : BOOLEAN]
NoTask == [addr |-> None, open |-> FALSE, aborted |-> FALSE]

TypeOK ==
  /\ store \in [BindKey -> Address \cup {None}]
  /\ queue \in Seq(Event) /\ Len(queue) <= Capacity
  /\ lagged \in BOOLEAN /\ lost \in BOOLEAN /\ drain \in BOOLEAN
  /\ todo \in SUBSET Address
  /\ active \in [Address -> TaskId \cup {None}]
  /\ task \in [TaskId -> Task]
  /\ phase \in {"new", "running", "draining", "returned"}

Init ==
  /\ store = [b \in BindKey |-> None]
  /\ queue = <<>>
  /\ lagged = FALSE /\ lost = FALSE /\ drain = FALSE
  /\ todo = {}
  /\ active = [a \in Address |-> None]
  /\ task = [i \in TaskId |-> NoTask]
  /\ phase = "new"

-----------------------------------------------------------------------------
(* The bind store and its event channel                                    *)

Addresses == {store[b] : b \in BindKey} \ {None}

(* Without a subscriber an event goes nowhere; a full channel overwrites   *)
(* its oldest event.                                                       *)
Send(e) ==
  IF phase = "new" THEN UNCHANGED <<queue, lagged, lost>>
  ELSE IF Len(queue) < Capacity
       THEN queue' = Append(queue, e) /\ UNCHANGED <<lagged, lost>>
       ELSE queue' = Append(Tail(queue), e) /\ lagged' = TRUE /\ lost' = TRUE

InsertBind(b, a) ==
  /\ store' = [store EXCEPT ![b] = a]
  /\ Send([kind |-> "Add", addr |-> a])
  /\ UNCHANGED <<runVars, task, drain>>

RemoveBind(b) ==
  /\ store[b] # None
  /\ store' = [store EXCEPT ![b] = None]
  /\ Send([kind |-> "Remove", addr |-> store[b]])
  /\ UNCHANGED <<runVars, task, drain>>

-----------------------------------------------------------------------------
(* Gateway::run                                                            *)

\* mutant: the binds already configured are not read
StartEmpty ==
  /\ phase = "new"
  /\ todo' = {}
  /\ phase' = "running"
  /\ UNCHANGED <<storeVars, active, task, drain>>

(* The binds are read and the channel subscribed under one read lock.      *)
Start ==
  /\ phase = "new"
  /\ todo' = Addresses
  /\ phase' = "running"
  /\ UNCHANGED <<storeVars, active, task, drain>>

Spawn(i, a) ==
  /\ task[i] = NoTask
  /\ \A b \in Address : active[b] # i
  /\ task' = [task EXCEPT ![i].addr = a]
  /\ active' = [active EXCEPT ![a] = i]

\* mutant: the entry of the address is not looked up
HandleAddAlways(a) == \E i \in TaskId : Spawn(i, a)

(* An address that has an entry is left alone, whatever became of its task.*)
HandleAdd(a) ==
  \/ active[a] # None /\ UNCHANGED <<active, task>>
  \/ active[a] = None /\ \E i \in TaskId : Spawn(i, a)

\* mutant: the handle is dropped without abort()
HandleRemoveKeepsTask(a) ==
  /\ active' = [active EXCEPT ![a] = None]
  /\ UNCHANGED task

HandleRemove(a) ==
  \/ active[a] = None /\ UNCHANGED <<active, task>>
  \/ /\ active[a] # None
     /\ active' = [active EXCEPT ![a] = None]
     /\ task' = [task EXCEPT ![active[a]].aborted = task[active[a]] # NoTask]

HandleInitial ==
  /\ phase = "running"
  /\ \E a \in todo : HandleAdd(a) /\ todo' = todo \ {a}
  /\ UNCHANGED <<storeVars, phase, drain>>

(* binds.next(): the loop continues after a lag, the lost events are gone. *)
HandleEvent ==
  /\ phase = "running" /\ todo = {}
  /\ \/ /\ lagged
        /\ lagged' = FALSE
        /\ UNCHANGED <<queue, active, task>>
     \/ /\ ~lagged /\ queue # <<>>
        /\ queue' = Tail(queue)
        /\ IF Head(queue).kind = "Add" THEN HandleAdd(Head(queue).addr)
                                       ELSE HandleRemove(Head(queue).addr)
        /\ UNCHANGED lagged
  /\ UNCHANGED <<store, lost, todo, phase, drain>>

StopListening ==
  /\ phase = "running" /\ todo = {} /\ drain
  /\ phase' = "draining"
  /\ UNCHANGED <<storeVars, todo, active, task, drain>>

\* mutant: return as soon as the drain is seen
ReturnEarly ==
  /\ phase = "draining"
  /\ phase' = "returned"
  /\ UNCHANGED <<storeVars, todo, active, task, drain>>

(* Every task of the JoinSet has been joined.                              *)
Return ==
  /\ phase = "draining"
  /\ \A i \in TaskId : task[i] = NoTask
  /\ phase' = "returned"
  /\ UNCHANGED <<storeVars, todo, active, task, drain>>

-----------------------------------------------------------------------------
(* run_bind                                                                *)

InUse(a) == \E i \in TaskId : task[i].addr = a /\ task[i].open

(* The socket is opened, or the address is taken and the task ends with an *)
(* error.                                                                  *)
OpenSocket(i) ==
  /\ task[i].addr # None /\ ~task[i].open
  /\ task' = IF InUse(task[i].addr)
             THEN [task EXCEPT ![i] = NoTask]
             ELSE [task EXCEPT ![i].open = TRUE]
  /\ UNCHANGED <<storeVars, runVars, drain>>

(* An aborted task is dropped at its next await.                           *)
Cancelled(i) ==
  /\ task[i].aborted
  /\ task' = [task EXCEPT ![i] = NoTask]
  /\ UNCHANGED <<storeVars, runVars, drain>>

(* run_with_drain ends once its connections have ended (see BindDrain).    *)
Drained(i) ==
  /\ drain /\ task[i].open
  /\ task' = [task EXCEPT ![i] = NoTask]
  /\ UNCHANGED <<storeVars, runVars, drain>>

SignalDrain ==
  /\ ~drain
  /\ drain' = TRUE
  /\ UNCHANGED <<storeVars, runVars, task>>

Terminated == phase = "returned" /\ UNCHANGED vars

Next ==
  \/ \E c \in Config : InsertBind(c[1], c[2])
  \/ \E b \in BindKey : RemoveBind(b)
  \/ Start \/ HandleInitial \/ HandleEvent \/ StopListening \/ Return
  \/ \E i \in TaskId : OpenSocket(i) \/ Cancelled(i) \/ Drained(i)
  \/ SignalDrain
  \/ Terminated

(* The runtime polls every ready task and drops aborted ones; whether a    *)
(* configuration change or a drain ever comes is up to the environment.    *)
Fairness ==
  /\ WF_vars(HandleInitial) /\ WF_vars(HandleEvent) /\ WF_vars(Start)
  /\ WF_vars(StopListening) /\ WF_vars(Return)
  /\ \A i \in TaskId : /\ WF_vars(OpenSocket(i))
                       /\ WF_vars(Cancelled(i))
                       /\ WF_vars(Drained(i))

Spec == Init /\ [][Next]_vars
FairSpec == Spec /\ Fairness

-----------------------------------------------------------------------------
(* Properties                                                              *)

(* One task at most serves an address: of two tasks for the same address   *)
(* at least one has been aborted.                                          *)
OneTaskPerAddress ==
  \A i, j \in TaskId :
    i # j /\ task[i].addr # None /\ task[i].addr = task[j].addr
      => task[i].aborted \/ task[j].aborted

(* The table, the join set and the tasks agree, and no address has two tasks. *)
TasksConsistent ==
  /\ TypeOK
  /\ OneTaskPerAddress

(* Once every event has been handled, and if none was lost, the addresses  *)
(* with a task handle are those of the store.                              *)
ActiveMatchesStore ==
  phase = "running" /\ todo = {} /\ queue = <<>> /\ ~lost
    => {a \in Address : active[a] # None} = Addresses

(* When run returns, no bind task is left ("binds drained").               *)
ReturnsDrained == phase = "returned" => \A i \in TaskId : ~task[i].open

(* An address removed for good is no longer listened on, unless an event   *)
(* was lost ("dynamically reload changes").                                *)
RemovedBindCloses ==
  \A a \in Address :
    <>[](a \notin Addresses /\ ~lost) => <>[]~InUse(a)

(* A bind that stays configured stays listened on.                         *)
ConfiguredBindOpens ==
  \A a \in Address :
    <>[](a \in Addresses /\ ~lost /\ ~drain) => []<>InUse(a)
=============================================================================
