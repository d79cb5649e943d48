---------------------------- MODULE EndpointSet -----------------------------
(***************************************************************************)
(* EndpointSet (agentgateway/src/types/loadbalancer.rs): the endpoints of  *)
(* a service or the provider groups of a model backend, with outlier       *)
(* ejection.                                                               *)
(*                                                                         *)
(* Requests finish on the data plane's threads: a failed one marks its     *)
(* endpoint as evicted with a compare-and-swap and sends an event from a   *)
(* task of its own, so events arrive in any order.  Updates and the worker *)
(* that receives those events are synchronous steps of the main thread's   *)
(* single-threaded runtime (agentgateway-app/src/main.rs), hence atomic    *)
(* with respect to each other.  The health score only ranks candidates and *)
(* is left out: any candidate may be chosen.                               *)
(***************************************************************************)
EXTENDS Naturals

CONSTANTS
  Key,       \* endpoint keys: workload uids, provider names
  Home,      \* key -> its bucket; 0 is the preferred one
  Span,      \* how long a failure may evict an endpoint for
  MaxTime,   \* bound on the clock
  NotEvicted

ASSUME EndpointAssumption ==
  /\ Home \in [Key -> Nat] /\ (\E k \in Key : Home[k] = 0)
  /\ Span \subseteq Nat \ {0}
  /\ MaxTime \in Nat
  /\ NotEvicted \notin Nat

(* A home for the instances that are checked: each of two endpoints has a  *)
(* bucket of its own, as provider groups have.                             *)
OwnBuckets ==
  CHOOSE home \in [Key -> 0 .. 1] : \A k, l \in Key : k # l => home[k] # home[l]

VARIABLES
  active,     \* the healthy endpoints
  rejected,   \* the evicted ones
  until,      \* key -> evicted_until of the endpoint's current info, or NotEvicted
  handles,    \* ActiveHandles of requests in flight: <<key, info is current>>
  events,       \* EvictionEvents on their way to the worker, <<key, time>>
  heap,       \* the worker's uneviction_heap, <<key, time>>
  now

endpointVars == <<active, rejected, until, handles, events, heap, now>>

Time == 0 .. MaxTime

EndpointTypeOK ==
  /\ active \in SUBSET Key /\ rejected \in SUBSET (Key \ active)
  /\ until \in [Key -> Time \cup {NotEvicted}]
  /\ handles \in SUBSET (Key \X BOOLEAN)
  /\ events \in SUBSET (Key \X Time)
  /\ heap \in SUBSET (Key \X Time)
  /\ now \in Time

EndpointInit ==
  /\ active = {} /\ rejected = {}
  /\ until = [k \in Key |-> NotEvicted]
  /\ handles = {} /\ events = {} /\ heap = {}
  /\ now = 0

Present == active \cup rejected

-----------------------------------------------------------------------------
(* Updates from discovery                                                  *)

(* The requests in flight keep the info of the endpoint they started with. *)
Orphaned(k) ==
  {<<h[1], h[2] /\ h[1] # k>> : h \in handles}

(* An updated endpoint starts over with fresh information.                 *)
Add(k) ==
  /\ active' = active \cup {k}
  /\ rejected' = rejected \ {k}
  /\ until' = [until EXCEPT ![k] = NotEvicted]
  /\ handles' = Orphaned(k)
  /\ UNCHANGED <<events, heap, now>>

Delete(k) ==
  /\ k \in Present
  /\ active' = active \ {k}
  /\ rejected' = rejected \ {k}
  /\ until' = [until EXCEPT ![k] = NotEvicted]
  /\ handles' = Orphaned(k)
  /\ UNCHANGED <<events, heap, now>>

-----------------------------------------------------------------------------
(* Requests                                                                *)

(* The first bucket with a healthy endpoint, or else the first bucket.     *)
IsBest(b) ==
  \/ /\ \E k \in active : Home[k] = b
     /\ \A k \in active : Home[k] >= b
  \/ b = 0 /\ active = {}

(* Its healthy endpoints, or its evicted ones if that is all there is.     *)
Candidates ==
  LET members == {k \in Present : IsBest(Home[k])}
  IN  IF members \cap active # {} THEN members \cap active ELSE members

StartRequest(k) ==
  /\ k \in Candidates
  /\ handles' = handles \cup {<<k, TRUE>>}
  /\ UNCHANGED <<active, rejected, until, events, heap, now>>

SendEvict(k, d) ==
  /\ now + d \in Time
  /\ events' = events \cup {<<k, now + d>>}

(* Requests with the same handle are one element of `handles`; it may stay *)
(* when one of them ends.  Whether an orphaned info is already marked is   *)
(* not recorded, so its requests may or may not send.                      *)
FinishRequest(h) ==
  /\ h \in handles
  /\ handles' \in {handles, handles \ {h}}
  /\ \/ UNCHANGED <<until, events>>
     \/ \E d \in Span :
          /\ h[2] => until[h[1]] = NotEvicted
          /\ SendEvict(h[1], d)
          /\ until' = IF h[2] THEN [until EXCEPT ![h[1]] = now + d] ELSE until
  /\ UNCHANGED <<active, rejected, heap, now>>

-----------------------------------------------------------------------------
(* The worker                                                              *)

\* mutant: the timer is set and the endpoint stays
ReceiveEvictTimerOnly(m) ==
  /\ m \in events
  /\ events' = events \ {m}
  /\ heap' = IF m[1] \in Present THEN heap \cup {m} ELSE heap
  /\ UNCHANGED <<active, rejected, until, handles, now>>

\* mutant: the endpoint is moved and no timer set
ReceiveEvictNoTimer(m) ==
  /\ m \in events
  /\ events' = events \ {m}
  /\ active' = active \ {m[1]}
  /\ rejected' = rejected \cup ({m[1]} \cap Present)
  /\ UNCHANGED <<until, handles, heap, now>>

(* An event for an endpoint that is gone is dropped.                       *)
ReceiveEvict(m) ==
  /\ m \in events
  /\ events' = events \ {m}
  /\ \/ /\ m[1] \notin Present
        /\ UNCHANGED <<active, rejected, heap>>
     \/ /\ m[1] \in Present
        /\ heap' = heap \cup {m}
        /\ active' = active \ {m[1]}
        /\ rejected' = rejected \cup {m[1]}
  /\ UNCHANGED <<until, handles, now>>

(* BinaryHeap is a max-heap: the worker waits for the latest timer.        *)
Top(m) == m \in heap /\ \A n \in heap : n[2] <= m[2]

Readmit(k) ==
  /\ rejected' = rejected \ {k}
  /\ active' = active \cup ({k} \cap rejected)

\* mutant: the earliest timer is taken, whichever eviction set it
UnevictEarliest(m) ==
  /\ m \in heap /\ (\A n \in heap : m[2] <= n[2]) /\ m[2] <= now
  /\ heap' = heap \ {m}
  /\ Readmit(m[1])
  /\ until' = IF m[1] \in rejected THEN [until EXCEPT ![m[1]] = NotEvicted] ELSE until
  /\ UNCHANGED <<handles, events, now>>

Unevict(m) ==
  /\ Top(m) /\ m[2] <= now
  /\ heap' = heap \ {m}
  /\ Readmit(m[1])
  /\ until' = IF m[1] \in rejected THEN [until EXCEPT ![m[1]] = NotEvicted] ELSE until
  /\ UNCHANGED <<handles, events, now>>

(* Timers are long: the worker catches up before the clock moves on.       *)
Tick ==
  /\ now < MaxTime
  /\ events = {} /\ ~\E m \in heap : Top(m) /\ m[2] <= now
  /\ now' = now + 1
  /\ UNCHANGED <<active, rejected, until, handles, events, heap>>

EndpointNext ==
  \/ \E k \in Key : Add(k) \/ Delete(k) \/ StartRequest(k)
  \/ \E h \in handles : FinishRequest(h)
  \/ \E m \in events : ReceiveEvict(m)
  \/ \E m \in heap : Unevict(m)
  \/ Tick

(* The worker's task is polled and time passes.                            *)
EndpointFairness ==
  /\ WF_endpointVars(\E m \in events : ReceiveEvict(m))
  /\ WF_endpointVars(\E m \in heap : Unevict(m))
  /\ WF_endpointVars(Tick)

EndpointSpec == EndpointInit /\ [][EndpointNext]_endpointVars
EndpointFairSpec == EndpointSpec /\ EndpointFairness

-----------------------------------------------------------------------------
(* Properties                                                              *)

(* An evicted endpoint can be evicted again later: whenever its mark is    *)
(* set, an event or a timer that will lead to its reset is pending.        *)
StaysEvictable ==
  \A k \in Present : until[k] # NotEvicted => <<k, until[k]>> \in events \cup heap

(* A request goes to an evicted endpoint only while the eviction is still  *)
(* on its way to the worker, or if no endpoint is healthy.                 *)
EvictedAvoided ==
  \A k \in Candidates :
    until[k] # NotEvicted => <<k, until[k]>> \in events \/ active = {}

(* The marks, the two maps, the events under way and the timers agree.     *)
EvictionsConsistent ==
  /\ EndpointTypeOK
  /\ StaysEvictable
  /\ EvictedAvoided

(* An endpoint comes back no earlier than the time of its own eviction,    *)
(* even if a request of its predecessor had it evicted for less; unless    *)
(* the event with that time is still on its way (and will evict it again). *)
HeldUntilDue ==
  [][\A k \in rejected :
       (\E m \in heap : Unevict(m)) /\ k \in active' /\ until[k] # NotEvicted
         => until[k] <= now \/ <<k, until[k]>> \in events]_endpointVars

(* Once no more endpoints fail, every endpoint is healthy again.           *)
AllReturn ==
  <>[](events = {}) => <>[](rejected = {} /\ \A k \in Present : until[k] = NotEvicted)

(* "evicted_until is the time": an endpoint is out no longer than that.    *)
BackOnTime == \A k \in rejected : until[k] # NotEvicted => now <= until[k]
=============================================================================
