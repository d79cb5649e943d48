--------------------------- MODULE DiscoveryStore ---------------------------
(***************************************************************************)
(* The discovery store (agentgateway/src/store/discovery.rs): workloads,   *)
(* services, and the endpoints that join them, fed over xDS in any order.  *)
(*                                                                         *)
(* A service is found by its namespaced hostname or by a VIP, a workload   *)
(* by its uid or by a network address.  The endpoint set of a service is   *)
(* here the set of its workloads' uids (see EndpointSet for the rest); it  *)
(* is shared by the successive versions of a service.  Every operation     *)
(* holds the store's write lock.                                           *)
(***************************************************************************)
CONSTANTS
  Uid, Address,   \* workloads and the addresses they may have
  Service, Vip,   \* services and the VIPs they may have
  AllowAll,       \* the services that accept unhealthy endpoints
  WorkloadPush,   \* the workloads that may be pushed
  Absent

Workload == [services : SUBSET Service, addrs : SUBSET Address, healthy : BOOLEAN]

ASSUME DiscoveryAssumption ==
  /\ AllowAll \subseteq Service
  /\ WorkloadPush \subseteq Workload
  /\ Absent \notin Workload /\ Absent \notin Service

VARIABLES
  byUid,      \* uid -> its workload, or Absent
  byAddr,     \* address -> the workloads that have it
  live,       \* by_host: the services that are there
  vips,       \* service -> its VIPs
  endpoints,  \* service -> the workloads in its endpoint set
  byVip,      \* VIP -> the service found there, or Absent
  staged,     \* staged_services: service -> the workloads that wait for it
  detached,   \* history: <<workload, service>> cut off by the service's removal
  contested   \* history: VIPs that two services had at the same time

discoveryVars == <<byUid, byAddr, live, vips, endpoints, byVip, staged, detached, contested>>

DiscoveryTypeOK ==
  /\ byUid \in [Uid -> Workload \cup {Absent}]
  /\ byAddr \in [Address -> SUBSET Uid]
  /\ live \in SUBSET Service
  /\ vips \in [Service -> SUBSET Vip]
  /\ \A s \in Service \ live : vips[s] = {} /\ endpoints[s] = {}
  /\ endpoints \in [Service -> SUBSET Uid]
  /\ byVip \in [Vip -> Service \cup {Absent}]
  /\ staged \in [Service -> SUBSET Uid]
  /\ detached \in SUBSET (Uid \X Service)
  /\ contested \in SUBSET Vip

DiscoveryInit ==
  /\ byUid = [u \in Uid |-> Absent]
  /\ byAddr = [a \in Address |-> {}]
  /\ live = {} /\ vips = [s \in Service |-> {}]
  /\ endpoints = [s \in Service |-> {}]
  /\ byVip = [v \in Vip |-> Absent]
  /\ staged = [s \in Service |-> {}]
  /\ detached = {} /\ contested = {}

\* should_include_endpoint
Includes(s, w) == w.healthy \/ s \in AllowAll

-----------------------------------------------------------------------------
(* Workloads                                                               *)

(* The services a workload is an endpoint of are read from the stored      *)
(* version of it.                                                          *)
Detach(u, sets) ==
  [s \in Service |->
     IF byUid[u] # Absent /\ s \in byUid[u].services THEN sets[s] \ {u} ELSE sets[s]]

\* mutant: the endpoint is staged although the service is there
InsertWorkloadStages(u, w) ==
  /\ byUid' = [byUid EXCEPT ![u] = w]
  /\ byAddr' = [a \in Address |->
                  IF a \in w.addrs THEN byAddr[a] \cup {u} ELSE byAddr[a] \ {u}]
  /\ endpoints' = [s \in Service |->
       Detach(u, endpoints)[s] \cup
         IF s \in w.services /\ s \in live /\ Includes(s, w) THEN {u} ELSE {}]
  /\ staged' = [s \in Service |->
       Detach(u, staged)[s] \cup IF s \in w.services THEN {u} ELSE {}]
  /\ detached' = {p \in detached : p[1] # u}
  /\ UNCHANGED <<live, vips, byVip, contested>>

(* The old version is removed, then the new one attached to its services,  *)
(* or staged where the service has not arrived.  (A workload that cannot   *)
(* be converted is rejected before anything changes.)                      *)
InsertWorkload(u, w) ==
  /\ byUid' = [byUid EXCEPT ![u] = w]
  /\ byAddr' = [a \in Address |->
                  IF a \in w.addrs THEN byAddr[a] \cup {u} ELSE byAddr[a] \ {u}]
  /\ endpoints' = [s \in Service |->
       Detach(u, endpoints)[s] \cup
         IF s \in w.services /\ s \in live /\ Includes(s, w) THEN {u} ELSE {}]
  /\ staged' = [s \in Service |->
       Detach(u, staged)[s] \cup IF s \in w.services /\ s \notin live THEN {u} ELSE {}]
  /\ detached' = {p \in detached : p[1] # u}
  /\ UNCHANGED <<live, vips, byVip, contested>>

RemoveWorkload(u) ==
  /\ byUid[u] # Absent
  /\ byUid' = [byUid EXCEPT ![u] = Absent]
  /\ byAddr' = [a \in Address |-> byAddr[a] \ {u}]
  /\ endpoints' = Detach(u, endpoints)
  /\ staged' = Detach(u, staged)
  /\ detached' = {p \in detached : p[1] # u}
  /\ UNCHANGED <<live, vips, byVip, contested>>

-----------------------------------------------------------------------------
(* Services                                                                *)

Claims(s, vs) == {v \in vs : \E t \in Service \ {s} : v \in vips[t]}

\* mutant: the VIPs of the version it replaces are left in the index
InsertServiceKeepsVips(s, vs) ==
  /\ live' = live \cup {s}
  /\ vips' = [vips EXCEPT ![s] = vs]
  /\ endpoints' = [endpoints EXCEPT ![s] =
                     @ \cup {u \in staged[s] : Includes(s, byUid[u])}]
  /\ staged' = [staged EXCEPT ![s] = {}]
  /\ byVip' = [v \in Vip |-> IF v \in vs THEN s ELSE byVip[v]]
  /\ contested' = contested \cup Claims(s, vs)
  /\ UNCHANGED <<byUid, byAddr, detached>>

(* An update keeps the endpoint set, whatever became of the service's      *)
(* other properties, and takes over a VIP another service has.             *)
InsertService(s, vs) ==
  /\ live' = live \cup {s}
  /\ vips' = [vips EXCEPT ![s] = vs]
  /\ endpoints' = [endpoints EXCEPT ![s] =
                     @ \cup {u \in staged[s] : Includes(s, byUid[u])}]
  /\ staged' = [staged EXCEPT ![s] = {}]
  /\ byVip' = [v \in Vip |-> IF v \in vs THEN s
                             ELSE IF v \in vips[s] THEN Absent ELSE byVip[v]]
  /\ contested' = contested \cup Claims(s, vs)
  /\ UNCHANGED <<byUid, byAddr, detached>>

(* The endpoints go with the service, and so do its VIPs, even one that    *)
(* another service has taken over.                                         *)
RemoveService(s) ==
  /\ s \in live
  /\ live' = live \ {s}
  /\ vips' = [vips EXCEPT ![s] = {}]
  /\ endpoints' = [endpoints EXCEPT ![s] = {}]
  /\ staged' = [staged EXCEPT ![s] = {}]
  /\ byVip' = [v \in Vip |-> IF v \in vips[s] THEN Absent ELSE byVip[v]]
  /\ detached' = detached \cup
       {<<u, s>> : u \in {x \in Uid : byUid[x] # Absent /\ s \in byUid[x].services}}
  /\ UNCHANGED <<byUid, byAddr, contested>>

DiscoveryNext ==
  \/ \E u \in Uid, w \in WorkloadPush : InsertWorkload(u, w)
  \/ \E u \in Uid : RemoveWorkload(u)
  \/ \E s \in Service, vs \in SUBSET Vip : InsertService(s, vs)
  \/ \E s \in Service : RemoveService(s)

DiscoverySpec == DiscoveryInit /\ [][DiscoveryNext]_discoveryVars

-----------------------------------------------------------------------------
(* Properties                                                              *)

(* What is attached to a service, served or waiting, is exactly what the   *)
(* stored workloads ask for, except for those a removal of the service cut *)
(* off: they come back when they are pushed again, not when the service is.*)
Wanted(s) == {u \in Uid : byUid[u] # Absent /\ s \in byUid[u].services
                            /\ <<u, s>> \notin detached}

EndpointsExact ==
  \A s \in Service :
    endpoints[s] = IF s \in live THEN {u \in Wanted(s) : Includes(s, byUid[u])} ELSE {}

(* Endpoints wait only for a service that is not there ("no endpoints for  *)
(* this service should be staged at this point"), and all of them do.      *)
StagedExact ==
  \A s \in Service : staged[s] = IF s \in live THEN {} ELSE Wanted(s)

(* Workloads and services are joined completely, whichever came first.     *)
JoinExact ==
  /\ DiscoveryTypeOK
  /\ EndpointsExact
  /\ StagedExact

(* The index by address has the stored workloads at their addresses.       *)
AddressesExact ==
  \A a \in Address : byAddr[a] = {u \in Uid : byUid[u] # Absent /\ a \in byUid[u].addrs}

(* A VIP leads to a live service that has it; and if no two services ever  *)
(* had it at once, it leads somewhere as soon as a service has it.         *)
VipsExact ==
  \A v \in Vip :
    /\ byVip[v] # Absent => v \in vips[byVip[v]]
    /\ v \notin contested /\ (\E s \in Service : v \in vips[s])
         => byVip[v] # Absent

(* The indexes by address and by VIP lead to what the store holds.         *)
IndexesExact ==
  /\ AddressesExact
  /\ VipsExact
=============================================================================
