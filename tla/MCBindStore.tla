---------------------------- MODULE MCBindStore -----------------------------
(* The two stores that the control plane fills, for model checking: that   *)
(* of binds, listeners, routes and policies (ConfigDelivery) and that of   *)
(* workloads and services (DiscoveryStore), and the endpoints of one       *)
(* service (EndpointSet).  They share no state here, and `part` picks the  *)
(* one that moves in a behaviour.                                          *)
EXTENDS ConfigDelivery, DiscoveryStore, EndpointSet

CONSTANTS b1, b2, l1, l2, r1, r2, p1, t1, t2, k1

VARIABLE part

Res(name, kind, key, parent) ==
  [name |-> name, kind |-> kind, key |-> key, parent |-> parent, converts |-> TRUE]

Rejected(m) == [m EXCEPT !.converts = FALSE]

BindPush     == {Res("bind/1", "Bind", b1, None), Res("bind/2", "Bind", b2, None)}
ListenerPush == {Res("lis/1", "Listener", l1, b1), Res("lis/2", "Listener", l2, b2)}
RoutePush    == {Res("route/1", "Route", r1, l1), Res("route/2", "Route", r2, l2),
                 Res("tcp/1", "TcpRoute", r1, l1)}
PolicyPush   == {Res("pol/1", "Policy", p1, t1), Res("pol/1", "Policy", p1, t2),
                 Res("be/1", "Backend", k1, None)}
MovePush     == {Res("lis/1", "Listener", l1, b2), Res("route/1", "Route", r1, l2)}

RejectedPush == {Rejected(Res("route/1", "Route", r1, l1)),
                 Rejected(Res("pol/1", "Policy", p1, t1))}

TreePush == BindPush \cup ListenerPush \cup RoutePush \cup RejectedPush
FullPush == (TreePush \ {Res("route/2", "Route", r2, l2)})
              \cup MovePush \cup PolicyPush

Names == {"bind/1", "bind/2", "lis/1", "lis/2", "route/1", "route/2", "tcp/1",
          "pol/1", "be/1"}

stores == <<part, allVars, discoveryVars, endpointVars>>

(* Where time stands still, and no fairness speaks of it. *)
EndpointsAtRest ==
  /\ active = {} /\ rejected = {} /\ until = [k \in Key |-> NotEvicted]
  /\ handles = {} /\ events = {} /\ heap = {} /\ now = MaxTime

StoresInit ==
  /\ part \in {"binds", "discovery", "endpoints"}
  /\ DeliveryInit /\ DiscoveryInit
  /\ IF part = "endpoints" THEN EndpointInit ELSE EndpointsAtRest

StoresNext ==
  /\ UNCHANGED part
  /\ \/ part = "binds" /\ DeliveryNext /\ UNCHANGED <<discoveryVars, endpointVars>>
     \/ part = "discovery" /\ DiscoveryNext /\ UNCHANGED <<allVars, endpointVars>>
     \/ part = "endpoints" /\ EndpointNext /\ UNCHANGED <<allVars, discoveryVars>>

StoresSpec == StoresInit /\ [][StoresNext]_stores /\ EndpointFairness

InOrderInit ==
  part = "binds" /\ OneNameEach /\ DeliveryInit /\ DiscoveryInit /\ EndpointsAtRest

InOrderSpec ==
  InOrderInit /\ [][OrderlyNext /\ UNCHANGED <<part, discoveryVars, endpointVars>>]_stores
=============================================================================
