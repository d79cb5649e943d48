--------------------------- MODULE ConfigDelivery ---------------------------
(***************************************************************************)
(* The configuration store together with the control plane that feeds it. *)
(* `intent` is what the control plane knows to have been accepted (ACKed); *)
(* it is the reference the served configuration is compared with.          *)
(***************************************************************************)
EXTENDS BindStore

VARIABLE intent   \* resource name -> the last accepted update, or None

allVars == <<vars, intent>>

DeliveryInit == Init /\ intent = [n \in Name |-> None]

(* A rejected update is NACKed: the control plane knows it has no effect.  *)
DeliverUpdate(m) ==
  /\ Update(m)
  /\ intent' = IF m.converts THEN [intent EXCEPT ![m.name] = m] ELSE intent

DeliverRemove(n) ==
  /\ Remove(n)
  /\ intent' = [intent EXCEPT ![n] = None]

DeliveryNext ==
  \/ \E m \in Push : DeliverUpdate(m)
  \/ \E n \in Name : DeliverRemove(n)

(* Any order of updates and removals.                                      *)
DeliverySpec == DeliveryInit /\ [][DeliveryNext]_allVars

-----------------------------------------------------------------------------
(* The tree that traffic can reach.                                        *)

Entry(kind, key, parent) == [kind |-> kind, key |-> key, parent |-> parent]

LiveConfig ==
  {Entry("Bind", b, None) : b \in {c \in BindKey : binds[c] # None}}
  \cup (UNION {{Entry("Listener", l, b) : l \in {i \in ListenerKey : HasListener(b, i)}} :
                 b \in BindKey})
  \cup (UNION {{Entry(k, r, l) : r \in {i \in RouteKey :
                   \E b \in BindKey : HasRoute(b, l, k, i)}} :
                 k \in RouteKind, l \in ListenerKey})

Served == INSTANCE ServedConfig WITH served <- LiveConfig

(* The store serves exactly the accepted tree, at every moment.            *)
ServesIntent == Served!Spec

-----------------------------------------------------------------------------
(* A control plane that builds and dismantles the tree in order: children  *)
(* may arrive before their parents, but a resource is withdrawn only when  *)
(* it is live and has no child left, and a listener is not pushed again    *)
(* while the store would forget routes it holds: TCP routes of a live      *)
(* listener, or any route a staged listener has picked up.  A resource has *)
(* one name, a name one resource, and neither moves to another parent.     *)

OneNameEach ==
  \A m, n \in Push : /\ (m.name = n.name) <=> (m.kind = n.kind /\ m.key = n.key)
                     /\ m.name = n.name => m.parent = n.parent

IsLive(m) ==
  \/ m.kind \in {"Policy", "Backend"}
  \/ Entry(m.kind, m.key, m.parent) \in LiveConfig

HasChild(m) ==
  \E c \in Served!Accepted(intent) :
    \/ m.kind = "Bind" /\ c.kind = "Listener" /\ c.parent = m.key
    \/ m.kind = "Listener" /\ c.kind \in RouteKind /\ c.parent = m.key

OrderlyUpdate(m) ==
  /\ m.kind = "Listener" =>
       /\ HasListener(m.parent, m.key)
            => binds[m.parent][m.key]["TcpRoute"] = {}
       /\ stagedListeners[m.parent][m.key] \in {None, NoRoutes}
  /\ DeliverUpdate(m)

OrderlyRemove(n) ==
  /\ intent[n] # None => IsLive(intent[n]) /\ ~HasChild(intent[n])
  /\ DeliverRemove(n)

OrderlyNext ==
  \/ \E m \in Push : OrderlyUpdate(m)
  \/ \E n \in Name : OrderlyRemove(n)

OrderlySpec == OneNameEach /\ DeliveryInit /\ [][OrderlyNext]_allVars

-----------------------------------------------------------------------------
(* Claims of the repository that the code does not keep.                   *)

(* A listener update keeps the routes of the listener ("If this is a       *)
(* listener update, copy things over"): no step that accepts a listener    *)
(* takes a route out of the served tree.                                   *)
ListenerUpdateKeepsRoutes ==
  [][\A m \in Push :
       m.kind = "Listener" /\ intent[m.name] = m /\ DeliverUpdate(m)
         => \A e \in LiveConfig : e.kind \in RouteKind => e \in LiveConfig']_allVars

(* A resource the control plane has removed is gone: nothing is served     *)
(* that is not accepted.                                                   *)
NothingOutlivesRemoval ==
  \A e \in LiveConfig : \E m \in Served!Accepted(intent) :
    m.kind = e.kind /\ m.key = e.key
=============================================================================
