---------------------------- MODULE ServedConfig ----------------------------
(***************************************************************************)
(* What the configuration store promises to a control plane that sends one *)
(* resource at a time, each pointing up to its parent: whatever the order  *)
(* of arrival, the proxy serves exactly the accepted resources all of      *)
(* whose ancestors have been accepted too.  Nothing is lost while it waits *)
(* for its parent and nothing outlives its removal.                        *)
(***************************************************************************)
CONSTANTS Name, Push, None

VARIABLES
  intent,   \* resource name -> the last accepted update, or None
  served    \* the resources traffic can reach, as [kind, key, parent]

vars == <<intent, served>>

RouteKinds == {"Route", "TcpRoute"}

Accepted(i) == {i[n] : n \in Name} \ {None}

HasBind(i, b) == \E m \in Accepted(i) : m.kind = "Bind" /\ m.key = b

HasParents(i, m) ==
  \/ m.kind = "Bind"
  \/ m.kind = "Listener" /\ HasBind(i, m.parent)
  \/ /\ m.kind \in RouteKinds
     /\ \E l \in Accepted(i) : /\ l.kind = "Listener"
                               /\ l.key = m.parent
                               /\ HasBind(i, l.parent)

Serving(i) == {[kind |-> m.kind, key |-> m.key, parent |-> m.parent] :
                 m \in {a \in Accepted(i) : HasParents(i, a)}}

Init ==
  /\ intent = [n \in Name |-> None]
  /\ served = {}

Accept(m) ==
  /\ m.converts
  /\ intent' = [intent EXCEPT ![m.name] = m]
  /\ served' = Serving(intent')

Withdraw(n) ==
  /\ intent' = [intent EXCEPT ![n] = None]
  /\ served' = Serving(intent')

Next ==
  \/ \E m \in Push : Accept(m)
  \/ \E n \in Name : Withdraw(n)

Spec == Init /\ [][Next]_vars
=============================================================================
