----------------------------- MODULE BindStore ------------------------------
(***************************************************************************)
(* The configuration store of the proxy (agentgateway/src/store/binds.rs): *)
(* the tree bind -> listener -> route, the policies with their index by    *)
(* target, the backends, and the handler that applies delta-xDS updates.   *)
(*                                                                         *)
(* Resources point UP to their parent, so a child may arrive first.  It is *)
(* then staged: a listener under the key of the bind it waits for, a route *)
(* under the key of the listener it waits for.  Every operation runs under *)
(* the write lock of StoreUpdater, so it is one atomic step here.          *)
(*                                                                         *)
(* HTTP and TCP routes are handled by twin functions in the code; here one *)
(* operator takes the kind of route as a parameter.  The contents of a     *)
(* resource are abstracted to its key, its parent and whether it converts. *)
(***************************************************************************)
CONSTANTS
  BindKey, ListenerKey, RouteKey, PolicyKey, BackendKey,
  Target,     \* what a policy can be attached to (PolicyTarget)
  Name,       \* the names of xDS resources
  Push,       \* the updates the control plane may send
  None        \* the absent value (Option::None, a missing map entry)

RouteKind == {"Route", "TcpRoute"}

Kind == RouteKind \cup {"Bind", "Listener", "Policy", "Backend"}

KeyOf(kind) ==
  CASE kind = "Bind"     -> BindKey
    [] kind = "Listener" -> ListenerKey
    [] kind = "Policy"   -> PolicyKey
    [] kind = "Backend"  -> BackendKey
    [] OTHER             -> RouteKey

\* The bind of a listener, the listener of a route, the target of a policy.
ParentOf(kind) ==
  CASE kind = "Listener"  -> BindKey
    [] kind \in RouteKind -> ListenerKey
    [] kind = "Policy"    -> Target
    [] OTHER              -> {None}

(***************************************************************************)
(* A pushed resource names its kind, its key and its parent; it "converts" *)
(* unless try_from rejects it.                                             *)
(***************************************************************************)
ASSUME PushAssumption ==
  \A m \in Push : /\ m.name \in Name
                  /\ m.kind \in Kind
                  /\ m.key \in KeyOf(m.kind)
                  /\ m.parent \in ParentOf(m.kind)
                  /\ m.converts \in BOOLEAN

VARIABLES
  binds,            \* bind key -> its listeners, or None
  stagedListeners,  \* bind key -> the listeners that wait for that bind
  stagedRoutes,     \* kind -> listener key -> the routes that wait for it
  policiesByKey,    \* policy key -> its target, or None
  policiesByTarget, \* target -> the keys of the policies attached to it
  backends,         \* the backend keys present
  resources,        \* resource name -> its kind and key, or None
  published         \* bind key -> what a subscriber of `tx` has been told

treeVars   == <<binds, stagedListeners, stagedRoutes, published>>
policyVars == <<policiesByKey, policiesByTarget>>
vars       == <<treeVars, policyVars, backends, resources>>

Listener  == [RouteKind -> SUBSET RouteKey]
Listeners == [ListenerKey -> Listener \cup {None}]
Resource  == UNION {[kind : {k}, key : KeyOf(k)] : k \in Kind}

ASSUME NoneAssumption ==
  None \notin Target \cup Listener \cup Listeners \cup Resource \cup Push

NoRoutes    == [k \in RouteKind |-> {}]
NoListeners == [l \in ListenerKey |-> None]

TypeOK ==
  /\ binds \in [BindKey -> Listeners \cup {None}]
  /\ stagedListeners \in [BindKey -> Listeners]
  /\ stagedRoutes \in [RouteKind -> [ListenerKey -> SUBSET RouteKey]]
  /\ policiesByKey \in [PolicyKey -> Target \cup {None}]
  /\ policiesByTarget \in [Target -> SUBSET PolicyKey]
  /\ backends \in SUBSET BackendKey
  /\ resources \in [Name -> Resource \cup {None}]
  /\ published \in [BindKey -> Listeners \cup {None}]

Init ==
  /\ binds = [b \in BindKey |-> None]
  /\ stagedListeners = [b \in BindKey |-> NoListeners]
  /\ stagedRoutes = [k \in RouteKind |-> [l \in ListenerKey |-> {}]]
  /\ policiesByKey = [p \in PolicyKey |-> None]
  /\ policiesByTarget = [t \in Target |-> {}]
  /\ backends = {}
  /\ resources = [n \in Name |-> None]
  /\ published = [b \in BindKey |-> None]

-----------------------------------------------------------------------------
(* Lookups: `find` and `find_map` over a HashMap return any match.         *)

HasListener(b, l) == binds[b] # None /\ binds[b][l] # None

HasRoute(b, l, k, r) == HasListener(b, l) /\ r \in binds[b][l][k]

LiveListener(l) == \E b \in BindKey : HasListener(b, l)

LiveRoute(k, r) == \E b \in BindKey, l \in ListenerKey : HasRoute(b, l, k, r)

(* A listener picks up the routes staged for it; staged is the value of    *)
(* stagedRoutes at that point of the operation.                            *)
WithStaged(lis, l, staged) == [k \in RouteKind |-> lis[k] \cup staged[k][l]]

Drained(staged, ls) ==
  [k \in RouteKind |->
     [l \in ListenerKey |-> IF l \in ls THEN {} ELSE staged[k][l]]]

-----------------------------------------------------------------------------
(* Store operations                                                        *)

(* Staged listeners of b, with the routes staged for them, override the    *)
(* listeners the bind comes with; every insertion is published.            *)
InsertBind(b, ls, staged) ==
  LET waiting == {l \in ListenerKey : stagedListeners[b][l] # None}
      merged  == [l \in ListenerKey |->
                    IF l \in waiting
                    THEN WithStaged(stagedListeners[b][l], l, staged)
                    ELSE ls[l]]
  IN  /\ binds' = [binds EXCEPT ![b] = merged]
      /\ published' = [published EXCEPT ![b] = merged]
      /\ stagedListeners' = [stagedListeners EXCEPT ![b] = NoListeners]
      /\ stagedRoutes' = Drained(staged, waiting)

RemoveBindSilently(b) ==  \* mutant: no Event::Remove
  /\ binds' = [binds EXCEPT ![b] = None]
  /\ UNCHANGED <<published, stagedListeners, stagedRoutes>>

RemoveBind(b) ==
  /\ binds' = [binds EXCEPT ![b] = None]
  /\ published' = IF binds[b] # None THEN [published EXCEPT ![b] = None]
                                     ELSE published
  /\ UNCHANGED <<stagedListeners, stagedRoutes>>

(* An update keeps the HTTP routes of the listener it replaces.            *)
KeptRoutes(old) ==
  IF old = None THEN NoRoutes ELSE [NoRoutes EXCEPT !["Route"] = old["Route"]]

\* mutant: a listener that finds its bind leaves its routes staged
InsertListenerLeavesRoutes(l, b) ==
  IF binds[b] # None
  THEN InsertBind(b, [binds[b] EXCEPT ![l] = KeptRoutes(@)], stagedRoutes)
  ELSE /\ stagedListeners' = [stagedListeners EXCEPT ![b][l] = NoRoutes]
       /\ UNCHANGED <<binds, stagedRoutes, published>>

InsertListener(l, b) ==
  IF binds[b] # None
  THEN LET lis == WithStaged(KeptRoutes(binds[b][l]), l, stagedRoutes)
       IN  InsertBind(b, [binds[b] EXCEPT ![l] = lis],
                      Drained(stagedRoutes, {l}))
  ELSE /\ stagedListeners' = [stagedListeners EXCEPT
                                ![b][l] = WithStaged(NoRoutes, l, stagedRoutes)]
       /\ stagedRoutes' = Drained(stagedRoutes, {l})
       /\ UNCHANGED <<binds, published>>

RemoveListener(l) ==
  \/ \E b \in BindKey :
       /\ HasListener(b, l)
       /\ InsertBind(b, [binds[b] EXCEPT ![l] = None], stagedRoutes)
  \/ ~LiveListener(l) /\ UNCHANGED treeVars

InsertRoute(k, r, l) ==
  \/ \E b \in BindKey :
       /\ HasListener(b, l)
       /\ InsertBind(b, [binds[b] EXCEPT ![l][k] = @ \cup {r}], stagedRoutes)
  \/ /\ ~LiveListener(l)
     /\ stagedRoutes' = [stagedRoutes EXCEPT ![k][l] = @ \cup {r}]
     /\ UNCHANGED <<binds, stagedListeners, published>>

RemoveRoute(k, r) ==
  \/ \E b \in BindKey, l \in ListenerKey :
       /\ HasRoute(b, l, k, r)
       /\ InsertBind(b, [binds[b] EXCEPT ![l][k] = @ \ {r}], stagedRoutes)
  \/ ~LiveRoute(k, r) /\ UNCHANGED treeVars

InsertPolicy(p, t) ==
  LET old     == policiesByKey[p]
      dropped == IF old = None THEN policiesByTarget
                 ELSE [policiesByTarget EXCEPT ![old] = @ \ {p}]
  IN  /\ policiesByKey' = [policiesByKey EXCEPT ![p] = t]
      /\ policiesByTarget' = [dropped EXCEPT ![t] = @ \cup {p}]

RemovePolicy(p) ==
  /\ policiesByKey' = [policiesByKey EXCEPT ![p] = None]
  /\ policiesByTarget' = IF policiesByKey[p] = None THEN policiesByTarget
       ELSE [policiesByTarget EXCEPT ![policiesByKey[p]] = @ \ {p}]

-----------------------------------------------------------------------------
(* The xDS handler                                                         *)

\* mutant: a bind update starts with no listeners
InsertXdsBindFresh(b) == InsertBind(b, NoListeners, stagedRoutes)

(* A bind update takes over the listeners of the bind it replaces.         *)
InsertXdsBind(b) ==
  InsertBind(b, IF binds[b] = None THEN NoListeners ELSE binds[b],
             stagedRoutes)

Insert(m) ==
  \/ /\ m.kind = "Bind"
     /\ InsertXdsBind(m.key)
     /\ UNCHANGED <<policyVars, backends>>
  \/ /\ m.kind = "Listener"
     /\ InsertListener(m.key, m.parent)
     /\ UNCHANGED <<policyVars, backends>>
  \/ /\ m.kind \in RouteKind
     /\ InsertRoute(m.kind, m.key, m.parent)
     /\ UNCHANGED <<policyVars, backends>>
  \/ /\ m.kind = "Policy"
     /\ InsertPolicy(m.key, m.parent)
     /\ UNCHANGED <<treeVars, backends>>
  \/ /\ m.kind = "Backend"
     /\ backends' = backends \cup {m.key}
     /\ UNCHANGED <<treeVars, policyVars>>

(* insert_xds: the name is recorded before the conversion can fail.        *)
Update(m) ==
  /\ resources' = [resources EXCEPT ![m.name] = [kind |-> m.kind, key |-> m.key]]
  /\ \/ m.converts /\ Insert(m)
     \/ ~m.converts /\ UNCHANGED <<treeVars, policyVars, backends>>

Drop(old) ==
  \/ /\ old.kind = "Bind"
     /\ RemoveBind(old.key)
     /\ UNCHANGED <<policyVars, backends>>
  \/ /\ old.kind = "Listener"
     /\ RemoveListener(old.key)
     /\ UNCHANGED <<policyVars, backends>>
  \/ /\ old.kind \in RouteKind
     /\ RemoveRoute(old.kind, old.key)
     /\ UNCHANGED <<policyVars, backends>>
  \/ /\ old.kind = "Policy"
     /\ RemovePolicy(old.key)
     /\ UNCHANGED <<treeVars, backends>>
  \/ /\ old.kind = "Backend"
     /\ backends' = backends \ {old.key}
     /\ UNCHANGED <<treeVars, policyVars>>

(* remove_resource: an unknown name is ignored.                            *)
Remove(n) ==
  /\ resources[n] # None
  /\ resources' = [resources EXCEPT ![n] = None]
  /\ Drop(resources[n])

Next ==
  \/ \E m \in Push : Update(m)
  \/ \E n \in Name : Remove(n)

Spec == Init /\ [][Next]_vars

-----------------------------------------------------------------------------
(* Properties                                                              *)

(* A listener is staged only while its bind is absent: the arrival of the  *)
(* bind takes every listener that was waiting (insert_bind).               *)
StagedListenersAwaitBind ==
  \A b \in BindKey : binds[b] # None => stagedListeners[b] = NoListeners

(* A route is staged only while no bind holds its listener: a route left   *)
(* staged beside a live listener would never be served.                    *)
StagedRoutesAwaitListener ==
  \A k \in RouteKind, l \in ListenerKey :
    LiveListener(l) => stagedRoutes[k][l] = {}

(* The two policy maps agree: a policy is found under its present target   *)
(* and under no other, however often it was re-targeted or removed.        *)
PolicyIndexExact ==
  \A p \in PolicyKey, t \in Target :
    p \in policiesByTarget[t] <=> policiesByKey[p] = t

(* The maps of the store agree: every policy is where its target is, and what *)
(* waits waits for a parent that is not there.                             *)
StoreConsistent ==
  /\ TypeOK
  /\ PolicyIndexExact
  /\ StagedListenersAwaitBind
  /\ StagedRoutesAwaitListener

(* A subscriber of the event channel that has handled every event knows    *)
(* the binds exactly as the store holds them.                              *)
SubscribersInformed == published = binds
=============================================================================
