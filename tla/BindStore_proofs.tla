-------------------------- MODULE BindStore_proofs --------------------------
(***************************************************************************)
(* Type correctness of the configuration store, the staging discipline,    *)
(* the agreement of the two policy maps, what subscribers know, and the    *)
(* refinement of ServedConfig, for every set of keys and every set of      *)
(* updates a control plane may push.                                       *)
(***************************************************************************)
EXTENDS ConfigDelivery, TLAPS

Staged == [RouteKind -> [ListenerKey -> SUBSET RouteKey]]

LEMMA NoRoutesType == NoRoutes \in Listener
  BY DEF NoRoutes, Listener

LEMMA NoListenersType == NoListeners \in Listeners
  BY DEF NoListeners, Listeners

LEMMA WithStagedType ==
  ASSUME NEW lis \in Listener, NEW l \in ListenerKey, NEW staged \in Staged
  PROVE  WithStaged(lis, l, staged) \in Listener
  BY DEF WithStaged, Listener, Staged

LEMMA DrainedType ==
  ASSUME NEW staged \in Staged, NEW ls
  PROVE  /\ Drained(staged, ls) \in Staged
         /\ \A k \in RouteKind, l \in ListenerKey :
              Drained(staged, ls)[k][l] = IF l \in ls THEN {} ELSE staged[k][l]
  BY DEF Drained, Staged

LEMMA KeptRoutesType ==
  ASSUME NEW old \in Listener \cup {None}
  PROVE  KeptRoutes(old) \in Listener
  BY NoRoutesType DEF KeptRoutes, Listener, RouteKind

(* The part of the type invariant insert_bind touches.                     *)
TreeType ==
  /\ binds \in [BindKey -> Listeners \cup {None}]
  /\ stagedListeners \in [BindKey -> Listeners]
  /\ stagedRoutes \in Staged
  /\ published \in [BindKey -> Listeners \cup {None}]

LEMMA InsertBindType ==
  ASSUME TreeType, NEW b \in BindKey, NEW ls \in Listeners,
         NEW staged \in Staged, InsertBind(b, ls, staged)
  PROVE  TreeType'
<1> DEFINE waiting == {l \in ListenerKey : stagedListeners[b][l] # None}
           merged  == [l \in ListenerKey |->
                         IF l \in waiting
                         THEN WithStaged(stagedListeners[b][l], l, staged)
                         ELSE ls[l]]
<1>1. merged \in Listeners
  <2> SUFFICES ASSUME NEW l \in ListenerKey
               PROVE  merged[l] \in Listener \cup {None}
    BY DEF Listeners
  <2>1. CASE l \in waiting
    <3>1. stagedListeners[b][l] \in Listener
      BY <2>1 DEF TreeType, Listeners
    <3>2. QED  BY <2>1, <3>1, WithStagedType
  <2>2. CASE l \notin waiting
    BY <2>2 DEF Listeners
  <2>3. QED  BY <2>1, <2>2
<1>2. /\ binds' = [binds EXCEPT ![b] = merged]
      /\ published' = [published EXCEPT ![b] = merged]
      /\ stagedListeners' = [stagedListeners EXCEPT ![b] = NoListeners]
      /\ stagedRoutes' = Drained(staged, waiting)
  BY DEF InsertBind
<1> HIDE DEF merged, waiting
<1>3. QED  BY <1>1, <1>2, NoListenersType, DrainedType DEF TreeType

(* What an update or a removal of each kind does to the types.             *)
LEMMA InsertListenerType ==
  ASSUME TreeType, NEW l \in ListenerKey, NEW b \in BindKey, InsertListener(l, b)
  PROVE  TreeType'
<1>1. CASE binds[b] # None
  <2> DEFINE lis == WithStaged(KeptRoutes(binds[b][l]), l, stagedRoutes)
  <2>1. binds[b] \in Listeners
    BY <1>1 DEF TreeType
  <2>2. lis \in Listener
    BY <2>1, KeptRoutesType, WithStagedType DEF TreeType, Listeners
  <2>3. [binds[b] EXCEPT ![l] = lis] \in Listeners
    BY <2>1, <2>2 DEF Listeners
  <2>4. Drained(stagedRoutes, {l}) \in Staged
    BY DrainedType DEF TreeType
  <2>5. InsertBind(b, [binds[b] EXCEPT ![l] = lis], Drained(stagedRoutes, {l}))
    BY <1>1 DEF InsertListener
  <2> HIDE DEF lis
  <2>6. QED  BY <2>3, <2>4, <2>5, InsertBindType
<1>2. CASE binds[b] = None
  <2>1. WithStaged(NoRoutes, l, stagedRoutes) \in Listener
    BY NoRoutesType, WithStagedType DEF TreeType
  <2>2. Drained(stagedRoutes, {l}) \in Staged
    BY DrainedType DEF TreeType
  <2>3. /\ stagedListeners' = [stagedListeners EXCEPT
                 ![b][l] = WithStaged(NoRoutes, l, stagedRoutes)]
        /\ stagedRoutes' = Drained(stagedRoutes, {l})
        /\ UNCHANGED <<binds, published>>
    BY <1>2 DEF InsertListener
  <2>4. stagedListeners' \in [BindKey -> Listeners]
    BY <2>1, <2>3 DEF TreeType, Listeners
  <2>5. QED  BY <2>2, <2>3, <2>4 DEF TreeType
<1>3. QED  BY <1>1, <1>2

LEMMA RemoveListenerType ==
  ASSUME TreeType, NEW l \in ListenerKey, RemoveListener(l)
  PROVE  TreeType'
<1>1. CASE UNCHANGED treeVars
  BY <1>1 DEF treeVars, TreeType
<1>2. ASSUME NEW b \in BindKey, HasListener(b, l),
             InsertBind(b, [binds[b] EXCEPT ![l] = None], stagedRoutes)
      PROVE  TreeType'
  <2>1. [binds[b] EXCEPT ![l] = None] \in Listeners
    BY <1>2 DEF TreeType, HasListener, Listeners
  <2>2. QED  BY <1>2, <2>1, InsertBindType DEF TreeType
<1>3. QED  BY <1>1, <1>2 DEF RemoveListener

LEMMA InsertRouteType ==
  ASSUME TreeType, NEW k \in RouteKind, NEW r \in RouteKey,
         NEW l \in ListenerKey, InsertRoute(k, r, l)
  PROVE  TreeType'
<1>1. ASSUME NEW b \in BindKey, HasListener(b, l),
             InsertBind(b, [binds[b] EXCEPT ![l][k] = @ \cup {r}], stagedRoutes)
      PROVE  TreeType'
  <2>1. binds[b] \in Listeners /\ binds[b][l] \in Listener
    BY <1>1 DEF TreeType, HasListener, Listeners
  <2>2. [binds[b] EXCEPT ![l][k] = @ \cup {r}] \in Listeners
    BY <2>1 DEF Listeners, Listener
  <2>3. QED  BY <1>1, <2>2, InsertBindType DEF TreeType
<1>2. CASE /\ stagedRoutes' = [stagedRoutes EXCEPT ![k][l] = @ \cup {r}]
           /\ UNCHANGED <<binds, stagedListeners, published>>
  BY <1>2 DEF TreeType, Staged
<1>3. QED  BY <1>1, <1>2 DEF InsertRoute

LEMMA RemoveRouteType ==
  ASSUME TreeType, NEW k \in RouteKind, NEW r \in RouteKey, RemoveRoute(k, r)
  PROVE  TreeType'
<1>1. CASE UNCHANGED treeVars
  BY <1>1 DEF treeVars, TreeType
<1>2. ASSUME NEW b \in BindKey, NEW l \in ListenerKey, HasRoute(b, l, k, r),
             InsertBind(b, [binds[b] EXCEPT ![l][k] = @ \ {r}], stagedRoutes)
      PROVE  TreeType'
  <2>1. binds[b] \in Listeners /\ binds[b][l] \in Listener
    BY <1>2 DEF TreeType, HasRoute, HasListener, Listeners
  <2>2. [binds[b] EXCEPT ![l][k] = @ \ {r}] \in Listeners
    BY <2>1 DEF Listeners, Listener
  <2>3. QED  BY <1>2, <2>2, InsertBindType DEF TreeType
<1>3. QED  BY <1>1, <1>2 DEF RemoveRoute

LEMMA RemoveBindType ==
  ASSUME TreeType, NEW b \in BindKey, RemoveBind(b)
  PROVE  TreeType'
  BY DEF TreeType, RemoveBind

PolicyType ==
  /\ policiesByKey \in [PolicyKey -> Target \cup {None}]
  /\ policiesByTarget \in [Target -> SUBSET PolicyKey]

LEMMA InsertPolicyType ==
  ASSUME PolicyType, NEW p \in PolicyKey, NEW t \in Target, InsertPolicy(p, t)
  PROVE  PolicyType'
  BY DEF PolicyType, InsertPolicy

LEMMA RemovePolicyType ==
  ASSUME PolicyType, NEW p \in PolicyKey, RemovePolicy(p)
  PROVE  PolicyType'
  BY DEF PolicyType, RemovePolicy

LEMMA TypeParts == TypeOK <=> /\ TreeType
                              /\ PolicyType
                              /\ backends \in SUBSET BackendKey
                              /\ resources \in [Name -> Resource \cup {None}]
  BY DEF TypeOK, TreeType, PolicyType, Staged

(* The key and the parent of a pushed update have the sets of its kind.    *)
LEMMA PushTyped ==
  ASSUME NEW m \in Push
  PROVE  /\ m.name \in Name
         /\ m.kind = "Bind" => m.key \in BindKey
         /\ m.kind = "Listener" => m.key \in ListenerKey /\ m.parent \in BindKey
         /\ m.kind \in RouteKind => m.key \in RouteKey /\ m.parent \in ListenerKey
         /\ m.kind = "Policy" => m.key \in PolicyKey /\ m.parent \in Target
         /\ m.kind = "Backend" => m.key \in BackendKey
         /\ [kind |-> m.kind, key |-> m.key] \in Resource
  BY PushAssumption DEF KeyOf, ParentOf, Resource, RouteKind, Kind

LEMMA ResourceTyped ==
  ASSUME NEW old \in Resource
  PROVE  /\ old.kind = "Bind" => old.key \in BindKey
         /\ old.kind = "Listener" => old.key \in ListenerKey
         /\ old.kind \in RouteKind => old.key \in RouteKey
         /\ old.kind = "Policy" => old.key \in PolicyKey
         /\ old.kind = "Backend" => old.key \in BackendKey
  BY DEF Resource, KeyOf, RouteKind, Kind

LEMMA InsertKeepsTypes ==
  ASSUME TreeType, PolicyType, backends \in SUBSET BackendKey,
         NEW m \in Push, Insert(m)
  PROVE  TreeType' /\ PolicyType' /\ (backends \in SUBSET BackendKey)'
<1> USE PushTyped DEF treeVars, policyVars
<1>1. CASE m.kind = "Bind" /\ InsertXdsBind(m.key) /\ UNCHANGED <<policyVars, backends>>
  <2> DEFINE ls == IF binds[m.key] = None THEN NoListeners ELSE binds[m.key]
  <2>1. ls \in Listeners /\ stagedRoutes \in Staged
    BY <1>1, NoListenersType DEF TreeType
  <2>2. InsertBind(m.key, ls, stagedRoutes)
    BY <1>1 DEF InsertXdsBind
  <2> HIDE DEF ls
  <2>3. TreeType'
    BY <1>1, <2>1, <2>2, InsertBindType
  <2>4. QED  BY <1>1, <2>3 DEF PolicyType
<1>2. CASE /\ m.kind = "Listener"
           /\ InsertListener(m.key, m.parent)
           /\ UNCHANGED <<policyVars, backends>>
  BY <1>2, InsertListenerType DEF PolicyType
<1>3. CASE /\ m.kind \in RouteKind
           /\ InsertRoute(m.kind, m.key, m.parent)
           /\ UNCHANGED <<policyVars, backends>>
  BY <1>3, InsertRouteType DEF PolicyType
<1>4. CASE /\ m.kind = "Policy"
           /\ InsertPolicy(m.key, m.parent)
           /\ UNCHANGED <<treeVars, backends>>
  BY <1>4, InsertPolicyType DEF TreeType
<1>5. CASE /\ m.kind = "Backend"
           /\ backends' = backends \cup {m.key}
           /\ UNCHANGED <<treeVars, policyVars>>
  BY <1>5 DEF TreeType, PolicyType
<1>6. QED  BY <1>1, <1>2, <1>3, <1>4, <1>5 DEF Insert

LEMMA DropKeepsTypes ==
  ASSUME TreeType, PolicyType, backends \in SUBSET BackendKey,
         NEW old \in Resource, Drop(old)
  PROVE  TreeType' /\ PolicyType' /\ (backends \in SUBSET BackendKey)'
<1> USE ResourceTyped DEF treeVars, policyVars
<1>1. CASE old.kind = "Bind" /\ RemoveBind(old.key) /\ UNCHANGED <<policyVars, backends>>
  BY <1>1, RemoveBindType DEF PolicyType
<1>2. CASE old.kind = "Listener" /\ RemoveListener(old.key) /\ UNCHANGED <<policyVars, backends>>
  BY <1>2, RemoveListenerType DEF PolicyType
<1>3. CASE old.kind \in RouteKind /\ RemoveRoute(old.kind, old.key) /\ UNCHANGED <<policyVars, backends>>
  BY <1>3, RemoveRouteType DEF PolicyType
<1>4. CASE old.kind = "Policy" /\ RemovePolicy(old.key) /\ UNCHANGED <<treeVars, backends>>
  BY <1>4, RemovePolicyType DEF TreeType
<1>5. CASE old.kind = "Backend" /\ backends' = backends \ {old.key} /\ UNCHANGED <<treeVars, policyVars>>
  BY <1>5 DEF TreeType, PolicyType
<1>6. QED  BY <1>1, <1>2, <1>3, <1>4, <1>5 DEF Drop

(* Every variable of the store keeps its type, whatever is pushed.         *)
THEOREM TypeCorrect == Spec => []TypeOK
<1>1. Init => TypeOK
  BY NoListenersType DEF Init, TypeOK
<1>2. TypeOK /\ [Next]_vars => TypeOK'
  <2> SUFFICES ASSUME TypeOK, [Next]_vars
               PROVE  TypeOK'
    OBVIOUS
  <2>1. TreeType /\ PolicyType /\ backends \in SUBSET BackendKey
          /\ resources \in [Name -> Resource \cup {None}]
    BY TypeParts
  <2>2. ASSUME NEW m \in Push, Update(m)
        PROVE  TypeOK'
    <3>1. resources' \in [Name -> Resource \cup {None}]
      BY <2>1, <2>2, PushTyped DEF Update
    <3>2. TreeType' /\ PolicyType' /\ (backends \in SUBSET BackendKey)'
      <4>1. CASE Insert(m)
        BY <2>1, <4>1, InsertKeepsTypes
      <4>2. CASE UNCHANGED <<treeVars, policyVars, backends>>
        BY <2>1, <4>2 DEF treeVars, policyVars, TreeType, PolicyType
      <4>3. QED  BY <2>2, <4>1, <4>2 DEF Update
    <3>3. QED  BY <3>1, <3>2, TypeParts DEF TypeOK, TreeType, PolicyType, Staged
  <2>3. ASSUME NEW n \in Name, Remove(n)
        PROVE  TypeOK'
    <3>1. resources' \in [Name -> Resource \cup {None}]
      BY <2>1, <2>3 DEF Remove
    <3>2. resources[n] \in Resource /\ Drop(resources[n])
      BY <2>1, <2>3 DEF Remove
    <3>3. TreeType' /\ PolicyType' /\ (backends \in SUBSET BackendKey)'
      BY <2>1, <3>2, DropKeepsTypes
    <3>4. QED  BY <3>1, <3>3 DEF TypeOK, TreeType, PolicyType, Staged
  <2>4. CASE UNCHANGED vars
    BY <2>4 DEF TypeOK, vars, treeVars, policyVars
  <2>5. QED  BY <2>2, <2>3, <2>4 DEF Next
<1>3. QED  BY <1>1, <1>2, PTL DEF Spec

-----------------------------------------------------------------------------
(* The staging discipline.                                                 *)

StagingInv ==
  /\ TreeType
  /\ StagedListenersAwaitBind
  /\ StagedRoutesAwaitListener

(* insert_bind keeps the discipline if nothing is staged for the listeners *)
(* of the new bind or of the other binds.                                  *)
LEMMA InsertBindStaging ==
  ASSUME StagingInv, NEW b \in BindKey, NEW ls \in Listeners,
         NEW staged \in Staged, InsertBind(b, ls, staged),
         \A k \in RouteKind, l \in ListenerKey :
           ls[l] # None \/ LiveListener(l) => staged[k][l] = {}
  PROVE  StagingInv'
<1> DEFINE waiting == {l \in ListenerKey : stagedListeners[b][l] # None}
           merged  == [l \in ListenerKey |->
                         IF l \in waiting
                         THEN WithStaged(stagedListeners[b][l], l, staged)
                         ELSE ls[l]]
<1>1. /\ binds' = [binds EXCEPT ![b] = merged]
      /\ stagedListeners' = [stagedListeners EXCEPT ![b] = NoListeners]
      /\ stagedRoutes' = Drained(staged, waiting)
  BY DEF InsertBind
<1>2. TreeType'
  BY InsertBindType DEF StagingInv
<1>3. \A l \in ListenerKey : merged[l] # None => l \in waiting \/ ls[l] # None
  OBVIOUS
<1> HIDE DEF waiting, merged
<1>4. StagedListenersAwaitBind'
  BY <1>1 DEF StagedListenersAwaitBind, StagingInv, TreeType
<1>5. StagedRoutesAwaitListener'
  <2> SUFFICES ASSUME NEW k \in RouteKind, NEW l \in ListenerKey,
                      NEW c \in BindKey, HasListener(c, l)'
               PROVE  stagedRoutes'[k][l] = {}
    BY DEF StagedRoutesAwaitListener, LiveListener
  <2>1. stagedRoutes'[k][l] = IF l \in waiting THEN {} ELSE staged[k][l]
    BY <1>1, DrainedType
  <2>2. CASE c = b
    BY <1>1, <1>3, <2>1, <2>2 DEF HasListener, StagingInv, TreeType
  <2>3. CASE c # b
    <3>1. LiveListener(l)
      BY <1>1, <2>3 DEF HasListener, LiveListener, StagingInv, TreeType
    <3>2. QED  BY <2>1, <3>1
  <2>4. QED  BY <2>2, <2>3
<1>6. QED  BY <1>2, <1>4, <1>5 DEF StagingInv

LEMMA InsertListenerStaging ==
  ASSUME StagingInv, NEW l \in ListenerKey, NEW b \in BindKey,
         InsertListener(l, b)
  PROVE  StagingInv'
<1>1. CASE binds[b] # None
  <2> DEFINE lis    == WithStaged(KeptRoutes(binds[b][l]), l, stagedRoutes)
             ls     == [binds[b] EXCEPT ![l] = lis]
             staged == Drained(stagedRoutes, {l})
  <2>1. binds[b] \in Listeners
    BY <1>1 DEF StagingInv, TreeType
  <2>2. lis \in Listener
    BY <2>1, KeptRoutesType, WithStagedType DEF StagingInv, TreeType, Listeners
  <2>3. InsertBind(b, ls, staged)
    BY <1>1 DEF InsertListener
  <2>4. /\ staged \in Staged
        /\ \A k \in RouteKind, i \in ListenerKey :
             staged[k][i] = IF i \in {l} THEN {} ELSE stagedRoutes[k][i]
    BY DrainedType DEF StagingInv, TreeType
  <2> HIDE DEF lis, staged
  <2>5. ls \in Listeners /\ \A i \in ListenerKey : i # l => ls[i] = binds[b][i]
    BY <2>1, <2>2 DEF Listeners
  <2>6. \A k \in RouteKind, i \in ListenerKey :
          ls[i] # None \/ LiveListener(i) => staged[k][i] = {}
    <3> SUFFICES ASSUME NEW k \in RouteKind, NEW i \in ListenerKey, i # l,
                        ls[i] # None \/ LiveListener(i)
                 PROVE  staged[k][i] = {}
      BY <2>4
    <3>1. LiveListener(i)
      BY <1>1, <2>5 DEF LiveListener, HasListener
    <3>2. QED  BY <2>4, <3>1 DEF StagingInv, StagedRoutesAwaitListener
  <2> HIDE DEF ls
  <2>7. QED  BY <2>3, <2>4, <2>5, <2>6, InsertBindStaging
<1>2. CASE binds[b] = None
  <2>1. /\ stagedListeners' = [stagedListeners EXCEPT
                 ![b][l] = WithStaged(NoRoutes, l, stagedRoutes)]
        /\ stagedRoutes' = Drained(stagedRoutes, {l})
        /\ UNCHANGED <<binds, published>>
    BY <1>2 DEF InsertListener
  <2>2. TreeType'
    BY InsertListenerType DEF StagingInv
  <2>3. StagedListenersAwaitBind'
    BY <1>2, <2>1 DEF StagingInv, TreeType, StagedListenersAwaitBind
  <2>4. StagedRoutesAwaitListener'
    BY <2>1, DrainedType
       DEF StagingInv, TreeType, StagedRoutesAwaitListener, LiveListener, HasListener
  <2>5. QED  BY <2>2, <2>3, <2>4 DEF StagingInv
<1>3. QED  BY <1>1, <1>2

(* The other operations insert a bind whose listeners were already live.   *)
LEMMA ReinsertStaging ==
  ASSUME StagingInv, NEW b \in BindKey, binds[b] # None, NEW ls \in Listeners,
         InsertBind(b, ls, stagedRoutes),
         \A l \in ListenerKey : ls[l] # None => binds[b][l] # None
  PROVE  StagingInv'
<1>1. stagedRoutes \in Staged
  BY DEF StagingInv, TreeType
<1>2. \A k \in RouteKind, l \in ListenerKey :
        ls[l] # None \/ LiveListener(l) => stagedRoutes[k][l] = {}
  BY DEF StagingInv, StagedRoutesAwaitListener, LiveListener, HasListener
<1>3. QED  BY <1>1, <1>2, InsertBindStaging

LEMMA RemoveListenerStaging ==
  ASSUME StagingInv, NEW l \in ListenerKey, RemoveListener(l)
  PROVE  StagingInv'
<1>1. CASE UNCHANGED treeVars
  BY <1>1 DEF treeVars, StagingInv, TreeType, StagedListenersAwaitBind,
              StagedRoutesAwaitListener, LiveListener, HasListener
<1>2. ASSUME NEW b \in BindKey, HasListener(b, l),
             InsertBind(b, [binds[b] EXCEPT ![l] = None], stagedRoutes)
      PROVE  StagingInv'
  <2>1. binds[b] \in Listeners /\ binds[b] # None
    BY <1>2 DEF StagingInv, TreeType, HasListener
  <2>2. /\ [binds[b] EXCEPT ![l] = None] \in Listeners
        /\ \A i \in ListenerKey :
             [binds[b] EXCEPT ![l] = None][i] # None => binds[b][i] # None
    BY <2>1 DEF Listeners
  <2>3. QED  BY <1>2, <2>1, <2>2, ReinsertStaging
<1>3. QED  BY <1>1, <1>2 DEF RemoveListener

LEMMA InsertRouteStaging ==
  ASSUME StagingInv, NEW k \in RouteKind, NEW r \in RouteKey,
         NEW l \in ListenerKey, InsertRoute(k, r, l)
  PROVE  StagingInv'
<1>1. ASSUME NEW b \in BindKey, HasListener(b, l),
             InsertBind(b, [binds[b] EXCEPT ![l][k] = @ \cup {r}], stagedRoutes)
      PROVE  StagingInv'
  <2>1. /\ binds[b] \in Listeners /\ binds[b] # None
        /\ binds[b][l] \in Listener /\ binds[b][l] # None
    BY <1>1 DEF StagingInv, TreeType, HasListener, Listeners
  <2> DEFINE ls == [binds[b] EXCEPT ![l][k] = @ \cup {r}]
  <2>2. ls \in Listeners
    BY <2>1 DEF Listeners, Listener
  <2>3. \A i \in ListenerKey : ls[i] # None => binds[b][i] # None
    BY <2>1 DEF Listeners
  <2>4. InsertBind(b, ls, stagedRoutes)
    BY <1>1
  <2> HIDE DEF ls
  <2>5. QED  BY <2>1, <2>2, <2>3, <2>4, ReinsertStaging
<1>2. CASE /\ ~LiveListener(l)
           /\ stagedRoutes' = [stagedRoutes EXCEPT ![k][l] = @ \cup {r}]
           /\ UNCHANGED <<binds, stagedListeners, published>>
  <2>1. TreeType'
    BY <1>2 DEF StagingInv, TreeType, Staged
  <2>2. StagedListenersAwaitBind'
    BY <1>2 DEF StagingInv, StagedListenersAwaitBind
  <2>3. StagedRoutesAwaitListener'
    BY <1>2 DEF StagingInv, TreeType, Staged, StagedRoutesAwaitListener,
                LiveListener, HasListener
  <2>4. QED  BY <2>1, <2>2, <2>3 DEF StagingInv
<1>3. QED  BY <1>1, <1>2 DEF InsertRoute

LEMMA RemoveRouteStaging ==
  ASSUME StagingInv, NEW k \in RouteKind, NEW r \in RouteKey, RemoveRoute(k, r)
  PROVE  StagingInv'
<1>1. CASE UNCHANGED treeVars
  BY <1>1 DEF treeVars, StagingInv, TreeType, StagedListenersAwaitBind,
              StagedRoutesAwaitListener, LiveListener, HasListener
<1>2. ASSUME NEW b \in BindKey, NEW l \in ListenerKey, HasRoute(b, l, k, r),
             InsertBind(b, [binds[b] EXCEPT ![l][k] = @ \ {r}], stagedRoutes)
      PROVE  StagingInv'
  <2>1. /\ binds[b] \in Listeners /\ binds[b] # None
        /\ binds[b][l] \in Listener /\ binds[b][l] # None
    BY <1>2 DEF StagingInv, TreeType, HasRoute, HasListener, Listeners
  <2> DEFINE ls == [binds[b] EXCEPT ![l][k] = @ \ {r}]
  <2>2. ls \in Listeners
    BY <2>1 DEF Listeners, Listener
  <2>3. \A i \in ListenerKey : ls[i] # None => binds[b][i] # None
    BY <2>1 DEF Listeners
  <2>4. InsertBind(b, ls, stagedRoutes)
    BY <1>2
  <2> HIDE DEF ls
  <2>5. QED  BY <2>1, <2>2, <2>3, <2>4, ReinsertStaging
<1>3. QED  BY <1>1, <1>2 DEF RemoveRoute

LEMMA RemoveBindStaging ==
  ASSUME StagingInv, NEW b \in BindKey, RemoveBind(b)
  PROVE  StagingInv'
<1>1. TreeType'
  BY RemoveBindType DEF StagingInv
<1>2. StagedListenersAwaitBind' /\ StagedRoutesAwaitListener'
  BY DEF RemoveBind, StagingInv, TreeType, StagedListenersAwaitBind,
         StagedRoutesAwaitListener, LiveListener, HasListener
<1>3. QED  BY <1>1, <1>2 DEF StagingInv

LEMMA InsertXdsBindStaging ==
  ASSUME StagingInv, NEW b \in BindKey, InsertXdsBind(b)
  PROVE  StagingInv'
<1>1. CASE binds[b] # None
  BY <1>1, ReinsertStaging DEF InsertXdsBind, StagingInv, TreeType
<1>2. CASE binds[b] = None
  <2>1. InsertBind(b, NoListeners, stagedRoutes) /\ stagedRoutes \in Staged
    BY <1>2 DEF InsertXdsBind, StagingInv, TreeType
  <2>2. \A k \in RouteKind, l \in ListenerKey :
          NoListeners[l] # None \/ LiveListener(l) => stagedRoutes[k][l] = {}
    BY DEF NoListeners, StagingInv, StagedRoutesAwaitListener
  <2>3. QED  BY <2>1, <2>2, NoListenersType, InsertBindStaging
<1>3. QED  BY <1>1, <1>2

LEMMA StagingInvariant == Spec => []StagingInv
<1>1. Init => StagingInv
  <2> SUFFICES ASSUME Init PROVE StagingInv
    OBVIOUS
  <2>1. TreeType
    BY NoListenersType DEF Init, TreeType, Staged
  <2>2. QED
    BY <2>1 DEF Init, StagingInv, StagedListenersAwaitBind,
                StagedRoutesAwaitListener
<1>2. TypeOK /\ StagingInv /\ [Next]_vars => StagingInv'
  <2> SUFFICES ASSUME TypeOK, StagingInv, [Next]_vars
               PROVE  StagingInv'
    OBVIOUS
  <2>1. CASE UNCHANGED treeVars
    BY <2>1 DEF treeVars, StagingInv, TreeType, StagedListenersAwaitBind,
                StagedRoutesAwaitListener, LiveListener, HasListener
  <2>2. ASSUME NEW m \in Push, Insert(m)
        PROVE  StagingInv'
    BY <2>1, <2>2, PushTyped, InsertXdsBindStaging, InsertListenerStaging,
       InsertRouteStaging DEF Insert
  <2>3. ASSUME NEW old \in Resource, Drop(old)
        PROVE  StagingInv'
    BY <2>1, <2>3, ResourceTyped, RemoveBindStaging, RemoveListenerStaging,
       RemoveRouteStaging DEF Drop
  <2>4. ASSUME NEW m \in Push, Update(m)
        PROVE  StagingInv'
    BY <2>1, <2>2, <2>4 DEF Update
  <2>5. ASSUME NEW n \in Name, Remove(n)
        PROVE  StagingInv'
    <3>1. resources[n] \in Resource /\ Drop(resources[n])
      BY <2>5 DEF Remove, TypeOK
    <3>2. QED  BY <2>3, <3>1
  <2>6. QED  BY <2>1, <2>4, <2>5 DEF Next, vars
<1>3. QED  BY <1>1, <1>2, TypeCorrect, PTL DEF Spec

(* In every reachable state a resource is staged only while its parent is  *)
(* absent: no order of updates and removals leaves a listener waiting for  *)
(* a bind that is there, or a route for a listener that is there.          *)
THEOREM StagingDiscipline ==
  Spec => [](StagedListenersAwaitBind /\ StagedRoutesAwaitListener)
  BY StagingInvariant, PTL DEF StagingInv

-----------------------------------------------------------------------------

LEMMA InsertPolicyIndex ==
  ASSUME PolicyType, PolicyIndexExact,
         NEW p \in PolicyKey, NEW t \in Target, InsertPolicy(p, t)
  PROVE  PolicyIndexExact'
<1> SUFFICES ASSUME NEW q \in PolicyKey, NEW u \in Target
             PROVE  q \in policiesByTarget'[u] <=> policiesByKey'[q] = u
  BY DEF PolicyIndexExact
<1>1. q \in policiesByTarget[u] <=> policiesByKey[q] = u
  BY DEF PolicyIndexExact
<1>2. policiesByKey[p] \in Target \cup {None} /\ None \notin Target
  BY NoneAssumption DEF PolicyType
<1>3. QED  BY <1>1, <1>2 DEF InsertPolicy, PolicyType

LEMMA RemovePolicyIndex ==
  ASSUME PolicyType, PolicyIndexExact, NEW p \in PolicyKey, RemovePolicy(p)
  PROVE  PolicyIndexExact'
<1> SUFFICES ASSUME NEW q \in PolicyKey, NEW u \in Target
             PROVE  q \in policiesByTarget'[u] <=> policiesByKey'[q] = u
  BY DEF PolicyIndexExact
<1>1. q \in policiesByTarget[u] <=> policiesByKey[q] = u
  BY DEF PolicyIndexExact
<1>2. policiesByKey[p] \in Target \cup {None} /\ None \notin Target
  BY NoneAssumption DEF PolicyType
<1>3. QED  BY <1>1, <1>2 DEF RemovePolicy, PolicyType

(* A policy is found under its present target and under no other, however  *)
(* often it was inserted, re-targeted, rejected or removed.                *)
THEOREM PolicyIndex == Spec => []PolicyIndexExact
<1>1. Init => PolicyIndexExact
  <2> SUFFICES ASSUME Init, NEW p \in PolicyKey, NEW t \in Target
               PROVE  p \in policiesByTarget[t] <=> policiesByKey[p] = t
    BY DEF PolicyIndexExact
  <2>1. None \notin Target
    BY NoneAssumption
  <2>2. QED  BY <2>1 DEF Init
<1>2. TypeOK /\ PolicyIndexExact /\ [Next]_vars => PolicyIndexExact'
  <2> SUFFICES ASSUME TypeOK, PolicyIndexExact, [Next]_vars
               PROVE  PolicyIndexExact'
    OBVIOUS
  <2>1. PolicyType
    BY TypeParts
  <2>2. CASE UNCHANGED policyVars
    BY <2>2 DEF policyVars, PolicyIndexExact
  <2>3. ASSUME NEW m \in Push, Update(m)
        PROVE  PolicyIndexExact'
    BY <2>1, <2>2, <2>3, PushTyped, InsertPolicyIndex DEF Update, Insert
  <2>4. ASSUME NEW n \in Name, Remove(n)
        PROVE  PolicyIndexExact'
    <3>1. resources[n] \in Resource /\ Drop(resources[n])
      BY <2>4 DEF Remove, TypeOK
    <3>2. QED  BY <2>1, <2>2, <3>1, ResourceTyped, RemovePolicyIndex DEF Drop
  <2>5. QED  BY <2>2, <2>3, <2>4 DEF Next, vars
<1>3. QED  BY <1>1, <1>2, TypeCorrect, PTL DEF Spec

-----------------------------------------------------------------------------
(* Subscribers                                                             *)

Told == published = binds

LEMMA InsertBindTells ==
  ASSUME NEW b, NEW ls, NEW staged, Told, InsertBind(b, ls, staged)
  PROVE  Told'
BY DEF InsertBind, Told

LEMMA InsertTells ==
  ASSUME Told, NEW m, Insert(m)
  PROVE  Told'
BY InsertBindTells
DEF Insert, InsertXdsBind, InsertListener, InsertRoute, Told, treeVars

LEMMA DropTells ==
  ASSUME TypeOK, Told, NEW old, Drop(old)
  PROVE  Told'
<1>1. ASSUME NEW b, RemoveBind(b)
      PROVE  Told'
  <2>1. CASE b \in BindKey /\ binds[b] = None
    <3>1. binds' = binds
      BY <1>1, <2>1 DEF RemoveBind, TypeOK
    <3> QED  BY <1>1, <2>1, <3>1 DEF RemoveBind, Told
  <2>2. CASE b \notin BindKey
    <3>1. binds' = binds /\ published' \in {published, [published EXCEPT ![b] = None]}
      BY <1>1, <2>2 DEF RemoveBind, TypeOK
    <3>2. [published EXCEPT ![b] = None] = published
      BY <2>2 DEF TypeOK
    <3> QED  BY <3>1, <3>2 DEF Told
  <2>3. CASE b \in BindKey /\ binds[b] # None
    BY <1>1, <2>3 DEF RemoveBind, Told
  <2> QED  BY <2>1, <2>2, <2>3
<1> QED
  BY <1>1, InsertBindTells DEF Drop, RemoveListener, RemoveRoute, Told, treeVars

(* Whatever is pushed and removed, a subscriber that has handled all of its   *)
(* events knows the binds that the store holds.                            *)
THEOREM SubscribersStayInformed == Spec => []SubscribersInformed
<1>1. Init => Told
  BY DEF Init, Told
<1>2. TypeOK /\ Told /\ [Next]_vars => Told'
  <2> SUFFICES ASSUME TypeOK, Told, [Next]_vars PROVE Told'
    OBVIOUS
  <2>1. ASSUME NEW m \in Push, Update(m) PROVE Told'
    BY <2>1, InsertTells DEF Update, Told, treeVars
  <2>2. ASSUME NEW n \in Name, Remove(n) PROVE Told'
    BY <2>2, DropTells DEF Remove
  <2>3. CASE UNCHANGED vars
    BY <2>3 DEF vars, treeVars, Told
  <2> QED  BY <2>1, <2>2, <2>3 DEF Next
<1>3. Told => SubscribersInformed
  BY DEF Told, SubscribersInformed
<1> QED
  BY <1>1, <1>2, <1>3, TypeCorrect, PTL DEF Spec

(* In every reachable state the maps of the store have their types and agree: *)
(* policies with their targets, and what is staged with what is absent.    *)
THEOREM StoreStaysConsistent == Spec => []StoreConsistent
  BY TypeCorrect, PolicyIndex, StagingDiscipline, PTL DEF StoreConsistent

-----------------------------------------------------------------------------
(* The refinement of ServedConfig                                          *)

IntentType ==
  /\ intent \in [Name -> Push \cup {None}]
  /\ \A n \in Name : intent[n] # None => /\ intent[n].name = n
                                        /\ resources[n] # None
  /\ \A n \in Name : resources[n] # None =>
       \E m \in Push : m.name = n /\ resources[n] = [kind |-> m.kind, key |-> m.key]

(* Whether a resource is accepted, below which parent; and where the store *)
(* has it, live or staged.                                                 *)
Has(k, key, p) ==
  \E n \in Name : /\ intent[n] # None
                  /\ intent[n].kind = k /\ intent[n].key = key /\ intent[n].parent = p
Held(b, l) == IF binds[b] # None THEN binds[b][l] ELSE stagedListeners[b][l]
HeldRoute(k, r, l) ==
  \/ r \in stagedRoutes[k][l]
  \/ \E b \in BindKey : Held(b, l) # None /\ r \in Held(b, l)[k]

(* The store has what is accepted, neither more nor less.                  *)
Mirror ==
  /\ \A b \in BindKey : binds[b] # None <=> Has("Bind", b, None)
  /\ \A b \in BindKey, l \in ListenerKey : Held(b, l) # None <=> Has("Listener", l, b)
  /\ \A k \in RouteKind, r \in RouteKey, l \in ListenerKey :
       HeldRoute(k, r, l) <=> Has(k, r, l)

LEMMA HasKey ==
  ASSUME OneNameEach, IntentType, NEW m \in Push
  PROVE  /\ \A p : Has(m.kind, m.key, p) => p = m.parent /\ intent[m.name] # None
         /\ intent[m.name] # None => Has(m.kind, m.key, m.parent) /\ intent[m.name].kind = m.kind
              /\ intent[m.name].key = m.key /\ intent[m.name].parent = m.parent
<1>1. ASSUME NEW n \in Name, intent[n] # None
      PROVE  intent[n] \in Push /\ intent[n].name = n
  BY <1>1 DEF IntentType
<1>2. m.name \in Name
  BY PushTyped
<1>3. ASSUME NEW p, Has(m.kind, m.key, p) PROVE p = m.parent /\ intent[m.name] # None
  <2>1. PICK n \in Name : /\ intent[n] # None /\ intent[n].kind = m.kind
                          /\ intent[n].key = m.key /\ intent[n].parent = p
    BY <1>3 DEF Has
  <2>2. intent[n].name = m.name /\ intent[n].parent = m.parent
    BY <1>1, <2>1 DEF OneNameEach
  <2> QED  BY <1>1, <2>1, <2>2
<1>4. ASSUME intent[m.name] # None
      PROVE  /\ intent[m.name].kind = m.kind
             /\ intent[m.name].key = m.key /\ intent[m.name].parent = m.parent
  BY <1>1, <1>2, <1>4 DEF OneNameEach
<1> QED  BY <1>2, <1>3, <1>4 DEF Has

LEMMA AcceptHas ==
  ASSUME OneNameEach, IntentType, NEW m \in Push, intent' = [intent EXCEPT ![m.name] = m]
  PROVE  \A k, key, p :
           Has(k, key, p)' <=> Has(k, key, p) \/ (k = m.kind /\ key = m.key /\ p = m.parent)
<1> SUFFICES ASSUME NEW k, NEW key, NEW p
             PROVE  Has(k, key, p)'
                      <=> Has(k, key, p) \/ (k = m.kind /\ key = m.key /\ p = m.parent)
  OBVIOUS
<1>1. m.name \in Name /\ m # None
  BY PushTyped, NoneAssumption
<1>2. intent'[m.name] = m /\ \A n \in Name \ {m.name} : intent'[n] = intent[n]
  BY <1>1 DEF IntentType
<1>3. intent[m.name] # None => /\ intent[m.name].kind = m.kind
                               /\ intent[m.name].key = m.key /\ intent[m.name].parent = m.parent
  BY HasKey
<1> QED  BY <1>1, <1>2, <1>3 DEF Has

LEMMA WithdrawHas ==
  ASSUME OneNameEach, IntentType, NEW m \in Push, intent' = [intent EXCEPT ![m.name] = None]
  PROVE  \A k, key, p : Has(k, key, p)' <=> Has(k, key, p) /\ ~(k = m.kind /\ key = m.key)
<1> SUFFICES ASSUME NEW k, NEW key, NEW p
             PROVE  Has(k, key, p)' <=> Has(k, key, p) /\ ~(k = m.kind /\ key = m.key)
  OBVIOUS
<1>1. m.name \in Name
  BY PushTyped
<1>2. intent'[m.name] = None /\ \A n \in Name \ {m.name} : intent'[n] = intent[n]
  BY <1>1 DEF IntentType
<1>3. intent[m.name] # None => intent[m.name].kind = m.kind /\ intent[m.name].key = m.key
  BY HasKey
<1>4. ASSUME NEW n \in Name, n # m.name, intent[n] # None
      PROVE  ~(intent[n].kind = m.kind /\ intent[n].key = m.key)
  <2>1. intent[n] \in Push /\ intent[n].name = n
    BY <1>4 DEF IntentType
  <2> QED  BY <1>4, <2>1 DEF OneNameEach
<1> QED  BY <1>1, <1>2, <1>3, <1>4 DEF Has

(* An insertion into a bind that is there.                                 *)
LEMMA InsertIntoBind ==
  ASSUME StagingInv, NEW b \in BindKey, binds[b] # None, NEW ls \in Listeners,
         NEW staged \in Staged, InsertBind(b, ls, staged)
  PROVE  /\ binds' = [binds EXCEPT ![b] = ls]
         /\ stagedListeners' = stagedListeners
         /\ stagedRoutes' = staged
<1> DEFINE waiting == {l \in ListenerKey : stagedListeners[b][l] # None}
           merged  == [l \in ListenerKey |->
                         IF l \in waiting
                         THEN WithStaged(stagedListeners[b][l], l, staged)
                         ELSE ls[l]]
<1>1. stagedListeners[b] = NoListeners
  BY DEF StagingInv, StagedListenersAwaitBind
<1>2. waiting = {}
  BY <1>1 DEF NoListeners
<1>3. /\ binds' = [binds EXCEPT ![b] = merged]
      /\ stagedListeners' = [stagedListeners EXCEPT ![b] = NoListeners]
      /\ stagedRoutes' = Drained(staged, waiting)
  BY DEF InsertBind
<1> HIDE DEF waiting
<1>4. merged = ls
  BY <1>2 DEF Listeners
<1>5. Drained(staged, {}) = staged
  BY DEF Drained, Staged
<1> HIDE DEF merged
<1> QED  BY <1>1, <1>2, <1>3, <1>4, <1>5 DEF StagingInv, TreeType

LEMMA StagedFacts ==
  ASSUME StagingInv
  PROVE  /\ \A b \in BindKey, l \in ListenerKey :
              /\ Held(b, l) \in Listener \cup {None}
              /\ HasListener(b, l) => Held(b, l) = binds[b][l] /\ Held(b, l) # None
              /\ binds[b] # None => stagedListeners[b][l] = None
         /\ \A b \in BindKey, l \in ListenerKey, k \in RouteKind :
              HasListener(b, l) => stagedRoutes[k][l] = {}
<1>1. ASSUME NEW b \in BindKey, NEW l \in ListenerKey
      PROVE  /\ Held(b, l) \in Listener \cup {None}
             /\ HasListener(b, l) => Held(b, l) = binds[b][l] /\ Held(b, l) # None
             /\ binds[b] # None => stagedListeners[b][l] = None
  <2>1. stagedListeners[b] \in Listeners /\ binds[b] \in Listeners \cup {None}
    BY DEF StagingInv, TreeType
  <2>2. Held(b, l) \in Listener \cup {None}
    BY <2>1 DEF Held, Listeners
  <2>3. binds[b] # None => stagedListeners[b][l] = None
    BY DEF StagingInv, StagedListenersAwaitBind, NoListeners
  <2> QED  BY <2>2, <2>3 DEF Held, HasListener
<1>2. \A b \in BindKey, l \in ListenerKey, k \in RouteKind :
        HasListener(b, l) => stagedRoutes[k][l] = {}
  BY DEF StagingInv, StagedRoutesAwaitListener, LiveListener
<1> QED  BY <1>1, <1>2

(* A listener that picks up what is staged for it takes it out of staging. *)
LEMMA PickedUp ==
  ASSUME NEW b \in BindKey, NEW l \in ListenerKey, NEW k \in RouteKind,
         Held(b, l)' # None,
         Held(b, l)'[k] = (IF Held(b, l) = None THEN {} ELSE Held(b, l)[k])
                            \cup stagedRoutes[k][l],
         \A c \in BindKey \ {b} : Held(c, l)' = Held(c, l),
         stagedRoutes'[k][l] = {}
  PROVE  \A r : HeldRoute(k, r, l)' <=> HeldRoute(k, r, l)
<1> SUFFICES ASSUME NEW r PROVE HeldRoute(k, r, l)' <=> HeldRoute(k, r, l)
  OBVIOUS
<1>1. HeldRoute(k, r, l)' <=> \E c \in BindKey : Held(c, l)' # None /\ r \in Held(c, l)'[k]
  BY DEF HeldRoute
<1>2. r \in Held(b, l)'[k]
        <=> r \in stagedRoutes[k][l] \/ (Held(b, l) # None /\ r \in Held(b, l)[k])
  OBVIOUS
<1> QED  BY <1>1, <1>2 DEF HeldRoute

LEMMA BindMirror ==
  ASSUME StagingInv, Mirror, NEW b \in BindKey, InsertXdsBind(b),
         \A k, key, p : Has(k, key, p)'
                          <=> Has(k, key, p) \/ (k = "Bind" /\ key = b /\ p = None)
  PROVE  Mirror'
<1>0. stagedRoutes \in Staged /\ binds \in [BindKey -> Listeners \cup {None}]
        /\ stagedListeners \in [BindKey -> Listeners]
  BY DEF StagingInv, TreeType
<1>1. CASE binds[b] # None
  <2>1. InsertBind(b, binds[b], stagedRoutes) /\ binds[b] \in Listeners
    BY <1>0, <1>1 DEF InsertXdsBind
  <2>2. /\ binds' = [binds EXCEPT ![b] = binds[b]]
        /\ stagedListeners' = stagedListeners /\ stagedRoutes' = stagedRoutes
    BY <1>0, <1>1, <2>1, InsertIntoBind
  <2>3. binds' = binds
    BY <1>0, <2>2
  <2>4. Has("Bind", b, None)
    BY <1>1 DEF Mirror
  <2> QED  BY <2>2, <2>3, <2>4 DEF Mirror, Held, HeldRoute, RouteKind
<1>2. CASE binds[b] = None
  <2> DEFINE waiting == {l \in ListenerKey : stagedListeners[b][l] # None}
             merged  == [l \in ListenerKey |->
                           IF l \in waiting
                           THEN WithStaged(stagedListeners[b][l], l, stagedRoutes)
                           ELSE NoListeners[l]]
  <2>1. /\ binds' = [binds EXCEPT ![b] = merged]
        /\ stagedRoutes' = Drained(stagedRoutes, waiting)
        /\ stagedListeners' = [stagedListeners EXCEPT ![b] = NoListeners]
    BY <1>2 DEF InsertXdsBind, InsertBind
  <2>2. \A l \in ListenerKey : l \in waiting => 
          /\ merged[l] = WithStaged(stagedListeners[b][l], l, stagedRoutes)
          /\ stagedListeners[b][l] \in Listener
    BY <1>0 DEF Listeners
  <2>3. \A l \in ListenerKey : l \notin waiting => 
          /\ merged[l] = None
          /\ stagedListeners[b][l] = None
    BY DEF NoListeners
  <2>4. merged \in Listeners /\ merged # None
    <3>1. \A l \in ListenerKey : merged[l] \in Listener \cup {None}
      BY <1>0, <2>2, <2>3, WithStagedType
    <3> QED  BY <3>1, NoneAssumption DEF Listeners
  <2> HIDE DEF merged, waiting
  <2>5. \A c \in BindKey : binds'[c] = IF c = b THEN merged ELSE binds[c]
    BY <1>0, <2>1
  <2>6. \A c \in BindKey \ {b}, l \in ListenerKey : Held(c, l)' = Held(c, l)
    BY <1>0, <2>1 DEF Held
  <2>7. \A l \in ListenerKey : Held(b, l)' = merged[l] /\ Held(b, l) = stagedListeners[b][l]
    BY <1>2, <2>4, <2>5 DEF Held
  <2>8. \A k \in RouteKind, l \in ListenerKey :
          stagedRoutes'[k][l] = IF l \in waiting THEN {} ELSE stagedRoutes[k][l]
    BY <1>0, <2>1, DrainedType
  <2>9. ASSUME NEW l \in ListenerKey
        PROVE  /\ Held(b, l)' # None <=> Held(b, l) # None
               /\ \A k \in RouteKind : \A r : HeldRoute(k, r, l)' <=> HeldRoute(k, r, l)
    <3>1. CASE l \in waiting
      <4>1. merged[l] \in Listener /\ merged[l] # None
        BY <1>0, <2>2, <3>1, WithStagedType, NoneAssumption
      <4>2. Held(b, l) \in Listener /\ Held(b, l) # None
        BY <2>2, <2>7, <3>1, NoneAssumption
      <4>3. ASSUME NEW k \in RouteKind
            PROVE  merged[l][k] = Held(b, l)[k] \cup stagedRoutes[k][l]
        <5>1. /\ merged[l] = WithStaged(stagedListeners[b][l], l, stagedRoutes)
              /\ Held(b, l) = stagedListeners[b][l]
          BY <2>2, <2>7, <3>1
        <5> QED  BY <5>1 DEF WithStaged
      <4> QED  BY <2>6, <2>7, <2>8, <3>1, <4>1, <4>2, <4>3, PickedUp
    <3>2. CASE l \notin waiting
      <4>1. Held(b, l)' = None /\ Held(b, l) = None
        BY <2>3, <2>7, <3>2
      <4>2. \A c \in BindKey : Held(c, l)' = Held(c, l)
        BY <2>6, <4>1
      <4> QED  BY <2>8, <3>2, <4>1, <4>2 DEF HeldRoute
    <3> QED  BY <3>1, <3>2
  <2>10. \A c \in BindKey : binds'[c] # None <=> Has("Bind", c, None)'
    BY <2>4, <2>5 DEF Mirror
  <2>11. \A c \in BindKey, l \in ListenerKey : Held(c, l)' # None <=> Has("Listener", l, c)'
    BY <2>6, <2>9 DEF Mirror
  <2>12. \A k \in RouteKind, r \in RouteKey, l \in ListenerKey :
           HeldRoute(k, r, l)' <=> Has(k, r, l)'
    BY <2>9 DEF Mirror, RouteKind
  <2> QED  BY <2>10, <2>11, <2>12 DEF Mirror
<1> QED  BY <1>1, <1>2

LEMMA ListenerMirror ==
  ASSUME StagingInv, Mirror, NEW b \in BindKey, NEW l \in ListenerKey,
         InsertListener(l, b),
         HasListener(b, l) => binds[b][l]["TcpRoute"] = {},
         stagedListeners[b][l] \in {None, NoRoutes},
         \A k, key, p : Has(k, key, p)'
                          <=> Has(k, key, p) \/ (k = "Listener" /\ key = l /\ p = b)
  PROVE  Mirror'
<1> DEFINE held == IF Held(b, l) = None THEN NoRoutes ELSE Held(b, l)
           lis  == WithStaged(held, l, stagedRoutes)
<1>0. stagedRoutes \in Staged /\ binds \in [BindKey -> Listeners \cup {None}]
        /\ stagedListeners \in [BindKey -> Listeners]
  BY DEF StagingInv, TreeType
<1>1. held \in Listener /\ lis \in Listener /\ lis # None
  <2>1. held \in Listener
    BY StagedFacts, NoRoutesType
  <2> HIDE DEF held
  <2>2. lis \in Listener
    BY <1>0, <2>1, WithStagedType
  <2> QED  BY <2>1, <2>2, NoneAssumption
<1>2. Drained(stagedRoutes, {l}) \in Staged
        /\ \A k \in RouteKind, i \in ListenerKey : Drained(stagedRoutes, {l})[k][i]
              = IF i \in {l} THEN {} ELSE stagedRoutes[k][i]
  BY <1>0, DrainedType
<1>3. /\ \A c \in BindKey : binds'[c] # None <=> binds[c] # None
      /\ \A c \in BindKey, i \in ListenerKey :
           Held(c, i)' = IF c = b /\ i = l THEN lis ELSE Held(c, i)
      /\ stagedRoutes' = Drained(stagedRoutes, {l})
  <2>1. CASE binds[b] # None
    <3> DEFINE new == [binds[b] EXCEPT ![l] = lis]
    <3>0. binds[b] \in Listeners /\ binds[b][l] \in Listener \cup {None}
      BY <1>0, <2>1 DEF Listeners
    <3>1. Held(b, l) = binds[b][l]
      BY <2>1 DEF Held
    <3>2. held = KeptRoutes(binds[b][l])
      <4>1. CASE binds[b][l] = None
        BY <3>1, <4>1 DEF KeptRoutes
      <4>2. CASE binds[b][l] # None
        <5>1. binds[b][l]["TcpRoute"] = {} /\ binds[b][l] \in Listener
          BY <2>1, <3>0, <4>2 DEF HasListener
        <5>2. [NoRoutes EXCEPT !["Route"] = binds[b][l]["Route"]] = binds[b][l]
          BY <5>1 DEF NoRoutes, RouteKind, Listener
        <5> QED  BY <3>1, <4>2, <5>2 DEF KeptRoutes
      <4> QED  BY <4>1, <4>2
    <3>3. InsertBind(b, new, Drained(stagedRoutes, {l}))
      BY <2>1, <3>2 DEF InsertListener
    <3> HIDE DEF lis
    <3>4. new \in Listeners
      BY <1>1, <3>0 DEF Listeners
    <3> HIDE DEF new
    <3>5. /\ binds' = [binds EXCEPT ![b] = new]
          /\ stagedListeners' = stagedListeners
          /\ stagedRoutes' = Drained(stagedRoutes, {l})
      BY <1>2, <2>1, <3>3, <3>4, InsertIntoBind
    <3>6. new # None /\ \A i \in ListenerKey : new[i] = IF i = l THEN lis ELSE binds[b][i]
      BY <3>0, <3>4, NoneAssumption DEF new, Listeners
    <3> QED  BY <1>0, <2>1, <3>5, <3>6 DEF Held
  <2>2. CASE binds[b] = None
    <3>1. /\ stagedListeners' = [stagedListeners EXCEPT
                 ![b][l] = WithStaged(NoRoutes, l, stagedRoutes)]
          /\ stagedRoutes' = Drained(stagedRoutes, {l})
          /\ binds' = binds
      BY <2>2 DEF InsertListener
    <3>2. held = NoRoutes
      BY <2>2 DEF Held
    <3>3. stagedListeners' = [stagedListeners EXCEPT ![b][l] = lis]
      BY <3>1, <3>2
    <3> HIDE DEF lis
    <3> QED  BY <1>0, <2>2, <3>1, <3>3 DEF Held, Listeners
  <2> QED  BY <2>1, <2>2
<1>4. \A c \in BindKey, i \in ListenerKey : Held(c, i)' # None <=> Has("Listener", i, c)'
  BY <1>1, <1>3 DEF Mirror
<1>5. ASSUME NEW k \in RouteKind, NEW i \in ListenerKey
      PROVE  \A r : HeldRoute(k, r, i)' <=> HeldRoute(k, r, i)
  <2>1. CASE i = l
    <3>1. lis[k] = held[k] \cup stagedRoutes[k][l]
      BY DEF WithStaged
    <3>2. Held(b, l)' = lis /\ stagedRoutes'[k][l] = {}
      BY <1>2, <1>3
    <3>3. \A c \in BindKey \ {b} : Held(c, l)' = Held(c, l)
      BY <1>3
    <3>4. lis[k] = (IF Held(b, l) = None THEN {} ELSE Held(b, l)[k]) \cup stagedRoutes[k][l]
      BY <3>1 DEF NoRoutes
    <3> HIDE DEF lis
    <3> QED  BY <1>1, <2>1, <3>2, <3>3, <3>4, PickedUp
  <2>2. CASE i # l
    BY <1>2, <1>3, <2>2 DEF HeldRoute
  <2> QED  BY <2>1, <2>2
<1> QED  BY <1>3, <1>4, <1>5 DEF Mirror, RouteKind

(* A change of one live listener of a bind.                                *)
LEMMA RelistedMirror ==
  ASSUME StagingInv, NEW b \in BindKey, NEW l \in ListenerKey, HasListener(b, l),
         NEW lis \in Listener \cup {None},
         InsertBind(b, [binds[b] EXCEPT ![l] = lis], stagedRoutes)
  PROVE  /\ stagedRoutes' = stagedRoutes
         /\ \A c \in BindKey : binds'[c] # None <=> binds[c] # None
         /\ \A c \in BindKey, i \in ListenerKey :
              Held(c, i)' = IF c = b /\ i = l THEN lis ELSE Held(c, i)
<1> DEFINE new == [binds[b] EXCEPT ![l] = lis]
<1>1. /\ binds \in [BindKey -> Listeners \cup {None}] /\ stagedRoutes \in Staged
      /\ binds[b] # None
  BY DEF StagingInv, TreeType, HasListener
<1>2. new \in Listeners /\ \A i \in ListenerKey : new[i] = IF i = l THEN lis ELSE binds[b][i]
  BY <1>1 DEF Listeners
<1> HIDE DEF new
<1>3. InsertBind(b, new, stagedRoutes)
  BY DEF new
<1>4. /\ binds' = [binds EXCEPT ![b] = new]
      /\ stagedListeners' = stagedListeners
      /\ stagedRoutes' = stagedRoutes
  BY <1>1, <1>2, <1>3, InsertIntoBind
<1>5. new # None
  BY <1>2, NoneAssumption
<1> QED  BY <1>1, <1>2, <1>4, <1>5 DEF Held

LEMMA RouteMirror ==
  ASSUME StagingInv, Mirror, NEW k \in RouteKind, NEW r \in RouteKey,
         NEW l \in ListenerKey, InsertRoute(k, r, l),
         \A kind, key, p : Has(kind, key, p)'
                          <=> Has(kind, key, p) \/ (kind = k /\ key = r /\ p = l)
  PROVE  Mirror'
<1>1. ASSUME NEW b \in BindKey, HasListener(b, l),
             InsertBind(b, [binds[b] EXCEPT ![l][k] = @ \cup {r}], stagedRoutes)
      PROVE  Mirror'
  <2> DEFINE lis == [binds[b][l] EXCEPT ![k] = @ \cup {r}]
  <2>1. /\ binds[b] \in Listeners /\ binds[b][l] \in Listener
        /\ Held(b, l) = binds[b][l] /\ Held(b, l) # None
    BY <1>1, StagedFacts DEF StagingInv, TreeType, HasListener, Listeners
  <2>2. lis \in Listener /\ lis # None
    <3>1. lis \in Listener
      BY <2>1 DEF Listener
    <3> QED  BY <3>1, NoneAssumption
  <2>3. \A q \in RouteKind : lis[q] = IF q = k THEN Held(b, l)[q] \cup {r} ELSE Held(b, l)[q]
    BY <2>1 DEF Listener
  <2>4. InsertBind(b, [binds[b] EXCEPT ![l] = lis], stagedRoutes)
    BY <1>1, <2>1
  <2> HIDE DEF lis
  <2>5. /\ stagedRoutes' = stagedRoutes
        /\ \A c \in BindKey : binds'[c] # None <=> binds[c] # None
        /\ \A c \in BindKey, i \in ListenerKey :
             Held(c, i)' = IF c = b /\ i = l THEN lis ELSE Held(c, i)
    BY <1>1, <2>2, <2>4, RelistedMirror
  <2>6. \A c \in BindKey, i \in ListenerKey : Held(c, i)' # None <=> Has("Listener", i, c)'
    BY <2>1, <2>2, <2>5 DEF Mirror, RouteKind
  <2>7. \A c \in BindKey : binds'[c] # None <=> Has("Bind", c, None)'
    BY <2>5 DEF Mirror, RouteKind
  <2>8. \A q \in RouteKind, i \in ListenerKey, s \in RouteKey :
          HeldRoute(q, s, i)' <=> HeldRoute(q, s, i) \/ (q = k /\ s = r /\ i = l)
    BY ZenonT(60), <2>1, <2>2, <2>3, <2>5 DEF HeldRoute
  <2> QED  BY <2>6, <2>7, <2>8 DEF Mirror
<1>2. CASE /\ ~LiveListener(l)
           /\ stagedRoutes' = [stagedRoutes EXCEPT ![k][l] = @ \cup {r}]
           /\ UNCHANGED <<binds, stagedListeners, published>>
  <2>1. \A q \in RouteKind, i \in ListenerKey :
          stagedRoutes'[q][i] = IF q = k /\ i = l THEN stagedRoutes[q][i] \cup {r}
                                                  ELSE stagedRoutes[q][i]
    BY <1>2 DEF StagingInv, TreeType, Staged
  <2>2. \A c \in BindKey, i \in ListenerKey : Held(c, i)' = Held(c, i)
    BY <1>2 DEF Held
  <2>3. \A q \in RouteKind, i \in ListenerKey, s \in RouteKey :
          HeldRoute(q, s, i)' <=> HeldRoute(q, s, i) \/ (q = k /\ s = r /\ i = l)
    BY ZenonT(60), <2>1, <2>2 DEF HeldRoute
  <2> QED  BY <1>2, <2>2, <2>3 DEF Mirror, RouteKind
<1> QED  BY <1>1, <1>2 DEF InsertRoute

(* A resource has one parent.                                              *)
OneParent == \A k, key, p, q : Has(k, key, p) /\ Has(k, key, q) => p = q

LEMMA ParentIsOne ==
  ASSUME OneNameEach, IntentType PROVE OneParent
<1> SUFFICES ASSUME NEW k, NEW key, NEW p, NEW q, Has(k, key, p), Has(k, key, q)
             PROVE  p = q
  BY DEF OneParent
<1>1. PICK n \in Name : intent[n] # None /\ intent[n].kind = k /\ intent[n].key = key
                          /\ intent[n].parent = p
  BY DEF Has
<1>2. intent[n] \in Push
  BY <1>1 DEF IntentType
<1> QED  BY <1>1, <1>2, HasKey

LEMMA DropRouteMirror ==
  ASSUME StagingInv, Mirror, OneParent, NEW k \in RouteKind, NEW r \in RouteKey,
         RemoveRoute(k, r), \A l : Has(k, r, l) => LiveRoute(k, r),
         \A kind, key, p : Has(kind, key, p)'
                             <=> Has(kind, key, p) /\ ~(kind = k /\ key = r)
  PROVE  Mirror'
<1>1. ASSUME NEW b \in BindKey, NEW l \in ListenerKey, HasRoute(b, l, k, r),
             InsertBind(b, [binds[b] EXCEPT ![l][k] = @ \ {r}], stagedRoutes)
      PROVE  Mirror'
  <2> DEFINE lis == [binds[b][l] EXCEPT ![k] = @ \ {r}]
  <2>1. /\ HasListener(b, l) /\ binds[b] \in Listeners /\ binds[b][l] \in Listener
        /\ Held(b, l) = binds[b][l] /\ Held(b, l) # None
    BY <1>1, StagedFacts DEF StagingInv, TreeType, HasRoute, HasListener, Listeners
  <2>2. lis \in Listener /\ lis # None
    <3>1. lis \in Listener
      BY <2>1 DEF Listener
    <3> QED  BY <3>1, NoneAssumption
  <2>3. \A q \in RouteKind : lis[q] = IF q = k THEN Held(b, l)[q] \ {r} ELSE Held(b, l)[q]
    BY <2>1 DEF Listener
  <2>4. InsertBind(b, [binds[b] EXCEPT ![l] = lis], stagedRoutes)
    BY <1>1, <2>1
  <2> HIDE DEF lis
  <2>5. /\ stagedRoutes' = stagedRoutes
        /\ \A c \in BindKey : binds'[c] # None <=> binds[c] # None
        /\ \A c \in BindKey, i \in ListenerKey :
             Held(c, i)' = IF c = b /\ i = l THEN lis ELSE Held(c, i)
    BY <2>1, <2>2, <2>4, RelistedMirror
  <2>6. \A c \in BindKey, i \in ListenerKey : Held(c, i)' # None <=> Has("Listener", i, c)'
    BY <2>1, <2>2, <2>5 DEF Mirror, RouteKind
  <2>7. \A c \in BindKey : binds'[c] # None <=> Has("Bind", c, None)'
    BY <2>5 DEF Mirror, RouteKind
  <2>8. HeldRoute(k, r, l)
    BY <1>1, <2>1 DEF HeldRoute, HasRoute
  <2>9. \A i \in ListenerKey : HeldRoute(k, r, i) => i = l
    BY <2>8 DEF Mirror, OneParent
  <2>10. \A c \in BindKey : Held(c, l) # None => c = b
    BY <2>1 DEF Mirror, OneParent
  <2>11. stagedRoutes[k][l] = {}
    BY <2>1, StagedFacts
  <2>12. \A q \in RouteKind, i \in ListenerKey, s \in RouteKey :
           HeldRoute(q, s, i)' <=> HeldRoute(q, s, i) /\ ~(q = k /\ s = r)
    <3> SUFFICES ASSUME NEW q \in RouteKind, NEW i \in ListenerKey, NEW s \in RouteKey
                 PROVE  HeldRoute(q, s, i)' <=> HeldRoute(q, s, i) /\ ~(q = k /\ s = r)
      OBVIOUS
    <3>1. CASE i # l
      <4>1. HeldRoute(q, s, i)' <=> HeldRoute(q, s, i)
        BY <2>5, <3>1 DEF HeldRoute
      <4> QED  BY <2>9, <3>1, <4>1
    <3>2. CASE i = l
      <4>1. HeldRoute(q, s, l)' <=> s \in stagedRoutes[q][l] \/ s \in lis[q]
        BY <2>2, <2>5, <2>10 DEF HeldRoute
      <4>2. HeldRoute(q, s, l) <=> s \in stagedRoutes[q][l] \/ s \in Held(b, l)[q]
        BY <2>1, <2>10 DEF HeldRoute
      <4> QED  BY <2>3, <2>11, <3>2, <4>1, <4>2
    <3> QED  BY <3>1, <3>2
  <2> QED  BY <2>6, <2>7, <2>12 DEF Mirror
<1>2. CASE ~LiveRoute(k, r) /\ UNCHANGED treeVars
  BY <1>2 DEF Mirror, Held, HeldRoute, treeVars
<1> QED  BY <1>1, <1>2 DEF RemoveRoute

LEMMA DropListenerMirror ==
  ASSUME StagingInv, Mirror, OneParent, NEW l \in ListenerKey, RemoveListener(l),
         \A b : Has("Listener", l, b)
                  => LiveListener(l) /\ \A k \in RouteKind : \A r : ~Has(k, r, l),
         \A kind, key, p : Has(kind, key, p)'
                             <=> Has(kind, key, p) /\ ~(kind = "Listener" /\ key = l)
  PROVE  Mirror'
<1>1. ASSUME NEW b \in BindKey, HasListener(b, l),
             InsertBind(b, [binds[b] EXCEPT ![l] = None], stagedRoutes)
      PROVE  Mirror'
  <2>1. /\ stagedRoutes' = stagedRoutes
        /\ \A c \in BindKey : binds'[c] # None <=> binds[c] # None
        /\ \A c \in BindKey, i \in ListenerKey :
             Held(c, i)' = IF c = b /\ i = l THEN None ELSE Held(c, i)
    BY <1>1, RelistedMirror
  <2>2. Held(b, l) # None
    BY <1>1, StagedFacts
  <2>3. Has("Listener", l, b)
    BY <2>2 DEF Mirror
  <2>4. \A c \in BindKey : Held(c, l) # None => c = b
    BY <2>3 DEF Mirror, OneParent
  <2>5. \A c \in BindKey, i \in ListenerKey : Held(c, i)' # None <=> Has("Listener", i, c)'
    BY <2>1, <2>4 DEF Mirror
  <2>6. \A c \in BindKey : binds'[c] # None <=> Has("Bind", c, None)'
    BY <2>1 DEF Mirror
  <2>7. \A k \in RouteKind, r \in RouteKey : ~HeldRoute(k, r, l)
    BY <2>3 DEF Mirror
  <2>8. \A k \in RouteKind, i \in ListenerKey, r \in RouteKey :
          HeldRoute(k, r, i)' <=> HeldRoute(k, r, i)
    BY <2>1, <2>7 DEF HeldRoute
  <2> QED  BY <2>5, <2>6, <2>8 DEF Mirror, RouteKind
<1>2. CASE ~LiveListener(l) /\ UNCHANGED treeVars
  BY <1>2 DEF Mirror, Held, HeldRoute, treeVars, RouteKind
<1> QED  BY <1>1, <1>2 DEF RemoveListener

LEMMA DropBindMirror ==
  ASSUME StagingInv, Mirror, NEW b \in BindKey, RemoveBind(b),
         binds[b] # None => \A l : ~Has("Listener", l, b),
         \A kind, key, p : Has(kind, key, p)'
                             <=> Has(kind, key, p) /\ ~(kind = "Bind" /\ key = b)
  PROVE  Mirror'
<1>1. /\ \A c \in BindKey : binds'[c] = IF c = b THEN None ELSE binds[c]
      /\ stagedListeners' = stagedListeners /\ stagedRoutes' = stagedRoutes
  BY DEF RemoveBind, StagingInv, TreeType
<1>2. \A c \in BindKey, l \in ListenerKey : Held(c, l)' = Held(c, l)
  <2> SUFFICES ASSUME NEW c \in BindKey, NEW l \in ListenerKey, c = b, binds[b] # None
               PROVE  Held(c, l)' = Held(c, l)
    BY <1>1 DEF Held
  <2>1. Held(b, l) = None
    BY DEF Mirror
  <2>2. Held(b, l)' = stagedListeners[b][l]
    BY <1>1 DEF Held
  <2> QED  BY <2>1, <2>2, StagedFacts
<1>3. \A k \in RouteKind, i \in ListenerKey, r \in RouteKey :
        HeldRoute(k, r, i)' <=> HeldRoute(k, r, i)
  BY <1>1, <1>2 DEF HeldRoute
<1>4. \A c \in BindKey : binds'[c] # None <=> Has("Bind", c, None)'
  BY <1>1 DEF Mirror
<1> QED  BY <1>2, <1>3, <1>4 DEF Mirror, RouteKind

LEMMA InLiveConfig ==
  ASSUME NEW e
  PROVE  e \in LiveConfig <=>
           \/ \E b \in BindKey : binds[b] # None /\ e = Entry("Bind", b, None)
           \/ \E b \in BindKey, l \in ListenerKey :
                HasListener(b, l) /\ e = Entry("Listener", l, b)
           \/ \E k \in RouteKind, l \in ListenerKey, r \in RouteKey :
                (\E b \in BindKey : HasRoute(b, l, k, r)) /\ e = Entry(k, r, l)
<1> DEFINE RoutesOf(k, l) == {Entry(k, r, l) : r \in {i \in RouteKey :
                                \E b \in BindKey : HasRoute(b, l, k, i)}}
           routes == UNION {RoutesOf(k, l) : k \in RouteKind, l \in ListenerKey}
<1>1. \A k, l : e \in RoutesOf(k, l) <=> \E r \in RouteKey :
                  (\E b \in BindKey : HasRoute(b, l, k, r)) /\ e = Entry(k, r, l)
  OBVIOUS
<1>2. e \in routes <=> \E k \in RouteKind, l \in ListenerKey : e \in RoutesOf(k, l)
  <2> HIDE DEF RoutesOf
  <2> QED  OBVIOUS
<1>3. e \in LiveConfig <=>
        \/ \E b \in BindKey : binds[b] # None /\ e = Entry("Bind", b, None)
        \/ \E b \in BindKey, l \in ListenerKey :
             HasListener(b, l) /\ e = Entry("Listener", l, b)
        \/ e \in routes
  BY DEF LiveConfig
<1> HIDE DEF RoutesOf, routes
<1> QED  BY <1>1, <1>2, <1>3

LEMMA LiveEntries ==
  ASSUME NEW k \in RouteKind
  PROVE  /\ \A l, b : Entry("Listener", l, b) \in LiveConfig => LiveListener(l)
         /\ \A r, l : Entry(k, r, l) \in LiveConfig => LiveRoute(k, r)
  BY InLiveConfig DEF Entry, LiveListener, LiveRoute, RouteKind

LEMMA BindParent == \A m \in Push : m.kind = "Bind" => m.parent = None
  BY PushAssumption DEF ParentOf, RouteKind

LEMMA AcceptedBinds ==
  ASSUME IntentType, NEW b
  PROVE  Served!HasBind(intent, b) <=> Has("Bind", b, None)
<1>1. \A m \in Push : m.kind = "Bind" => m.parent = None
  BY BindParent
<1>2. \A n \in Name : intent[n] # None => intent[n] \in Push
  BY DEF IntentType
<1> QED  BY <1>1, <1>2 DEF Served!HasBind, Served!Accepted, Has

LEMMA InServing ==
  ASSUME IntentType, NEW e
  PROVE  e \in Served!Serving(intent) <=>
           \/ \E b \in BindKey : Has("Bind", b, None) /\ e = Entry("Bind", b, None)
           \/ \E b \in BindKey, l \in ListenerKey :
                /\ Has("Listener", l, b) /\ Has("Bind", b, None)
                /\ e = Entry("Listener", l, b)
           \/ \E k \in RouteKind, l \in ListenerKey, r \in RouteKey :
                /\ Has(k, r, l)
                /\ \E b \in BindKey : Has("Listener", l, b) /\ Has("Bind", b, None)
                /\ e = Entry(k, r, l)
<1>1. ASSUME NEW n \in Name, intent[n] # None
      PROVE  /\ intent[n] \in Push
             /\ Has(intent[n].kind, intent[n].key, intent[n].parent)
  BY <1>1 DEF IntentType, Has
<1>2. \A m \in Push :
        /\ m.kind = "Bind" => m.key \in BindKey /\ m.parent = None
        /\ m.kind = "Listener" => m.key \in ListenerKey /\ m.parent \in BindKey
        /\ m.kind \in RouteKind => m.key \in RouteKey /\ m.parent \in ListenerKey
  BY PushTyped, BindParent
<1>3. e \in Served!Serving(intent) <=>
        \E n \in Name : /\ intent[n] # None
                        /\ Served!HasParents(intent, intent[n])
                        /\ e = Entry(intent[n].kind, intent[n].key, intent[n].parent)
  BY DEF Served!Serving, Served!Accepted, Entry
<1>4. ASSUME NEW l
      PROVE  (\E i \in Served!Accepted(intent) :
                i.kind = "Listener" /\ i.key = l /\ Served!HasBind(intent, i.parent))
               <=> \E b \in BindKey : Has("Listener", l, b) /\ Has("Bind", b, None)
  BY <1>1, <1>2, AcceptedBinds DEF Served!Accepted, Has
<1>5. ASSUME NEW n \in Name, intent[n] # None
      PROVE  Served!HasParents(intent, intent[n]) <=>
               \/ intent[n].kind = "Bind"
               \/ intent[n].kind = "Listener" /\ Has("Bind", intent[n].parent, None)
               \/ /\ intent[n].kind \in RouteKind
                  /\ \E b \in BindKey : /\ Has("Listener", intent[n].parent, b)
                                        /\ Has("Bind", b, None)
  <2>1. intent[n].kind \in Served!RouteKinds <=> intent[n].kind \in RouteKind
    BY DEF Served!RouteKinds, RouteKind
  <2>2. Served!HasParents(intent, intent[n]) <=>
          \/ intent[n].kind = "Bind"
          \/ intent[n].kind = "Listener" /\ Served!HasBind(intent, intent[n].parent)
          \/ /\ intent[n].kind \in Served!RouteKinds
             /\ \E i \in Served!Accepted(intent) :
                  i.kind = "Listener" /\ i.key = intent[n].parent
                    /\ Served!HasBind(intent, i.parent)
    BY DEF Served!HasParents
  <2> QED  BY <1>4, <2>1, <2>2, AcceptedBinds
<1>6. ASSUME e \in Served!Serving(intent)
      PROVE  \/ \E b \in BindKey : Has("Bind", b, None) /\ e = Entry("Bind", b, None)
             \/ \E b \in BindKey, l \in ListenerKey :
                  /\ Has("Listener", l, b) /\ Has("Bind", b, None)
                  /\ e = Entry("Listener", l, b)
             \/ \E k \in RouteKind, l \in ListenerKey, r \in RouteKey :
                  /\ Has(k, r, l)
                  /\ \E b \in BindKey : Has("Listener", l, b) /\ Has("Bind", b, None)
                  /\ e = Entry(k, r, l)
  <2>1. PICK n \in Name : /\ intent[n] # None
                          /\ Served!HasParents(intent, intent[n])
                          /\ e = Entry(intent[n].kind, intent[n].key, intent[n].parent)
    BY <1>3, <1>6
  <2> QED  BY <1>1, <1>2, <1>5, <2>1
<1>7. \A k, key, p : Has(k, key, p) =>
        \E n \in Name : intent[n] # None /\ intent[n].kind = k /\ intent[n].key = key
                          /\ intent[n].parent = p
  BY DEF Has
<1>8. ASSUME NEW b \in BindKey, Has("Bind", b, None)
      PROVE  Entry("Bind", b, None) = e => e \in Served!Serving(intent)
  BY <1>3, <1>5, <1>7, <1>8
<1>9. ASSUME NEW b \in BindKey, NEW l \in ListenerKey, Has("Listener", l, b), Has("Bind", b, None)
      PROVE  Entry("Listener", l, b) = e => e \in Served!Serving(intent)
  BY <1>3, <1>5, <1>7, <1>9
<1>10. ASSUME NEW k \in RouteKind, NEW l \in ListenerKey, NEW r \in RouteKey, Has(k, r, l),
              NEW b \in BindKey, Has("Listener", l, b), Has("Bind", b, None)
       PROVE  Entry(k, r, l) = e => e \in Served!Serving(intent)
  BY <1>3, <1>5, <1>7, <1>10
<1> QED  BY <1>6, <1>8, <1>9, <1>10

(* What is served is what is accepted together with all of its parents.    *)
Serves == LiveConfig = Served!Serving(intent)

LEMMA MirrorServes ==
  ASSUME IntentType, StagingInv, Mirror, OneParent PROVE Serves
<1>1. \A b \in BindKey, l \in ListenerKey :
        HasListener(b, l) <=> Has("Listener", l, b) /\ Has("Bind", b, None)
  BY StagedFacts DEF Mirror, Held, HasListener
<1>2. ASSUME NEW k \in RouteKind, NEW l \in ListenerKey, NEW r \in RouteKey
      PROVE  (\E b \in BindKey : HasRoute(b, l, k, r))
               <=> /\ Has(k, r, l)
                   /\ \E b \in BindKey : Has("Listener", l, b) /\ Has("Bind", b, None)
  <2>1. ASSUME NEW b \in BindKey, HasRoute(b, l, k, r)
        PROVE  Has(k, r, l)
    <3>1. Held(b, l) # None /\ r \in Held(b, l)[k]
      BY <2>1, StagedFacts DEF HasRoute
    <3> QED  BY <3>1 DEF HeldRoute, Mirror
  <2>2. ASSUME NEW b \in BindKey, Has(k, r, l), Has("Listener", l, b), Has("Bind", b, None)
        PROVE  HasRoute(b, l, k, r)
    <3>1. HeldRoute(k, r, l)
      BY <2>2 DEF Mirror
    <3>2. HasListener(b, l) /\ Held(b, l) = binds[b][l] /\ stagedRoutes[k][l] = {}
      BY <1>1, <2>2, StagedFacts
    <3>3. \A c \in BindKey : Held(c, l) # None => c = b
      BY <2>2 DEF Mirror, OneParent
    <3> QED  BY <3>1, <3>2, <3>3 DEF HeldRoute, HasRoute
  <2> QED  BY <1>1, <2>1, <2>2 DEF HasRoute
<1>3. \A b \in BindKey : binds[b] # None <=> Has("Bind", b, None)
  BY DEF Mirror
<1>4. \A e : e \in LiveConfig <=> e \in Served!Serving(intent)
  BY <1>1, <1>2, <1>3, InLiveConfig, InServing
<1>5. LiveConfig = Served!Serving(intent)
  <2> DEFINE A == LiveConfig
             B == Served!Serving(intent)
  <2>1. \A e : e \in A <=> e \in B
    BY <1>4
  <2>2. A = B
    <3> HIDE DEF A, B
    <3> QED  BY <2>1
  <2> QED  BY <2>2
<1> QED  BY <1>5 DEF Serves

LEMMA OrderlyIsSpec == OrderlySpec => Spec
<1>1. DeliveryInit => Init
  BY DEF DeliveryInit
<1>2. [OrderlyNext]_allVars => [Next]_vars
  BY DEF OrderlyNext, OrderlyUpdate, OrderlyRemove, DeliverUpdate, DeliverRemove,
         Next, allVars, vars
<1> QED  BY <1>1, <1>2, PTL DEF OrderlySpec, Spec

LEMMA IntentTyped ==
  ASSUME OneNameEach
  PROVE  OrderlySpec => []IntentType
<1>1. DeliveryInit => IntentType
  BY DEF DeliveryInit, Init, IntentType
<1>2. TypeOK /\ IntentType /\ [OrderlyNext]_allVars => IntentType'
  <2> SUFFICES ASSUME TypeOK, IntentType, [OrderlyNext]_allVars
               PROVE  IntentType'
    OBVIOUS
  <2>0. resources \in [Name -> Resource \cup {None}]
    BY DEF TypeOK
  <2>1. ASSUME NEW m \in Push, DeliverUpdate(m)
        PROVE  IntentType'
    <3>1. /\ m.name \in Name /\ m # None
          /\ [kind |-> m.kind, key |-> m.key] # None
      BY PushTyped, NoneAssumption
    <3>2. \A n \in Name : resources'[n] = IF n = m.name THEN [kind |-> m.kind, key |-> m.key]
                                                        ELSE resources[n]
      BY <2>0, <2>1 DEF DeliverUpdate, Update
    <3>3. /\ intent' \in [Name -> Push \cup {None}]
          /\ \A n \in Name : intent'[n] = intent[n] \/ (n = m.name /\ intent'[n] = m)
      BY <2>1, <3>1 DEF DeliverUpdate, IntentType
    <3>4. \A n \in Name : intent'[n] # None => intent'[n].name = n /\ resources'[n] # None
      BY <3>1, <3>2, <3>3 DEF IntentType
    <3>5. ASSUME NEW n \in Name, resources'[n] # None
          PROVE  \E q \in Push : q.name = n /\ resources'[n] = [kind |-> q.kind, key |-> q.key]
      BY <3>2, <3>5 DEF IntentType
    <3> QED  BY <3>3, <3>4, <3>5 DEF IntentType
  <2>2. ASSUME NEW n \in Name, DeliverRemove(n)
        PROVE  IntentType'
    <3>1. /\ \A i \in Name : resources'[i] = IF i = n THEN None ELSE resources[i]
          /\ \A i \in Name : intent'[i] = IF i = n THEN None ELSE intent[i]
          /\ intent' \in [Name -> Push \cup {None}]
      BY <2>0, <2>2 DEF DeliverRemove, Remove, IntentType
    <3> QED  BY <3>1 DEF IntentType
  <2>3. CASE UNCHANGED allVars
    BY <2>3 DEF allVars, vars, IntentType
  <2> QED  BY <2>1, <2>2, <2>3 DEF OrderlyNext, OrderlyUpdate, OrderlyRemove
<1> QED  BY <1>1, <1>2, OrderlyIsSpec, TypeCorrect, PTL DEF OrderlySpec

LEMMA UpdateMirror ==
  ASSUME OneNameEach, IntentType, StagingInv, Mirror, NEW m \in Push,
         m.converts, OrderlyUpdate(m)
  PROVE  Mirror'
<1>1. /\ intent' = [intent EXCEPT ![m.name] = m] /\ Insert(m)
      /\ m.kind = "Listener" =>
           /\ HasListener(m.parent, m.key) => binds[m.parent][m.key]["TcpRoute"] = {}
           /\ stagedListeners[m.parent][m.key] \in {None, NoRoutes}
  BY DEF OrderlyUpdate, DeliverUpdate, Update
<1>2. \A k, key, p : Has(k, key, p)'
        <=> Has(k, key, p) \/ (k = m.kind /\ key = m.key /\ p = m.parent)
  BY <1>1, AcceptHas
<1>3. CASE m.kind = "Bind" /\ InsertXdsBind(m.key)
  BY <1>2, <1>3, PushTyped, BindParent, BindMirror
<1>4. CASE m.kind = "Listener" /\ InsertListener(m.key, m.parent)
  BY <1>1, <1>2, <1>4, PushTyped, ListenerMirror
<1>5. CASE m.kind \in RouteKind /\ InsertRoute(m.kind, m.key, m.parent)
  BY <1>2, <1>5, PushTyped, RouteMirror
<1>6. CASE m.kind \in {"Policy", "Backend"} /\ UNCHANGED treeVars
  BY <1>2, <1>6 DEF treeVars, Mirror, Held, HeldRoute, RouteKind
<1> QED  BY <1>1, <1>3, <1>4, <1>5, <1>6 DEF Insert

LEMMA RemoveMirror ==
  ASSUME OneNameEach, IntentType, StagingInv, Mirror, NEW n \in Name, OrderlyRemove(n)
  PROVE  Mirror'
<1>1. /\ resources[n] # None /\ Drop(resources[n])
      /\ intent' = [intent EXCEPT ![n] = None]
      /\ intent[n] # None => IsLive(intent[n]) /\ ~HasChild(intent[n])
  BY DEF OrderlyRemove, DeliverRemove, Remove
<1>2. PICK m \in Push : m.name = n /\ resources[n] = [kind |-> m.kind, key |-> m.key]
  BY <1>1 DEF IntentType
<1>3. \A k, key, p : Has(k, key, p)' <=> Has(k, key, p) /\ ~(k = m.kind /\ key = m.key)
  BY <1>1, <1>2, WithdrawHas
<1>4. OneParent
  BY ParentIsOne
<1>5. \A p : Has(m.kind, m.key, p) =>
        /\ intent[n] # None /\ intent[n].kind = m.kind /\ intent[n].key = m.key
        /\ IsLive(intent[n]) /\ ~HasChild(intent[n])
  BY <1>1, <1>2, HasKey
<1>6. \A k, key, p : Has(k, key, p) =>
        \E c \in Served!Accepted(intent) : c.kind = k /\ c.key = key /\ c.parent = p
  BY DEF Has, Served!Accepted
<1>7. CASE m.kind = "Bind" /\ RemoveBind(m.key)
  <2>1. m.key \in BindKey
    BY <1>7, PushTyped
  <2>2. ASSUME binds[m.key] # None, NEW l, Has("Listener", l, m.key)
        PROVE  FALSE
    <3>1. Has("Bind", m.key, None)
      BY <2>1, <2>2 DEF Mirror
    <3>2. ~HasChild(intent[n]) /\ intent[n].kind = "Bind" /\ intent[n].key = m.key
      BY <1>5, <1>7, <3>1
    <3> QED  BY <1>6, <2>2, <3>2 DEF HasChild
  <2> QED  BY <1>3, <1>7, <2>1, <2>2, DropBindMirror
<1>8. CASE m.kind = "Listener" /\ RemoveListener(m.key)
  <2>1. m.key \in ListenerKey
    BY <1>8, PushTyped
  <2>2. ASSUME NEW b, Has("Listener", m.key, b)
        PROVE  LiveListener(m.key) /\ \A k \in RouteKind : \A r : ~Has(k, r, m.key)
    <3>1. /\ intent[n].kind = "Listener" /\ intent[n].key = m.key
          /\ IsLive(intent[n]) /\ ~HasChild(intent[n])
      BY <1>5, <1>8, <2>2
    <3>2. LiveListener(m.key)
      BY <3>1, LiveEntries DEF IsLive, RouteKind
    <3>3. \A k \in RouteKind : \A r : ~Has(k, r, m.key)
      BY <1>6, <3>1 DEF HasChild
    <3> QED  BY <3>2, <3>3
  <2> QED  BY <1>3, <1>4, <1>8, <2>1, <2>2, DropListenerMirror
<1>9. CASE m.kind \in RouteKind /\ RemoveRoute(m.kind, m.key)
  <2>1. m.key \in RouteKey
    BY <1>9, PushTyped
  <2>2. ASSUME NEW l, Has(m.kind, m.key, l)
        PROVE  LiveRoute(m.kind, m.key)
    <3>1. /\ intent[n].kind = m.kind /\ intent[n].key = m.key
          /\ IsLive(intent[n])
      BY <1>5, <2>2
    <3> QED  BY <1>9, <3>1, LiveEntries DEF IsLive, RouteKind
  <2> QED  BY <1>3, <1>4, <1>9, <2>1, <2>2, DropRouteMirror
<1>10. CASE m.kind \in {"Policy", "Backend"} /\ UNCHANGED treeVars
  BY <1>3, <1>10 DEF treeVars, Mirror, Held, HeldRoute, RouteKind
<1>11. /\ resources[n].kind = m.kind /\ resources[n].key = m.key
  BY <1>2
<1> QED  BY <1>1, <1>11, <1>7, <1>8, <1>9, <1>10 DEF Drop

IntentInv == IntentType /\ StagingInv /\ Mirror

LEMMA MirrorInvariant ==
  ASSUME OneNameEach
  PROVE  OrderlySpec => []IntentInv
<1>1. DeliveryInit => Mirror
  BY DEF DeliveryInit, Init, Mirror, Held, HeldRoute, Has, NoListeners
<1>2. IntentType /\ StagingInv /\ Mirror /\ [OrderlyNext]_allVars => Mirror'
  <2> SUFFICES ASSUME IntentType, StagingInv, Mirror, [OrderlyNext]_allVars
               PROVE  Mirror'
    OBVIOUS
  <2>1. CASE UNCHANGED <<intent, treeVars>>
    BY <2>1 DEF treeVars, Mirror, Held, HeldRoute, Has
  <2>2. ASSUME NEW m \in Push, OrderlyUpdate(m) PROVE Mirror'
    <3>1. CASE ~m.converts
      BY <2>1, <2>2, <3>1 DEF OrderlyUpdate, DeliverUpdate, Update, Insert
    <3>2. CASE m.converts
      BY <2>2, <3>2, UpdateMirror
    <3> QED  BY <3>1, <3>2
  <2>3. ASSUME NEW n \in Name, OrderlyRemove(n) PROVE Mirror'
    BY <2>3, RemoveMirror
  <2>4. UNCHANGED allVars => UNCHANGED <<intent, treeVars>>
    BY DEF allVars, vars
  <2> QED  BY <2>1, <2>2, <2>3, <2>4 DEF OrderlyNext
<1> QED  BY <1>1, <1>2, OrderlyIsSpec, IntentTyped, StagingInvariant, PTL DEF OrderlySpec, IntentInv

(* Fed in order, the store implements ServedConfig: each step serves       *)
(* exactly the accepted resources all of whose parents are accepted, so    *)
(* nothing is lost in staging and nothing outlives its removal.            *)
THEOREM StoreServesIntent == OrderlySpec => ServesIntent
<1> SUFFICES ASSUME OneNameEach PROVE OrderlySpec => ServesIntent
  BY DEF OrderlySpec
<1>1. DeliveryInit => Served!Init
  BY InLiveConfig DEF DeliveryInit, Init, Served!Init, HasListener, HasRoute
<1>2. IntentInv => Serves
  BY ParentIsOne, MirrorServes DEF IntentInv
<1>3. Serves' /\ [OrderlyNext]_allVars => [Served!Next]_(Served!vars)
  <2> SUFFICES ASSUME Serves', [OrderlyNext]_allVars
               PROVE  [Served!Next]_(Served!vars)
    OBVIOUS
  <2>1. LiveConfig' = Served!Serving(intent')
    BY DEF Serves
  <2>2. CASE UNCHANGED <<intent, binds>>
    BY <2>2 DEF Served!vars, LiveConfig, HasListener, HasRoute
  <2>3. ASSUME NEW m \in Push, OrderlyUpdate(m) PROVE [Served!Next]_(Served!vars)
    <3>1. CASE m.converts
      <4>1. Served!Accept(m)
        BY <2>1, <2>3, <3>1 DEF OrderlyUpdate, DeliverUpdate, Served!Accept
      <4> QED  BY <4>1 DEF Served!Next
    <3>2. CASE ~m.converts
      BY <2>2, <2>3, <3>2 DEF OrderlyUpdate, DeliverUpdate, Update, Insert, treeVars
    <3> QED  BY <3>1, <3>2
  <2>4. ASSUME NEW n \in Name, OrderlyRemove(n) PROVE [Served!Next]_(Served!vars)
    <3>1. Served!Withdraw(n)
      BY <2>1, <2>4 DEF OrderlyRemove, DeliverRemove, Served!Withdraw
    <3> QED  BY <3>1 DEF Served!Next
  <2>5. UNCHANGED allVars => UNCHANGED <<intent, binds>>
    BY DEF allVars, vars, treeVars
  <2> QED  BY <2>2, <2>3, <2>4, <2>5 DEF OrderlyNext
<1> QED  BY <1>1, <1>2, <1>3, MirrorInvariant, PTL DEF OrderlySpec, ServesIntent, Served!Spec
=============================================================================
