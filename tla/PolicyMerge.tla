----------------------------- MODULE PolicyMerge ----------------------------
(* The policies of the configuration store, by key and by target, and the  *)
(* policies of a request, merged along the path of its route and backend.  *)
EXTENDS Naturals, Sequences, FiniteSets, Functions

CONSTANTS PolicyKey,
          PolicyTarget,  \* targets on one path (RouteLevels, BackendLevels), and others
          PolicyBody     \* [type, kind, empty]: what a policy may say

ASSUME PolicyKeyAssumption == IsFiniteSet(PolicyKey)

VARIABLES byKey,     \* policies_by_key: the policies that are set
          byTarget,  \* policies_by_target: a hash set of keys for each target
          order      \* the order in which the hash sets happen to be read

policyVars == <<byKey, byTarget, order>>

Orders == Bijection(1..Cardinality(PolicyKey), PolicyKey)

PolicyInit ==
  /\ byKey = << >>
  /\ byTarget = [t \in PolicyTarget |-> {}]
  /\ order \in Orders

-----------------------------------------------------------------------------
(* The store.                                                              *)

Detached(k) ==
  IF k \in DOMAIN byKey THEN [byTarget EXCEPT ![byKey[k].target] = @ \ {k}] ELSE byTarget

(* Store::insert_policy: the old target first, as it may have changed.     *)
(* The order is left alone: the properties are about one state each, and   *)
(* hold of every order.                                                    *)
InsertPolicy(k, t, body) ==
  /\ byKey' = [x \in DOMAIN byKey \cup {k} |->
                 IF x = k THEN [target |-> t, body |-> body] ELSE byKey[x]]
  /\ byTarget' = [Detached(k) EXCEPT ![t] = @ \cup {k}]
  /\ UNCHANGED order

RemovePolicy(k) ==
  /\ k \in DOMAIN byKey
  /\ byKey' = [x \in DOMAIN byKey \ {k} |-> byKey[x]]
  /\ byTarget' = Detached(k)
  /\ UNCHANGED order

PolicyNext ==
  \E k \in PolicyKey :
    RemovePolicy(k) \/ \E t \in PolicyTarget, body \in PolicyBody : InsertPolicy(k, t, body)

PolicySpec == PolicyInit /\ [][PolicyNext]_policyVars

-----------------------------------------------------------------------------
(* The policies of a request.                                              *)

(* The rules of the given type along a path, each at its place: that of    *)
(* its target, then that of its key where the target's hash set is read.   *)
(* A key that no longer has a policy is passed over.                       *)
PolicyAt(r) == order[r[2]]
ReadBefore(r, s) == r[1] < s[1] \/ (r[1] = s[1] /\ r[2] <= s[2])
Rules(targets, type) ==
  LET ofType == {j \in DOMAIN order :
                  order[j] \in DOMAIN byKey /\ byKey[order[j]].body.type = type}
  IN {r \in (DOMAIN targets) \X ofType :
        targets[r[1]] \in PolicyTarget /\ PolicyAt(r) \in byTarget[targets[r[1]]]}

OfKind(rules, kind) == {r \in rules : byKey[PolicyAt(r)].body.kind = kind}
PoliciesAt(rules) == {PolicyAt(r) : r \in rules}
Chosen(rules) == PoliciesAt({r \in rules : \A s \in rules : ReadBefore(r, s)})

(* get_or_insert: the first one of a kind is kept; a list that is empty    *)
(* counts as none ("request_mirror", "local_rate_limit"); "Authorization   *)
(* policies merge, unlike others".                                         *)
Merged(rules) ==
  [first |-> Chosen(OfKind(rules, "first")),
   list |-> Chosen({r \in OfKind(rules, "list") : ~byKey[PolicyAt(r)].body.empty}),
   authz |-> PoliciesAt(OfKind(rules, "authz"))]

RouteLevels == <<"rule", "route", "listener", "gateway">>
BackendLevels == <<"rule", "section", "route", "backend", "listener", "gateway">>

RoutePolicies == Merged(Rules(RouteLevels, "route"))
GatewayPolicies == Merged(Rules(<<"listener", "gateway">>, "gateway"))
BackendPolicies == Merged(Rules(BackendLevels, "backend"))
SubBackendPolicies == Merged(Rules(<<"section">>, "backend"))

(* BackendPolicies::merge: the second has precedence, kind by kind; its    *)
(* authorization replaces the other's.                                     *)
Or(a, b) == IF b = {} THEN a ELSE b
Overlaid(base, over) ==
  [first |-> Or(base.first, over.first), list |-> Or(base.list, over.list),
   authz |-> Or(base.authz, over.authz)]

(* The policies of a target of a backend with several: those of the        *)
(* backend, then the target's own.                                         *)
GroupLevels == <<"rule", "route", "backend", "listener", "gateway">>
TargetPolicies == Overlaid(Merged(Rules(GroupLevels, "backend")), SubBackendPolicies)

-----------------------------------------------------------------------------
(* Properties.                                                             *)

(* Every part of the state has its type, and the two maps tell of the same *)
(* policies: a key is at the target of its policy and nowhere else, also   *)
(* after an update that moves it.                                          *)
PolicyTypeOK ==
  /\ DOMAIN byKey \subseteq PolicyKey
  /\ order \in Orders
  /\ \A t \in PolicyTarget : byTarget[t] = {k \in DOMAIN byKey : byKey[k].target = t}

Applying(targets, type, kind) ==
  {k \in DOMAIN byKey : /\ byKey[k].target \in Range(targets)
                        /\ byKey[k].body.type = type /\ byKey[k].body.kind = kind}
Level(targets, k) == CHOOSE i \in DOMAIN targets : targets[i] = byKey[k].target

(* The choice among some policies is one of those at the nearest target:   *)
(* there is one whenever there is any.                                     *)
Nearest(targets, choice, among) ==
  /\ Cardinality(choice) = (IF among = {} THEN 0 ELSE 1)
  /\ choice \subseteq among
  /\ \A k \in choice, other \in among : Level(targets, k) <= Level(targets, other)

(* The same path with the target of several before all else.               *)
TargetLevels == <<"section", "rule", "route", "backend", "listener", "gateway">>

(* The policy of a kind that a request gets is that of the most specific   *)
(* object on its path, whatever the order in which hash sets are read; an  *)
(* empty list hides nothing.                                               *)
NearestWins ==
  /\ Nearest(RouteLevels, RoutePolicies.first, Applying(RouteLevels, "route", "first"))
  /\ Nearest(RouteLevels, RoutePolicies.list,
             {k \in Applying(RouteLevels, "route", "list") : ~byKey[k].body.empty})
  /\ Nearest(BackendLevels, BackendPolicies.first, Applying(BackendLevels, "backend", "first"))
  /\ Nearest(TargetLevels, TargetPolicies.first,
             Applying(BackendLevels, "backend", "first"))
  /\ Nearest(RouteLevels, GatewayPolicies.first,
             Applying(<<"listener", "gateway">>, "gateway", "first"))

(* No authorization policy on the path of a request is dropped in favour   *)
(* of a more specific one ("Authorization policies merge, unlike others"), *)
(* as far as one look-up goes.  Where a target of a backend with several   *)
(* is laid over its backend, rules of its own are all that is left; with   *)
(* none of its own, it gets all of the backend's.                          *)
AuthorizationAdds ==
  /\ RoutePolicies.authz = Applying(RouteLevels, "route", "authz")
  /\ BackendPolicies.authz = Applying(BackendLevels, "backend", "authz")
  /\ LET own == Applying(<<"section">>, "backend", "authz")
     IN TargetPolicies.authz =
          IF own # {} THEN own ELSE Applying(GroupLevels, "backend", "authz")

(* What the comments of the store say of every request, and what the code  *)
(* does not do for a target of a backend with several: its rules are added *)
(* to those of the levels around it.                                       *)
AuthorizationAlwaysAdds ==
  TargetPolicies.authz = Applying(TargetLevels, "backend", "authz")

(* A traffic policy applies in one phase only: what already applied before *)
(* the route was known does not apply again with the route's policies.     *)
PhasesAreApart ==
  LET keys(p) == p.first \cup p.list \cup p.authz
  IN /\ keys(RoutePolicies) \cap keys(GatewayPolicies) = {}
     /\ (keys(RoutePolicies) \cup keys(GatewayPolicies)) \cap keys(BackendPolicies) = {}

(* A request gets the policies of its path, each kind by its own rule.     *)
PoliciesConsistent ==
  /\ PolicyTypeOK
  /\ NearestWins
  /\ AuthorizationAdds
  /\ PhasesAreApart
=============================================================================
