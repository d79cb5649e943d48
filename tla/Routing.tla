------------------------------ MODULE Routing ------------------------------
(***************************************************************************)
(* Which listener, route and TCP route serve a request                     *)
(* (agentgateway/src/types/agent.rs, agentgateway/src/http/route.rs).      *)
(* A host is a sequence of labels and "*" may stand first in a pattern; a  *)
(* path is a sequence of segments.  A route set keeps, beside its routes,  *)
(* one sorted list of <<route, match>> entries for each host pattern, and  *)
(* finds the place of a new entry by a binary search that looks the other  *)
(* entries up and panics when it cannot ("corrupted state").               *)
(***************************************************************************)
EXTENDS Naturals, Sequences, FiniteSets, SequencesExt

CONSTANTS RouteKey,      \* keys of routes, compared as numbers
          Shape,         \* the routes: [hosts, matches]
          Pattern,       \* host patterns, Everywhere among them
          ListenerKey,   \* keys of listeners
          Request,       \* [host, path, method, headers, query]
          MaxEntries,    \* entries of a list the runs allow
          InPlace        \* routes may be changed under their key

Everywhere == <<>>       \* HostnameMatch::None, and a listener without a host
AnyMethod == "any"

ASSUME RouteKeyAssumption == RouteKey \subseteq Nat
ASSUME PatternAssumption ==
  Everywhere \in Pattern /\ \A r \in Shape : r.hosts \subseteq Pattern \ {Everywhere}

VARIABLES
  all,        \* RouteSet::all: key -> route
  routeTable,      \* RouteSet::inner: pattern -> sorted entries, <<>> if absent
  poisoned,   \* a panic under the store's write lock
  tcpAll,     \* TCPRouteSet::all: key -> its hosts
  tcpTable,   \* TCPRouteSet::inner: pattern -> sorted keys
  listeners   \* ListenerSet: key -> pattern

routeVars == <<all, routeTable, poisoned>>
tcpVars == <<tcpAll, tcpTable>>
routingVars == <<routeVars, tcpVars, listeners>>

(* Functions that lose or gain one key. *)
With(f, k, v) == [x \in DOMAIN f \cup {k} |-> IF x = k THEN v ELSE f[x]]
Without(f, k) == [x \in DOMAIN f \ {k} |-> f[x]]
Partial(f, K, V) == DOMAIN f \subseteq K /\ Range(f) \subseteq V

Entry == [key : RouteKey, index : Nat \ {0}]

RoutingTypeOK ==
  /\ Partial(all, RouteKey, Shape)
  /\ DOMAIN routeTable = Pattern
  /\ \A h \in Pattern : routeTable[h] \in Seq(Entry)
  /\ poisoned \in BOOLEAN
  /\ Partial(tcpAll, RouteKey, SUBSET Pattern)
  /\ DOMAIN tcpTable = Pattern
  /\ \A h \in Pattern : tcpTable[h] \in Seq(RouteKey)
  /\ Partial(listeners, ListenerKey, Pattern)

RoutingInit ==
  /\ all = <<>> /\ tcpAll = <<>> /\ listeners = <<>>
  /\ routeTable = [h \in Pattern |-> <<>>]
  /\ tcpTable = [h \in Pattern |-> <<>>]
  /\ poisoned = FALSE

-----------------------------------------------------------------------------
(* The order of matches. *)

Weight(m) == <<IF m.kind = "exact" THEN 1 ELSE 0,
               Len(m.path),
               IF m.method = AnyMethod THEN 0 ELSE 1,
               Cardinality(m.headers),
               Cardinality(m.query)>>

Heavier(v, w) ==
  \E i \in DOMAIN v : v[i] > w[i] /\ \A j \in 1..(i - 1) : v[j] = w[j]

Found(routes, e) == e.key \in DOMAIN routes /\ e.index \in DOMAIN routes[e.key].matches
MatchAt(routes, e) == routes[e.key].matches[e.index]

(* Entry e of a route comes before entry f. *)
Precedes(routes, e, f) ==
  LET v == Weight(MatchAt(routes, e))
      w == Weight(MatchAt(routes, f))
  IN Heavier(v, w) \/ (v = w /\ e.key < f.key)

Ties(routes, e, f) ==
  e.key = f.key /\ Weight(MatchAt(routes, e)) = Weight(MatchAt(routes, f))

(* Where a binary search may end: at an equal entry, or between a smaller  *)
(* and a greater one.  In a list that is sorted no other place fits.       *)
Places(routes, list, e) ==
  {p \in 1..(Len(list) + 1) :
     \/ p <= Len(list) /\ Found(routes, list[p]) /\ Ties(routes, list[p], e)
     \/ /\ p > 1 => Found(routes, list[p - 1]) /\ Precedes(routes, list[p - 1], e)
        /\ p <= Len(list) => Found(routes, list[p]) /\ Precedes(routes, e, list[p])}

(* The lists that may result from inserting all the matches of route k. *)
Inserted(routes, list, k) ==
  LET after[n \in Nat] ==
        IF n = 0 THEN {list}
        ELSE UNION {{InsertAt(l, p, [key |-> k, index |-> n]) :
                       p \in Places(routes, l, [key |-> k, index |-> n])} :
                     l \in after[n - 1]}
  IN after[Len(routes[k].matches)]

HostnameMatchers(hosts) == IF hosts = {} THEN {Everywhere} ELSE hosts

Room(t, hosts, n) == \A h \in HostnameMatchers(hosts) : Len(t[h]) + n <= MaxEntries

-----------------------------------------------------------------------------
(* RouteSet *)

(* A route is new, sent again, or (InPlace) changed under its key.  The    *)
(* search may probe an entry that no longer names a match: it panics.      *)
InsertRoute(k, r) ==
  LET hosts == HostnameMatchers(r.hosts)
      dangles == \E h \in hosts : \E i \in DOMAIN routeTable[h] :
                   ~Found(With(all, k, r), routeTable[h][i])
      lists == [h \in hosts |-> Inserted(With(all, k, r), routeTable[h], k)]
  IN /\ ~poisoned
     /\ k \in DOMAIN all /\ ~InPlace => all[k] = r
     /\ Room(routeTable, r.hosts, Len(r.matches))
     /\ all' = With(all, k, r)
     /\ poisoned' \in {FALSE, dangles}
     /\ IF poisoned' THEN UNCHANGED routeTable
        ELSE \E new \in [hosts -> UNION Range(lists)] :
               /\ \A h \in hosts : new[h] \in lists[h]
               /\ routeTable' = new @@ routeTable
     /\ UNCHANGED <<tcpVars, listeners>>

RemoveRoute(k) ==
  /\ ~poisoned /\ k \in DOMAIN all
  /\ all' = Without(all, k)
  /\ routeTable' = [h \in Pattern |->
                 IF h \in HostnameMatchers(all[k].hosts)
                 THEN SelectSeq(routeTable[h], LAMBDA e : e.key # k)
                 ELSE routeTable[h]]
  /\ UNCHANGED <<poisoned, tcpVars, listeners>>

(* RouteSet::get_hostname drops the entries of routes that are gone. *)
GetHostname(h) == SelectSeq(routeTable[h], LAMBDA e : e.key \in DOMAIN all)

-----------------------------------------------------------------------------
(* TCPRouteSet: only the first key of a list is ever used. *)

TcpPlaces(list, k) ==
  {p \in 1..(Len(list) + 1) :
     \/ p <= Len(list) /\ list[p] = k
     \/ (p > 1 => list[p - 1] < k) /\ (p <= Len(list) => k < list[p])}

InsertTcpRoute(k, hosts) ==
  LET in == HostnameMatchers(hosts)
      dangles == \E h \in in : ~(Range(tcpTable[h]) \subseteq DOMAIN tcpAll \cup {k})
  IN /\ ~poisoned
     /\ k \in DOMAIN tcpAll /\ ~InPlace => tcpAll[k] = hosts
     /\ Room(tcpTable, hosts, 1)
     /\ tcpAll' = With(tcpAll, k, hosts)
     /\ poisoned' \in {FALSE, dangles}
     /\ IF poisoned' THEN UNCHANGED tcpTable
        ELSE \E at \in [in -> 1..MaxEntries] :
               /\ \A h \in in : at[h] \in TcpPlaces(tcpTable[h], k)
               /\ tcpTable' = [h \in in |-> InsertAt(tcpTable[h], at[h], k)] @@ tcpTable
     /\ UNCHANGED <<all, routeTable, listeners>>

RemoveTcpRoute(k) ==
  /\ ~poisoned /\ k \in DOMAIN tcpAll
  /\ tcpAll' = Without(tcpAll, k)
  /\ tcpTable' = [h \in Pattern |->
                    IF h \in HostnameMatchers(tcpAll[k])
                    THEN SelectSeq(tcpTable[h], LAMBDA x : x # k)
                    ELSE tcpTable[h]]
  /\ UNCHANGED <<routeVars, listeners>>

InsertListener(k, h) ==
  /\ ~poisoned
  /\ listeners' = With(listeners, k, h)
  /\ UNCHANGED <<routeVars, tcpVars>>

RemoveListener(k) ==
  /\ ~poisoned /\ k \in DOMAIN listeners
  /\ listeners' = Without(listeners, k)
  /\ UNCHANGED <<routeVars, tcpVars>>

-----------------------------------------------------------------------------
(* The selection for a request. *)

(* HostnameMatch::all_matches: the host, its wildcards from the longest,   *)
(* everywhere.                                                             *)
Wildcards(host) == [i \in 1..(Len(host) - 1) |-> <<"*">> \o SubSeq(host, i + 1, Len(host))]
AllMatches(host) ==
  (IF Head(host) = "*" THEN <<>> ELSE <<host>>) \o Wildcards(host) \o <<Everywhere>>

(* A regular expression is a path with "*" for any one segment.            *)
PathMatches(m, path) ==
  CASE m.kind = "exact" -> path = m.path
    [] m.kind = "prefix" -> IsPrefix(m.path, path)
    [] m.kind = "regex" -> /\ Len(path) = Len(m.path)
                           /\ \A i \in DOMAIN path : m.path[i] \in {"*", path[i]}

Matches(m, q) ==
  /\ PathMatches(m, q.path)
  /\ m.method \in {AnyMethod, q.method}
  /\ m.headers \subseteq q.headers
  /\ m.query \subseteq q.query

(* What a service reached through its address says of its waypoint.        *)
Waypoint == {"none", "us", "other", "address", "address unknown"}

NoRoute == [key |-> 0, index |-> 0]
WaypointDefault == [key |-> 0, index |-> 1]

(* The first entry, by hostname and then by the order of its list.         *)
FirstMatch(q, host) ==
  LET known == SelectSeq(AllMatches(host), LAMBDA h : h \in Pattern)
      entries == FlattenSeq([i \in DOMAIN known |-> GetHostname(known[i])])
      hits == SelectSeq(entries, LAMBDA e : Matches(MatchAt(all, e), q))
  IN IF hits = <<>> THEN NoRoute ELSE Head(hits)

SelectRoute(q) == FirstMatch(q, q.host)

(* On an HBONE listener the host is the service's, once it is ours.        *)
SelectWaypointRoute(q, waypoint) ==
  LET found == FirstMatch(q, q.host)
  IN IF waypoint \in {"none", "other", "address unknown"} THEN NoRoute
     ELSE IF found = NoRoute THEN WaypointDefault ELSE found

SelectTcpRoute(host) ==
  LET some == SelectSeq(AllMatches(host), LAMBDA h : h \in Pattern /\ tcpTable[h] # <<>>)
      key == Head(tcpTable[Head(some)])
  IN IF some # <<>> /\ key \in DOMAIN tcpAll THEN key ELSE 0

(* The listeners a host may get: their order is that of a hash map.        *)
Covers(h, host) ==
  h # Everywhere /\ h[1] = "*" /\ Len(h) <= Len(host) /\ IsSuffix(Tail(h), host)
(* A defect: any wildcard. *)
BestMatchAny(host) ==
  LET some == {k \in DOMAIN listeners : Covers(listeners[k], host) \/ listeners[k] = host}
  IN IF some # {} THEN some ELSE {k \in DOMAIN listeners : listeners[k] = Everywhere}
BestMatch(host) ==
  LET exact == {k \in DOMAIN listeners : listeners[k] = host}
      wild == {k \in DOMAIN listeners : Covers(listeners[k], host)}
      open == {k \in DOMAIN listeners : listeners[k] = Everywhere}
  IN IF exact # {} THEN exact
     ELSE IF wild # {}
     THEN {k \in wild : \A j \in wild : Len(listeners[j]) <= Len(listeners[k])}
     ELSE open

GetExactlyOne == IF Cardinality(DOMAIN listeners) = 1 THEN DOMAIN listeners ELSE {}

-----------------------------------------------------------------------------
(* What the selection promises. *)

(* How closely a pattern fits a host: 0 not at all, 1 everywhere.          *)
Closeness(h, host) ==
  IF h = Everywhere THEN 1
  ELSE IF h = host /\ h[1] # "*" THEN Len(h) + 2
  ELSE IF h[1] = "*" /\ Len(h) <= Len(host) /\ IsSuffix(Tail(h), host) THEN Len(h) + 1
  ELSE 0

Candidates(q) ==
  {c \in [host : Pattern, key : DOMAIN all, index : 1..MaxEntries] :
     /\ c.host \in HostnameMatchers(all[c.key].hosts)
     /\ Closeness(c.host, q.host) > 0
     /\ c.index \in DOMAIN all[c.key].matches
     /\ Matches(all[c.key].matches[c.index], q)}

Better(q, c, d) ==
  \/ Closeness(c.host, q.host) > Closeness(d.host, q.host)
  \/ /\ c.host = d.host
     /\ Precedes(all, c, d)

(* A request gets the match that the documented order puts first: the host *)
(* named most closely, then an exact path, the longer path, a method, more *)
(* headers, more query parameters, the smaller key; none only if no match  *)
(* of any route applies.  However often routes were added, sent again and  *)
(* removed.  A service bound to this waypoint falls back to the default    *)
(* route.                                                                  *)
SelectionIsBest ==
  ~poisoned =>
    \A q \in Request :
      LET s == SelectRoute(q)
          fit == Candidates(q)
      IN /\ SelectWaypointRoute(q, "us") = IF s = NoRoute THEN WaypointDefault ELSE s
         /\ s = NoRoute <=> fit = {}
         /\ fit # {} => \E c \in fit : /\ c.key = s.key /\ c.index = s.index
                                       /\ \A d \in fit : ~Better(q, d, c)

(* Every list holds the entries of the routes that exist, and only those:  *)
(* no entry outlives its route, and the look-ups of the next search and of *)
(* a request find what they index.                                         *)
EntriesAreLive ==
  \A h \in Pattern :
    Range(routeTable[h]) = UNION {{[key |-> k, index |-> i] : i \in DOMAIN all[k].matches} :
                               k \in {k \in DOMAIN all : h \in HostnameMatchers(all[k].hosts)}}

(* A connection gets the TCP route of the smallest key among those that    *)
(* name its host most closely.                                             *)
TcpSelectionIsBest ==
  ~poisoned =>
    \A q \in Request :
      LET close(k) == {Closeness(h, q.host) : h \in HostnameMatchers(tcpAll[k])} \ {0}
          fit == {k \in DOMAIN tcpAll : close(k) # {}}
          best == {k \in fit : \E n \in close(k) : \A j \in fit : \A m \in close(j) : m <= n}
      IN SelectTcpRoute(q.host) =
           IF best = {} THEN 0 ELSE CHOOSE k \in best : \A j \in best : k <= j

(* The listener of a host is one that names it, whenever one does, and the *)
(* one that names it most closely.                                         *)
ListenerIsClosest ==
  \A q \in Request :
    LET fit(k) == Closeness(listeners[k], q.host)
        fitting == {k \in DOMAIN listeners : fit(k) > 0}
    IN BestMatch(q.host) = {k \in fitting : \A j \in fitting : fit(j) <= fit(k)}

(* The sorted tables hold what was inserted, and the first that matches in *)
(* them is the best.                                                       *)
SelectionConsistent ==
  /\ RoutingTypeOK
  /\ SelectionIsBest
  /\ EntriesAreLive
  /\ TcpSelectionIsBest
  /\ ListenerIsClosest

(* What a request that walks a list relies on ("corrupted state"): an entry *)
(* of a route that exists names one of its matches.                         *)
LookupsSucceed ==
  \A h \in Pattern : \A e \in Range(GetHostname(h)) : Found(all, e)

RouteSetNext ==
  \/ \E k \in RouteKey, r \in Shape : InsertRoute(k, r)
  \/ \E k \in RouteKey : RemoveRoute(k)

TcpRouteSetNext ==
  \/ \E k \in RouteKey, r \in Shape : InsertTcpRoute(k, r.hosts)
  \/ \E k \in RouteKey : RemoveTcpRoute(k)

ListenerSetNext ==
  \/ \E k \in ListenerKey, h \in Pattern : InsertListener(k, h)
  \/ \E k \in ListenerKey : RemoveListener(k)

RoutingNext == RouteSetNext \/ TcpRouteSetNext \/ ListenerSetNext

RoutingSpec == RoutingInit /\ [][RoutingNext]_routingVars
=============================================================================
