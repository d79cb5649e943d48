------------------------------ MODULE DnsCache ------------------------------
(* The cached resolver, for one name: callers share an entry that a        *)
(* background task refreshes until nobody asks for the name any more.      *)
EXTENDS Naturals, FiniteSets

CONSTANTS Resolve,     \* callers of CachedResolver::resolve
          Address,     \* what a lookup may answer
          DnsEntry,    \* cache entries, reused once nobody holds them
          NoDns

ASSUME NoDnsAssumption == NoDns \notin DnsEntry

VARIABLES dnsCache,   \* the entry of the name in the map, if any
          dns,        \* each entry, and where its background task is
          resolve     \* each caller

dnsVars == <<dnsCache, dns, resolve>>

Vacant == [active |-> FALSE, stored |-> FALSE, ips |-> {}, task |-> "none"]
Away == [phase |-> "away", entry |-> NoDns, notified |-> FALSE]

DnsInit ==
  /\ dnsCache = NoDns
  /\ dns = [e \in DnsEntry |-> Vacant]
  /\ resolve = [r \in Resolve |-> Away]

-----------------------------------------------------------------------------
(* The callers.                                                            *)

(* Under the map's lock: the entry of the name, marked as active, or a new *)
(* one with its background task.                                           *)
Ask(r) ==
  /\ resolve[r].phase = "away"
  /\ \E e \in DnsEntry :
       /\ IF dnsCache # NoDns
          THEN e = dnsCache /\ dns' = [dns EXCEPT ![e].active = TRUE]
          ELSE dns[e] = Vacant /\ dns' = [dns EXCEPT ![e].task = "spawned"]
       /\ dnsCache' = e
       /\ resolve' = [resolve EXCEPT ![r] = [phase |-> "asked", entry |-> e, notified |-> FALSE]]

(* CacheEntry::next marks the entry as active.                             *)
MarkActive(r) ==
  /\ resolve[r].phase = "asked"
  /\ dns' = [dns EXCEPT ![resolve[r].entry].active = TRUE]
  /\ resolve' = [resolve EXCEPT ![r].phase = "marked"]
  /\ UNCHANGED dnsCache

(* It listens before it loads: what is stored in between wakes it.         *)
Listen(r) ==
  /\ resolve[r].phase = "marked"
  /\ resolve' = [resolve EXCEPT ![r].phase = "listening"]
  /\ UNCHANGED <<dnsCache, dns>>

(* Mutant of Hears: a caller is woken only once it awaits.                 *)
HearsAwaiting(r, e) == resolve[r].entry = e /\ resolve[r].phase = "waiting"
(* notify_waiters wakes every future made before it, polled or not.        *)
Hears(r, e) == resolve[r].entry = e /\ resolve[r].phase \in {"listening", "missed", "waiting"}

(* The stored addresses in turn, none if there are none; or a wait.        *)
LoadAddress(r) ==
  /\ resolve[r].phase = "listening"
  /\ resolve' = [resolve EXCEPT ![r] = IF dns[@.entry].stored THEN Away
                                       ELSE [@ EXCEPT !.phase = "missed"]]
  /\ UNCHANGED <<dnsCache, dns>>

Await(r) ==
  /\ resolve[r].phase = "missed"
  /\ resolve' = [resolve EXCEPT ![r].phase = "waiting"]
  /\ UNCHANGED <<dnsCache, dns>>

(* A woken caller answers with what it finds, or with "no ip".             *)
Wake(r) ==
  /\ resolve[r].phase = "waiting" /\ resolve[r].notified
  /\ resolve' = [resolve EXCEPT ![r] = Away]
  /\ UNCHANGED <<dnsCache, dns>>

(* The caller goes away.                                                   *)
Leave(r) ==
  /\ resolve[r].phase # "away"
  /\ resolve' = [resolve EXCEPT ![r] = Away]
  /\ UNCHANGED <<dnsCache, dns>>

-----------------------------------------------------------------------------
(* The background task of an entry.                                        *)

Start(e) ==
  /\ dns[e].task = "spawned"
  /\ dns' = [dns EXCEPT ![e] = [@ EXCEPT !.active = TRUE, !.task = "checking"]]
  /\ UNCHANGED <<dnsCache, resolve>>

AfterCheck(e) == IF dns[e].active THEN "looking" ELSE "removing"

(* Has anyone asked since the last refresh? The mark is taken back.        *)
CheckActive(e) ==
  /\ dns[e].task = "checking"
  /\ dns' = [dns EXCEPT ![e] = [@ EXCEPT !.active = FALSE, !.task = AfterCheck(e)]]
  /\ UNCHANGED <<dnsCache, resolve>>

(* The entry leaves the map by name, and the task ends.                    *)
RemoveName(e) ==
  /\ dns[e].task = "removing"
  /\ dnsCache' = NoDns
  /\ dns' = [dns EXCEPT ![e].task = "ended"]
  /\ UNCHANGED resolve

(* The addresses are stored, or none when the lookup fails.                *)
LookedUp(e) ==
  /\ dns[e].task = "looking"
  /\ \E ips \in SUBSET Address :
       dns' = [dns EXCEPT ![e] = [@ EXCEPT !.ips = ips, !.stored = TRUE, !.task = "stored"]]
  /\ UNCHANGED <<dnsCache, resolve>>

Notify(e) ==
  /\ dns[e].task = "stored"
  /\ resolve' = [r \in Resolve |-> [resolve[r] EXCEPT !.notified = @ \/ Hears(r, e)]]
  /\ dns' = [dns EXCEPT ![e].task = "sleeping"]
  /\ UNCHANGED dnsCache

(* The addresses expire, no sooner than the least time to live.            *)
Expire(e) ==
  /\ dns[e].task = "sleeping"
  /\ dns' = [dns EXCEPT ![e].task = "checking"]
  /\ UNCHANGED <<dnsCache, resolve>>

(* An entry that nobody holds is dropped.                                  *)
DropEntry(e) ==
  /\ dns[e].task = "ended" /\ dnsCache # e /\ \A r \in Resolve : resolve[r].entry # e
  /\ dns' = [dns EXCEPT ![e] = Vacant]
  /\ UNCHANGED <<dnsCache, resolve>>

ResolveStep(r) == MarkActive(r) \/ Listen(r) \/ LoadAddress(r) \/ Await(r) \/ Wake(r)
Background(e) ==
  Start(e) \/ CheckActive(e) \/ RemoveName(e) \/ LookedUp(e) \/ Notify(e) \/ Expire(e) \/ DropEntry(e)

DnsNext ==
  \/ \E r \in Resolve : Ask(r) \/ ResolveStep(r) \/ Leave(r)
  \/ \E e \in DnsEntry : Background(e)

(* Tasks run, a lookup ends by its own timeout, and a time to live passes. *)
DnsFairness ==
  /\ \A r \in Resolve : WF_dnsVars(ResolveStep(r))
  /\ \A e \in DnsEntry : WF_dnsVars(Background(e))

DnsSpec == DnsInit /\ [][DnsNext]_dnsVars /\ DnsFairness

-----------------------------------------------------------------------------
(* Properties.                                                             *)

(* Every part of the state has its type; there are no addresses before a   *)
(* lookup has ended.                                                       *)
DnsTypeOK ==
  /\ dnsCache \in DnsEntry \cup {NoDns}
  /\ dns \in [DnsEntry -> [active : BOOLEAN, stored : BOOLEAN, ips : SUBSET Address,
                           task : {"none", "spawned", "checking", "looking", "stored",
                                   "sleeping", "removing", "ended"}]]
  /\ \A e \in DnsEntry : dns[e].ips # {} => dns[e].stored
  /\ resolve \in [Resolve -> [phase : {"away", "asked", "marked", "listening", "missed", "waiting"},
                              entry : DnsEntry \cup {NoDns}, notified : BOOLEAN]]

(* The entry that callers find is the one whose task still refreshes it,   *)
(* and no other task refreshes the name: a task that ends takes its own    *)
(* entry out of the map first, and only its own, although it removes by    *)
(* name.                                                                   *)
FoundIsRefreshed ==
  \A e \in DnsEntry : dns[e].task \notin {"none", "ended"} <=> dnsCache = e

(* A caller that waits is the concern of a task that has yet to store its  *)
(* first answer, or has woken it already: an entry is never removed under  *)
(* a caller that waits for it.                                             *)
WaitersAreHeard ==
  \A r \in Resolve :
    resolve[r].phase = "waiting" /\ ~resolve[r].notified =>
      dns[resolve[r].entry].task \in {"spawned", "checking", "looking", "stored"}

(* The map, the tasks of its names and those who wait agree.               *)
NamesRefreshed ==
  /\ DnsTypeOK
  /\ FoundIsRefreshed
  /\ WaitersAreHeard

(* Every caller gets an answer, of the first lookup too, failed or not     *)
(* ("this will run even on error, so the first fetch for a failed response *)
(* will hit this and not block").                                          *)
ResolveReturns == \A r \in Resolve : resolve[r].phase # "away" ~> resolve[r].phase = "away"

(* A name that nobody asks for leaves the cache.                           *)
UnusedLeaves == []<>(dnsCache = NoDns \/ \E r \in Resolve : resolve[r].phase # "away")
=============================================================================
