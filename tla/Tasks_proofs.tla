---------------------------- MODULE Tasks_proofs ----------------------------
(***************************************************************************)
(* Proofs about the background tasks: the reload of the local file, the    *)
(* workload certificate, the resolver's cache, what is remembered of       *)
(* finished requests, and the task router's plans.                         *)
(***************************************************************************)
EXTENDS Knowledge, Certificates, DnsCache, LocalReload, TaskRouter, Integers,
        FiniteSetTheorems, WellFoundedInduction, TLAPS

-----------------------------------------------------------------------------
(***************************************************************************)
(* LocalReload, for any items, workloads, unparsable workloads and number  *)
(* of edits.                                                               *)
(***************************************************************************)

LEMMA ReloadTypes == ReloadSpec => []ReloadTypeOK
<1>1. ReloadInit => ReloadTypeOK
  <2> SUFFICES ASSUME ReloadInit PROVE ReloadTypeOK
    OBVIOUS
  <2>1. file \in Files
    BY DEF ReloadInit, Files
  <2>2. loader \in [phase : {"watching", "reading", "discovery", "stopped"}, read : Files,
                    first : BOOLEAN]
    BY <2>1 DEF ReloadInit
  <2>3. edits \in 0..MaxEdits
    BY EditsAssumption DEF ReloadInit
  <2>4. prev \in [items : SUBSET Item, wls : SUBSET Wl] /\ partial = prev
    BY DEF ReloadInit, Nothing
  <2> QED  BY <2>1, <2>2, <2>3, <2>4 DEF ReloadInit, ReloadTypeOK
<1>2. ReloadTypeOK /\ [ReloadNext]_reloadVars => ReloadTypeOK'
  <2> SUFFICES ASSUME ReloadTypeOK, [ReloadNext]_reloadVars PROVE ReloadTypeOK'
    OBVIOUS
  <2> USE DEF ReloadTypeOK
  <2>1. CASE Edit
    BY <2>1, EditsAssumption DEF Edit
  <2>2. CASE ReadFile
    BY <2>2 DEF ReadFile
  <2>3. CASE ParseFails
    BY <2>3 DEF ParseFails, Ended
  <2>4. CASE SyncBinds
    BY <2>4 DEF SyncBinds, Synced, Files
  <2>5. CASE SyncDiscovery
    <3>1. loader' = [loader EXCEPT !.phase = "watching", !.first = FALSE]
      BY <2>5 DEF SyncDiscovery, Ended
    <3>2. prev' \in [items : SUBSET Item, wls : SUBSET Wl]
      BY <2>5 DEF SyncDiscovery, Kept, Files
    <3>3. discovery' \subseteq Wl
      BY <2>5 DEF SyncDiscovery, Synced, Files
    <3> QED  BY <2>5, <3>1, <3>2, <3>3 DEF SyncDiscovery
  <2>6. CASE SyncFails
    <3>1. PICK bad \in loader.read.wls \cap BadWl, before \in SUBSET (loader.read.wls \ BadWl) :
            /\ discovery' = discovery \cup before \cup {bad}
            /\ partial' = [items |-> partial.items \cup loader.read.items,
                           wls |-> partial.wls \cup before \cup {bad}]
      BY <2>6 DEF SyncFails
    <3>2. loader.read.items \subseteq Item /\ loader.read.wls \subseteq Wl
      BY DEF Files
    <3>3. discovery' \subseteq Wl
      BY <3>1, <3>2
    <3>4. partial' \in [items : SUBSET Item, wls : SUBSET Wl]
      BY <3>1, <3>2
    <3>5. loader' \in [phase : {"watching", "reading", "discovery", "stopped"}, read : Files,
                       first : BOOLEAN]
      BY <2>6 DEF SyncFails, Ended
    <3>6. UNCHANGED <<file, edits, changed, prev, binds>>
      BY <2>6 DEF SyncFails
    <3> QED  BY <3>3, <3>4, <3>5, <3>6
  <2>7. CASE WatcherFails
    BY <2>7 DEF WatcherFails
  <2>8. CASE UNCHANGED reloadVars
    BY <2>8 DEF reloadVars
  <2> QED
    BY <2>1, <2>2, <2>3, <2>4, <2>5, <2>6, <2>7, <2>8 DEF ReloadNext, Load
<1> QED  BY <1>1, <1>2, PTL DEF ReloadSpec

(* What a store holds, at any time of a load: what the last load that went *)
(* into it has put there, and besides only what is left of loads that      *)
(* failed half way.  The binds go first, so between the two steps of a     *)
(* load they are already those of the file that is being loaded.           *)
Explained(store, current, left) ==
  store \ current \subseteq left /\ (partial = Nothing => store = current)

StoresExplained ==
  /\ loader.phase \in {"watching", "reading"} => Explained(binds, prev.items, partial.items)
  /\ loader.phase = "discovery" => Explained(binds, loader.read.items, partial.items)
  /\ Explained(discovery, prev.wls, partial.wls)

LEMMA StoresInvariant == ReloadSpec => []StoresExplained
<1>1. ReloadInit => StoresExplained
  BY DEF ReloadInit, StoresExplained, Explained, Nothing
<1>2. ReloadTypeOK /\ StoresExplained /\ [ReloadNext]_reloadVars => StoresExplained'
  <2> SUFFICES ASSUME ReloadTypeOK, StoresExplained, [ReloadNext]_reloadVars
               PROVE  StoresExplained'
    OBVIOUS
  <2> USE DEF StoresExplained, Explained
  <2>1. CASE Edit
    BY <2>1 DEF Edit
  <2>2. CASE ReadFile
    BY <2>2 DEF ReadFile, ReloadTypeOK
  <2>3. CASE ParseFails
    BY <2>3 DEF ParseFails, Ended, ReloadTypeOK
  <2>4. CASE SyncBinds
    <3>1. /\ binds' = (binds \cup loader.read.items) \ (prev.items \ loader.read.items)
          /\ loader'.phase = "discovery" /\ loader'.read = loader.read
          /\ loader.phase = "reading"
          /\ UNCHANGED <<discovery, prev, partial>>
      BY <2>4 DEF SyncBinds, Synced, ReloadTypeOK
    <3> QED  BY <3>1
  <2>5. CASE SyncDiscovery
    <3>1. /\ discovery' = (discovery \cup loader.read.wls) \ (prev.wls \ loader.read.wls)
          /\ prev' = [items |-> loader.read.items, wls |-> loader.read.wls]
          /\ loader.phase = "discovery" /\ loader'.phase # "discovery"
          /\ UNCHANGED <<binds, partial>>
      BY <2>5 DEF SyncDiscovery, Synced, Kept, Ended, ReloadTypeOK
    <3> QED  BY <3>1
  <2>6. CASE SyncFails
    <3>1. PICK bad \in loader.read.wls \cap BadWl, before \in SUBSET (loader.read.wls \ BadWl) :
            /\ discovery' = discovery \cup before \cup {bad}
            /\ partial' = [items |-> partial.items \cup loader.read.items,
                           wls |-> partial.wls \cup before \cup {bad}]
      BY <2>6 DEF SyncFails
    <3>2. /\ UNCHANGED <<prev, binds>>
          /\ loader.phase = "discovery" /\ loader'.phase \in {"watching", "stopped"}
      BY <2>6 DEF SyncFails, Ended, ReloadTypeOK
    <3>3. partial' # Nothing
      <4>1. bad \in partial'.wls
        BY <3>1
      <4> QED  BY <4>1 DEF Nothing
    <3>4. discovery' \ prev'.wls \subseteq partial'.wls
      BY <3>1, <3>2
    <3>5. binds' \ prev'.items \subseteq partial'.items
      BY <3>1, <3>2
    <3> QED  BY <3>2, <3>3, <3>4, <3>5
  <2>7. CASE WatcherFails
    BY <2>7 DEF WatcherFails, ReloadTypeOK
  <2>8. CASE UNCHANGED reloadVars
    BY <2>8 DEF reloadVars
  <2> QED
    BY <2>1, <2>2, <2>3, <2>4, <2>5, <2>6, <2>7, <2>8 DEF ReloadNext, Load
<1> QED  BY <1>1, <1>2, ReloadTypes, PTL DEF ReloadSpec

(* A load replaces what the one before it put into the stores, whatever is *)
(* written to the file meanwhile and whichever loads fail: all that can be *)
(* left behind is what a load that failed half way had put there.          *)
THEOREM LoadsAlwaysReplace == ReloadSpec => []LoadsReplace
<1>1. StoresExplained => OnlyFailedLoadsLeave /\ PreviousIsInPlace
  BY DEF StoresExplained, Explained, OnlyFailedLoadsLeave, PreviousIsInPlace
<1> QED  BY <1>1, ReloadTypes, StoresInvariant, PTL DEF LoadsReplace

-----------------------------------------------------------------------------
(***************************************************************************)
(* Certificates, for any callers, lives and delays of the CA.              *)
(***************************************************************************)

(* The types, with the times of the certificate that is shown.             *)
CertTypes ==
  /\ CertTypeOK
  /\ state.from \in Nat /\ state.to \in Nat
  /\ ticks <= clock + 1

LEMMA CertTypesInvariant == CertSpec => []CertTypes
<1>1. CertInit => CertTypes
  BY FetchAssumption DEF CertInit, CertTypes, CertTypeOK, NotReady, Answers
<1>2. CertTypes /\ [CertNext]_certVars => CertTypes'
  <2> SUFFICES ASSUME CertTypes, [CertNext]_certVars PROVE CertTypes'
    OBVIOUS
  <2> USE DEF CertTypes, CertTypeOK
  <2>1. ASSUME NEW c \in IdentityCall, GetIdentity(c) \/ WokenCaller(c) PROVE CertTypes'
    <3>1. UNCHANGED <<clock, ticks, fetcher, state, version, failures>> /\ Read(c)
      BY <2>1 DEF GetIdentity, WokenCaller
    <3>2. CASE state.kind = "notready"
      <4> DEFINE Callers == [step : {"idle", "waiting", "answered"}, seen : Nat,
                             got : Answers, valid : BOOLEAN]
                 after == [caller[c] EXCEPT !.step = "waiting", !.seen = version]
      <4>1. caller' = [caller EXCEPT ![c] = after]
        BY <3>1, <3>2 DEF Read
      <4>2. after \in Callers
        OBVIOUS
      <4> HIDE DEF after
      <4>3. caller' \in [IdentityCall -> Callers]
        BY <4>1, <4>2
      <4> QED  BY <3>1, <4>3
    <3>3. ASSUME NEW got \in Answers, Answered(c, got) PROVE CertTypes'
      <4>1. (got = "certificate" /\ ~Expired(state)) \in BOOLEAN
        BY Zenon
      <4>2. PICK valid \in BOOLEAN :
              caller' = [caller EXCEPT ![c] = [@ EXCEPT !.step = "answered", !.got = got,
                                       !.seen = version, !.valid = valid]]
        BY <3>3, <4>1, Zenon DEF Answered
      <4> DEFINE Callers == [step : {"idle", "waiting", "answered"}, seen : Nat,
                             got : Answers, valid : BOOLEAN]
                 after == [caller[c] EXCEPT !.step = "answered", !.got = got,
                                            !.seen = version, !.valid = valid]
      <4>3. caller[c] \in Callers /\ version \in Nat
        OBVIOUS
      <4>4. after \in Callers
        BY <4>3
      <4>5. caller' = [caller EXCEPT ![c] = after]
        BY <4>2
      <4> HIDE DEF Callers, after
      <4>6. caller' \in [IdentityCall -> Callers]
        BY <4>4, <4>5 DEF Callers
      <4> QED  BY <3>1, <4>6 DEF Callers
    <3>4. CASE state.kind # "notready"
      <4>1. \E got \in Answers : Answered(c, got)
        BY <3>1, <3>4 DEF Read, Answers
      <4> QED  BY <3>3, <4>1
    <3> QED  BY <3>2, <3>4
  <2>2. CASE Check
    <3>1. fetcher' \in [step : {"fetching", "checking"}, since : 0..MaxClock]
      BY <2>2 DEF Check
    <3>2. ticks' \in 0..MaxClock + 1
      BY <2>2, FetchAssumption DEF Check
    <3> QED  BY <2>2, <3>1, <3>2 DEF Check
  <2>3. CASE FetchSucceeds
    <3>1. PICK issued \in fetcher.since..clock, life \in Lifetimes :
            /\ Publish(Available(issued, issued + life))
            /\ failures' = IF life < 2 * (MaxFetch + 1) THEN failures + 1 ELSE failures
      BY <2>3 DEF FetchSucceeds
    <3>2. issued \in Nat /\ life \in Nat
      BY LifetimesAssumption, FetchAssumption
    <3>3. state'.kind = "available" /\ state'.from \in Nat /\ state'.to \in Nat
      BY <3>1, <3>2 DEF Publish, Available
    <3>4. fetcher' \in [step : {"fetching", "checking"}, since : 0..MaxClock]
      BY <3>1 DEF Publish
    <3>5. version' \in Nat /\ failures' \in Nat
      BY <3>1 DEF Publish
    <3> QED  BY <2>3, <3>3, <3>4, <3>5 DEF FetchSucceeds
  <2>4. CASE FetchFails
    BY <2>4 DEF FetchFails, Publish, Failed
  <2>5. CASE Tick
    <3>1. clock' \in 0..MaxClock /\ ticks' \in 0..MaxClock + 1
      BY <2>5, FetchAssumption DEF Tick
    <3> QED  BY <2>5, <3>1 DEF Tick
  <2>6. CASE UNCHANGED certVars
    BY <2>6 DEF certVars
  <2> QED  BY <2>1, <2>2, <2>3, <2>4, <2>5, <2>6 DEF CertNext
<1> QED  BY <1>1, <1>2, PTL DEF CertSpec

(* What a read of the state does.                                          *)
LEMMA ReadAnswers ==
  ASSUME CertTypes, NEW c \in IdentityCall, Read(c)
  PROVE  \/ /\ state.kind = "notready"
            /\ caller' = [caller EXCEPT ![c] = [@ EXCEPT !.step = "waiting", !.seen = version]]
         \/ state.kind = "error" /\ Answered(c, "error")
         \/ state.kind = "available" /\ Expired(state) /\ Answered(c, "expired")
         \/ state.kind = "available" /\ ~Expired(state) /\ Answered(c, "certificate")
<1>1. state.kind \in {"notready", "error", "available"}
  BY DEF CertTypes, CertTypeOK
<1>2. CASE Expired(state)
  BY <1>1, <1>2 DEF Read
<1>3. CASE ~Expired(state)
  BY <1>1, <1>3 DEF Read
<1> QED  BY <1>2, <1>3

(* A caller is told of a certificate only if it is valid at that time.     *)
LEMMA IdentityInvariant == CertSpec => []IdentityIsValid
<1>1. CertInit => IdentityIsValid
  BY DEF CertInit, IdentityIsValid
<1>2. CertTypes /\ IdentityIsValid /\ [CertNext]_certVars => IdentityIsValid'
  <2> SUFFICES ASSUME CertTypes, IdentityIsValid, [CertNext]_certVars,
                      NEW d \in IdentityCall, caller'[d].got = "certificate"
               PROVE  caller'[d].valid
    BY DEF IdentityIsValid
  <2> USE DEF CertTypes, CertTypeOK
  <2>1. ASSUME NEW c \in IdentityCall, Read(c) PROVE caller'[d].valid
    <3>1. CASE caller' = [caller EXCEPT ![c] = [@ EXCEPT !.step = "waiting", !.seen = version]]
      BY <3>1 DEF IdentityIsValid
    <3>2. ASSUME NEW got, Answered(c, got), got = "certificate" => ~Expired(state)
          PROVE  caller'[d].valid
      BY <3>2 DEF Answered, IdentityIsValid
    <3> QED  BY <2>1, <3>1, <3>2, ReadAnswers
  <2>2. CASE UNCHANGED caller
    BY <2>2 DEF IdentityIsValid
  <2> QED
    BY <2>1, <2>2 DEF CertNext, certVars, GetIdentity, WokenCaller, Check, FetchSucceeds,
                      FetchFails, Tick
<1> QED  BY <1>1, <1>2, CertTypesInvariant, PTL DEF CertSpec

(* Why the renewal comes in time, as long as no fetch has failed or brought *)
(* too short a life: the fetcher looks on every tick, so that the clock is *)
(* at most at the time of the renewal when it starts to fetch, and a fetch *)
(* takes no longer than the other half of the life leaves.                 *)
LongLived == state.to - state.from >= 2 * (MaxFetch + 1)
OnTime ==
  /\ fetcher.since <= clock
  /\ fetcher.step = "fetching" => clock - fetcher.since <= MaxFetch
  /\ failures = 0 =>
       /\ state.kind # "error"
       /\ state.kind = "available" =>
            /\ LongLived
            /\ fetcher.step = "checking" => clock <= RefreshAt(state)
            /\ fetcher.step = "checking" /\ ticks = 0 => clock < RefreshAt(state)
            /\ fetcher.step = "fetching" => fetcher.since <= RefreshAt(state)

(* The renewal leaves the time of a fetch.                                 *)
LEMMA RenewalInHalf ==
  ASSUME NEW from \in Nat, NEW to \in Nat, to - from >= 2 * (MaxFetch + 1)
  PROVE  /\ from + (to - from) \div 2 \in Nat
         /\ from + (to - from) \div 2 + MaxFetch + 1 <= to
         /\ from + MaxFetch + 1 <= from + (to - from) \div 2
  BY FetchAssumption

LEMMA ValidWhileOnTime ==
  ASSUME CertTypes, OnTime, failures = 0, state.kind = "available"
  PROVE  ~Expired(state)
<1>1. /\ RefreshAt(state) \in Nat /\ clock \in Nat /\ fetcher.since \in Nat
      /\ RefreshAt(state) + MaxFetch + 1 <= state.to
  BY RenewalInHalf, FetchAssumption DEF CertTypes, CertTypeOK, OnTime, LongLived, RefreshAt
<1>2. fetcher.step \in {"fetching", "checking"}
  BY DEF CertTypes, CertTypeOK
<1>3. clock <= RefreshAt(state) + MaxFetch
  BY <1>1, <1>2, FetchAssumption DEF OnTime
<1> QED  BY <1>1, <1>3, FetchAssumption DEF Expired, CertTypes

LEMMA OnTimeInvariant == CertSpec => []OnTime
<1>1. CertInit => OnTime
  BY FetchAssumption DEF CertInit, OnTime, NotReady
<1>2. CertTypes /\ OnTime /\ [CertNext]_certVars => OnTime'
  <2> SUFFICES ASSUME CertTypes, OnTime, [CertNext]_certVars PROVE OnTime'
    OBVIOUS
  <2>0. clock \in Nat /\ fetcher.since \in Nat /\ failures \in Nat /\ ticks \in Nat
    BY FetchAssumption DEF CertTypes, CertTypeOK
  <2>1. ASSUME NEW c \in IdentityCall, GetIdentity(c) \/ WokenCaller(c) PROVE OnTime'
    BY <2>1 DEF GetIdentity, WokenCaller, OnTime, LongLived, RefreshAt
  <2>2. CASE Check
    <3>1. CASE ShouldRenew
      <4>1. /\ fetcher' = [step |-> "fetching", since |-> clock]
            /\ UNCHANGED <<clock, state, failures>>
            /\ fetcher.step = "checking"
        BY <2>2, <3>1 DEF Check
      <4> QED  BY <2>0, <4>1, FetchAssumption DEF OnTime, LongLived, RefreshAt
    <3>2. CASE ~ShouldRenew
      <4>1. /\ UNCHANGED <<clock, state, failures, fetcher>>
            /\ state.kind = "available" /\ ~(clock >= RefreshAt(state))
            /\ fetcher.step = "checking"
        BY <2>2, <3>2 DEF Check, ShouldRenew
      <4>2. failures = 0 => RefreshAt(state) \in Nat
        BY <4>1, RenewalInHalf DEF OnTime, LongLived, RefreshAt, CertTypes
      <4> QED  BY <2>0, <4>1, <4>2 DEF OnTime, LongLived, RefreshAt
    <3> QED  BY <3>1, <3>2
  <2>3. CASE FetchSucceeds
    <3>1. PICK issued \in fetcher.since..clock, life \in Lifetimes :
            /\ Publish(Available(issued, issued + life))
            /\ failures' = IF life < 2 * (MaxFetch + 1) THEN failures + 1 ELSE failures
      BY <2>3 DEF FetchSucceeds
    <3>2. /\ issued \in Nat /\ life \in Nat
          /\ state' = [kind |-> "available", from |-> issued, to |-> issued + life]
          /\ fetcher'.step = "checking" /\ fetcher'.since = fetcher.since
          /\ clock' = clock /\ fetcher.step = "fetching"
      BY <2>3, <3>1, <2>0, LifetimesAssumption
      DEF FetchSucceeds, Publish, Available, CertTypes, CertTypeOK
    <3>3. failures' = 0 => life >= 2 * (MaxFetch + 1)
      BY <2>0, <3>1, <3>2, FetchAssumption
    <3>4. failures' = 0 => clock < RefreshAt(state')
      <4> SUFFICES ASSUME failures' = 0 PROVE clock < RefreshAt(state')
        OBVIOUS
      <4>1. RefreshAt(state') = issued + ((issued + life) - issued) \div 2
        BY <3>2 DEF RefreshAt
      <4>2. (issued + life) - issued >= 2 * (MaxFetch + 1)
        BY <3>2, <3>3, FetchAssumption
      <4>3. issued + MaxFetch + 1 <= RefreshAt(state') /\ RefreshAt(state') \in Nat
        BY <3>2, <4>1, <4>2, RenewalInHalf
      <4>4. clock - issued <= MaxFetch
        BY <2>0, <3>1, <3>2, FetchAssumption DEF OnTime
      <4> QED  BY <2>0, <3>2, <4>3, <4>4, FetchAssumption
    <3>5. failures' = 0 => LongLived'
      BY <3>2, <3>3, FetchAssumption DEF LongLived
    <3>6. failures' = 0 => clock <= RefreshAt(state')
      BY <3>4, <3>2, <2>0 DEF RefreshAt
    <3> QED  BY <2>0, <3>2, <3>4, <3>5, <3>6 DEF OnTime, RefreshAt
  <2>4. CASE FetchFails
    BY <2>0, <2>4 DEF FetchFails, Publish, Failed, OnTime, CertTypes, CertTypeOK
  <2>5. CASE Tick
    <3>1. /\ UNCHANGED <<fetcher, state, failures>>
          /\ clock' = clock + 1 /\ ticks' = ticks + 1
          /\ fetcher.step = "checking" => ticks = 0
          /\ fetcher.step = "fetching" => clock - fetcher.since < MaxFetch
      BY <2>5 DEF Tick
    <3>2. failures = 0 /\ state.kind = "available" => RefreshAt(state) \in Nat
      BY RenewalInHalf DEF OnTime, LongLived, RefreshAt, CertTypes
    <3> QED  BY <2>0, <3>1, <3>2, FetchAssumption DEF OnTime, LongLived, RefreshAt
  <2>6. CASE UNCHANGED certVars
    BY <2>6 DEF certVars, OnTime, LongLived, RefreshAt
  <2> QED  BY <2>1, <2>2, <2>3, <2>4, <2>5, <2>6 DEF CertNext
<1> QED  BY <1>1, <1>2, CertTypesInvariant, PTL DEF CertSpec

LEMMA RenewedInvariant == CertSpec => []RenewedInTime
<1>1. CertInit => RenewedInTime
  BY DEF CertInit, RenewedInTime
<1>2. CertTypes /\ OnTime /\ RenewedInTime /\ [CertNext]_certVars => RenewedInTime'
  <2> SUFFICES ASSUME CertTypes, OnTime, RenewedInTime, [CertNext]_certVars,
                      failures' = 0, NEW d \in IdentityCall
               PROVE  caller'[d].got \notin {"expired", "error"}
    BY DEF RenewedInTime
  <2>1. failures = 0
    BY DEF CertNext, certVars, GetIdentity, WokenCaller, Check, FetchSucceeds,
           FetchFails, Tick, CertTypes, CertTypeOK
  <2>2. ASSUME NEW c \in IdentityCall, Read(c)
        PROVE  caller'[d].got \notin {"expired", "error"}
    <3>1. state.kind = "available" => ~Expired(state)
      BY <2>1, ValidWhileOnTime
    <3>2. state.kind # "error"
      BY <2>1 DEF OnTime
    <3>3. \/ caller' = [caller EXCEPT ![c] = [@ EXCEPT !.step = "waiting", !.seen = version]]
          \/ Answered(c, "certificate")
      BY <2>2, <3>1, <3>2, ReadAnswers
    <3>4. caller'[d].got \in {caller[d].got, "certificate"}
      <4> DEFINE Callers == [step : {"idle", "waiting", "answered"}, seen : Nat,
                             got : Answers, valid : BOOLEAN]
      <4>1. caller \in [IdentityCall -> Callers]
        BY DEF CertTypes, CertTypeOK
      <4>2. ASSUME caller' = [caller EXCEPT ![c] = [@ EXCEPT !.step = "waiting", !.seen = version]]
            PROVE  caller'[d].got = caller[d].got
        <5>1. [caller[c] EXCEPT !.step = "waiting", !.seen = version].got = caller[c].got
          BY <4>1
        <5> QED  BY <4>1, <4>2, <5>1
      <4>3. ASSUME Answered(c, "certificate")
            PROVE  caller'[d].got \in {caller[d].got, "certificate"}
        <5>1. \A v, w : [caller[c] EXCEPT !.step = "answered", !.got = "certificate", !.seen = v,
                                         !.valid = w].got = "certificate"
          BY <4>1
        <5>2. \E v, w : caller' = [caller EXCEPT ![c] =
                [caller[c] EXCEPT !.step = "answered", !.got = "certificate", !.seen = v, !.valid = w]]
          BY <4>3, Zenon DEF Answered
        <5> QED  BY <4>1, <5>1, <5>2
      <4> QED  BY <3>3, <4>2, <4>3
    <3> QED  BY <2>1, <3>4 DEF RenewedInTime
  <2>3. CASE UNCHANGED caller
    BY <2>1, <2>3 DEF RenewedInTime
  <2> QED
    BY <2>2, <2>3 DEF CertNext, certVars, GetIdentity, WokenCaller, Check, FetchSucceeds,
                      FetchFails, Tick
<1> QED  BY <1>1, <1>2, CertTypesInvariant, OnTimeInvariant, PTL DEF CertSpec

(* Callers are given valid certificates only, and while every fetch brings *)
(* one that lives long enough none of them is told of an expired one:      *)
(* whatever the lives, the delays of the CA and the order of calls.        *)
THEOREM IdentitiesStayServed == CertSpec => []IdentitiesServed
<1>1. CertTypes => CertTypeOK
  BY DEF CertTypes
<1> QED
  BY <1>1, CertTypesInvariant, IdentityInvariant, RenewedInvariant, PTL DEF IdentitiesServed

-----------------------------------------------------------------------------
(***************************************************************************)
(* DnsCache, for any callers, entries and answers of the lookups.          *)
(***************************************************************************)

DnsEntries == [active : BOOLEAN, stored : BOOLEAN, ips : SUBSET Address,
               task : {"none", "spawned", "checking", "looking", "stored",
                       "sleeping", "removing", "ended"}]
Resolvers == [phase : {"away", "asked", "marked", "listening", "missed", "waiting"},
              entry : DnsEntry \cup {NoDns}, notified : BOOLEAN]

(* An entry that a caller holds has its task, so nobody reuses it; a new   *)
(* entry is active until it has been looked up, so its task does not end   *)
(* before the first answer; and a caller that missed an answer is heard by *)
(* the next notification.                                                  *)
EntriesHeld ==
  /\ \A r \in Resolve :
       /\ resolve[r].phase # "away" => resolve[r].entry \in DnsEntry
       /\ resolve[r].entry # NoDns => dns[resolve[r].entry].task # "none"
  /\ \A e \in DnsEntry :
       ~dns[e].stored =>
         \/ dns[e].task \in {"none", "spawned", "looking"}
         \/ dns[e].task = "checking" /\ dns[e].active
  /\ \A r \in Resolve :
       resolve[r].phase \in {"missed", "waiting"} /\ ~resolve[r].notified =>
         \/ ~dns[resolve[r].entry].stored
         \/ dns[resolve[r].entry].task = "stored"

LEMMA DnsRecords ==
  /\ \A d \in DnsEntries, b \in BOOLEAN : [d EXCEPT !.active = b] \in DnsEntries
  /\ \A v \in Resolvers, ph \in {"away", "asked", "marked", "listening", "missed", "waiting"} :
       [v EXCEPT !.phase = ph] \in Resolvers
  /\ Away \in Resolvers
  BY DEF DnsEntries, Resolvers, Away

(* A step of a background task that writes its entry only.                 *)
LEMMA EntryWritten ==
  ASSUME DnsTypeOK, NEW e \in DnsEntry, NEW d \in DnsEntries, dns' = [dns EXCEPT ![e] = d]
  PROVE  /\ dns' \in [DnsEntry -> DnsEntries] /\ dns'[e] = d
         /\ \A f \in DnsEntry \ {e} : dns'[f] = dns[f]
BY DEF DnsTypeOK, DnsEntries

LEMMA Refreshing ==
  ASSUME DnsTypeOK, NEW e \in DnsEntry, Start(e) \/ CheckActive(e) \/ Expire(e)
  PROVE  /\ dns' \in [DnsEntry -> DnsEntries] /\ UNCHANGED <<dnsCache, resolve>>
         /\ dns'[e].ips = dns[e].ips /\ dns'[e].stored = dns[e].stored
         /\ dns[e].task \in {"spawned", "checking", "sleeping"}
         /\ dns'[e].task \in {"checking", "looking", "removing"}
         /\ dns[e].task = "spawned" => dns'[e].active /\ dns'[e].task = "checking"
         /\ dns[e].task = "checking" => dns'[e].task = IF dns[e].active THEN "looking" ELSE "removing"
         /\ \A f \in DnsEntry \ {e} : dns'[f] = dns[f]
<1>1. dns[e] \in DnsEntries
  BY DEF DnsTypeOK, DnsEntries
<1>2. CASE Start(e)
  <2> DEFINE d == [dns[e] EXCEPT !.active = TRUE, !.task = "checking"]
  <2>1. /\ d \in DnsEntries /\ d.active /\ d.task = "checking"
        /\ d.ips = dns[e].ips /\ d.stored = dns[e].stored
    BY <1>1 DEF DnsEntries
  <2>2. dns' = [dns EXCEPT ![e] = d] /\ UNCHANGED <<dnsCache, resolve>> /\ dns[e].task = "spawned"
    BY <1>2 DEF Start
  <2> HIDE DEF d
  <2> QED  BY <2>1, <2>2, EntryWritten
<1>3. CASE CheckActive(e)
  <2> DEFINE next == IF dns[e].active THEN "looking" ELSE "removing"
             d == [dns[e] EXCEPT !.active = FALSE, !.task = next]
  <2>1. /\ d \in DnsEntries /\ d.task = next
        /\ d.ips = dns[e].ips /\ d.stored = dns[e].stored
    BY <1>1 DEF DnsEntries
  <2>2. dns' = [dns EXCEPT ![e] = d] /\ UNCHANGED <<dnsCache, resolve>> /\ dns[e].task = "checking"
    BY <1>3 DEF CheckActive, AfterCheck
  <2> HIDE DEF d
  <2> QED  BY <2>1, <2>2, EntryWritten
<1>4. CASE Expire(e)
  <2> DEFINE d == [dns[e] EXCEPT !.task = "checking"]
  <2>1. /\ d \in DnsEntries /\ d.task = "checking"
        /\ d.ips = dns[e].ips /\ d.stored = dns[e].stored
    BY <1>1 DEF DnsEntries
  <2>2. dns' = [dns EXCEPT ![e] = d] /\ UNCHANGED <<dnsCache, resolve>> /\ dns[e].task = "sleeping"
    BY <1>4 DEF Expire
  <2> HIDE DEF d
  <2> QED  BY <2>1, <2>2, EntryWritten
<1> QED  BY <1>2, <1>3, <1>4

LEMMA Looked ==
  ASSUME DnsTypeOK, NEW e \in DnsEntry, LookedUp(e)
  PROVE  /\ dns' \in [DnsEntry -> DnsEntries] /\ UNCHANGED <<dnsCache, resolve>>
         /\ dns'[e].stored /\ dns[e].task = "looking" /\ dns'[e].task = "stored"
         /\ \A f \in DnsEntry \ {e} : dns'[f] = dns[f]
<1>1. dns[e] \in DnsEntries
  BY DEF DnsTypeOK, DnsEntries
<1>2. PICK ips \in SUBSET Address :
        dns' = [dns EXCEPT ![e] = [dns[e] EXCEPT !.ips = ips, !.stored = TRUE, !.task = "stored"]]
  BY DEF LookedUp
<1> DEFINE d == [dns[e] EXCEPT !.ips = ips, !.stored = TRUE, !.task = "stored"]
<1>3. d \in DnsEntries /\ d.stored /\ d.task = "stored"
  BY <1>1 DEF DnsEntries
<1>4. dns' = [dns EXCEPT ![e] = d]
  BY <1>2
<1> HIDE DEF d
<1> QED  BY <1>3, <1>4, EntryWritten DEF LookedUp

LEMMA DnsTypesInductive ==
  ASSUME DnsTypeOK, EntriesHeld, [DnsNext]_dnsVars
  PROVE  DnsTypeOK'
<1> USE DEF DnsTypeOK, EntriesHeld
<1>a. dns \in [DnsEntry -> DnsEntries] /\ resolve \in [Resolve -> Resolvers]
  BY DEF DnsEntries, Resolvers
<1>b. ASSUME NEW r \in Resolve, NEW now \in Resolvers,
             resolve' = [resolve EXCEPT ![r] = now], UNCHANGED <<dnsCache, dns>>
      PROVE  DnsTypeOK'
  <2>1. resolve' \in [Resolve -> Resolvers]
    BY <1>a, <1>b
  <2> QED  BY <1>b, <2>1 DEF Resolvers
<1>c. ASSUME NEW e \in DnsEntry, dns' = [dns EXCEPT ![e].active = TRUE]
      PROVE  /\ dns' \in [DnsEntry -> DnsEntries]
             /\ \A f \in DnsEntry : dns'[f].ips # {} => dns'[f].stored
  <2>1. dns' = [dns EXCEPT ![e] = [dns[e] EXCEPT !.active = TRUE]]
    BY <1>a, <1>c
  <2>2. dns' \in [DnsEntry -> DnsEntries]
    BY <1>a, <2>1, DnsRecords
  <2>3. \A f \in DnsEntry : dns'[f].ips = dns[f].ips /\ dns'[f].stored = dns[f].stored
    BY <1>a, <2>1 DEF DnsEntries
  <2> QED  BY <2>2, <2>3
<1>1. ASSUME NEW r \in Resolve, Ask(r) PROVE DnsTypeOK'
  <2>1. PICK e \in DnsEntry :
          /\ IF dnsCache # NoDns
             THEN e = dnsCache /\ dns' = [dns EXCEPT ![e].active = TRUE]
             ELSE dns[e] = Vacant /\ dns' = [dns EXCEPT ![e].task = "spawned"]
          /\ dnsCache' = e
          /\ resolve' = [resolve EXCEPT ![r] =
                            [phase |-> "asked", entry |-> e, notified |-> FALSE]]
    BY <1>1 DEF Ask
  <2>2. dns' \in [DnsEntry -> DnsEntries] /\ \A f \in DnsEntry : dns'[f].ips # {} => dns'[f].stored
    <3>1. CASE dnsCache # NoDns
      BY <1>c, <2>1, <3>1
    <3>2. CASE dnsCache = NoDns
      BY SMTT(60), <1>a, <2>1, <3>2 DEF DnsEntries
    <3> QED  BY <3>1, <3>2
  <2>3. resolve' \in [Resolve -> Resolvers]
    BY <1>a, <2>1 DEF Resolvers
  <2> QED  BY <2>1, <2>2, <2>3 DEF DnsEntries, Resolvers
<1>2. ASSUME NEW r \in Resolve, MarkActive(r) PROVE DnsTypeOK'
  <2>1. /\ resolve[r].entry \in DnsEntry
        /\ dns' = [dns EXCEPT ![resolve[r].entry].active = TRUE]
        /\ resolve' = [resolve EXCEPT ![r].phase = "marked"]
        /\ UNCHANGED dnsCache
    BY <1>2 DEF MarkActive
  <2>2. dns' \in [DnsEntry -> DnsEntries] /\ \A f \in DnsEntry : dns'[f].ips # {} => dns'[f].stored
    BY <1>c, <2>1
  <2> QED  BY SMTT(60), <2>1, <2>2 DEF DnsEntries
<1>3. ASSUME NEW r \in Resolve, Listen(r) \/ LoadAddress(r) \/ Await(r) \/ Wake(r) \/ Leave(r)
      PROVE DnsTypeOK'
  <2>1. \/ resolve' = [resolve EXCEPT ![r] = Away]
        \/ \E ph \in {"listening", "missed", "waiting"} :
             resolve' = [resolve EXCEPT ![r] = [resolve[r] EXCEPT !.phase = ph]]
    BY <1>3 DEF Listen, LoadAddress, Await, Wake, Leave
  <2>2. UNCHANGED <<dnsCache, dns>>
    BY <1>3 DEF Listen, LoadAddress, Await, Wake, Leave
  <2>3. \E now \in Resolvers : resolve' = [resolve EXCEPT ![r] = now]
    BY <1>a, <2>1, DnsRecords
  <2> QED  BY <1>b, <2>2, <2>3
<1>4. ASSUME NEW e \in DnsEntry, Start(e) \/ CheckActive(e) \/ Expire(e) PROVE DnsTypeOK'
  BY <1>4, Refreshing DEF DnsEntries
<1>5. ASSUME NEW e \in DnsEntry, RemoveName(e) PROVE DnsTypeOK'
  BY <1>5 DEF RemoveName
<1>6. ASSUME NEW e \in DnsEntry, LookedUp(e) PROVE DnsTypeOK'
  BY <1>6, Looked DEF DnsEntries
<1>7. ASSUME NEW e \in DnsEntry, Notify(e) PROVE DnsTypeOK'
  BY <1>7 DEF Notify
<1>8. ASSUME NEW e \in DnsEntry, DropEntry(e) PROVE DnsTypeOK'
  BY <1>8 DEF DropEntry, Vacant
<1>9. CASE UNCHANGED dnsVars
  BY <1>9 DEF dnsVars
<1> QED
  BY <1>1, <1>2, <1>3, <1>4, <1>5, <1>6, <1>7, <1>8, <1>9 DEF DnsNext, ResolveStep, Background

LEMMA FoundInductive ==
  ASSUME DnsTypeOK, EntriesHeld, FoundIsRefreshed, [DnsNext]_dnsVars
  PROVE  FoundIsRefreshed'
<1> USE NoDnsAssumption DEF DnsTypeOK, EntriesHeld, FoundIsRefreshed
<1>1. ASSUME NEW r \in Resolve, Ask(r) PROVE FoundIsRefreshed'
  BY <1>1 DEF Ask, Vacant
<1>2. ASSUME NEW r \in Resolve, MarkActive(r) PROVE FoundIsRefreshed'
  BY <1>2 DEF MarkActive
<1>3. ASSUME NEW r \in Resolve, Listen(r) \/ LoadAddress(r) \/ Await(r) \/ Wake(r) \/ Leave(r)
      PROVE FoundIsRefreshed'
  BY <1>3 DEF Listen, LoadAddress, Await, Wake, Leave
<1>4. ASSUME NEW e \in DnsEntry, Start(e) \/ CheckActive(e) \/ Expire(e) PROVE FoundIsRefreshed'
  BY <1>4, Refreshing
<1>5. ASSUME NEW e \in DnsEntry, RemoveName(e) PROVE FoundIsRefreshed'
  BY <1>5 DEF RemoveName
<1>6. ASSUME NEW e \in DnsEntry, LookedUp(e) \/ Notify(e) PROVE FoundIsRefreshed'
  <2>1. /\ dns[e].task \notin {"none", "ended"} /\ dns'[e].task \notin {"none", "ended"}
        /\ \A f \in DnsEntry \ {e} : dns'[f] = dns[f]
        /\ UNCHANGED dnsCache
    <3>1. CASE LookedUp(e)
      BY <3>1, Looked
    <3>2. CASE Notify(e)
      BY <3>2 DEF Notify
    <3> QED  BY <1>6, <3>1, <3>2
  <2> QED  BY <2>1
<1>7. ASSUME NEW e \in DnsEntry, DropEntry(e) PROVE FoundIsRefreshed'
  BY <1>7 DEF DropEntry, Vacant
<1>8. CASE UNCHANGED dnsVars
  BY <1>8 DEF dnsVars
<1> QED
  BY <1>1, <1>2, <1>3, <1>4, <1>5, <1>6, <1>7, <1>8 DEF DnsNext, ResolveStep, Background

LEMMA HeldInductive ==
  ASSUME DnsTypeOK, EntriesHeld, FoundIsRefreshed, [DnsNext]_dnsVars
  PROVE  EntriesHeld'
<1> USE NoDnsAssumption DEF DnsTypeOK, EntriesHeld, FoundIsRefreshed
<1>1. ASSUME NEW r \in Resolve, Ask(r) PROVE EntriesHeld'
  BY <1>1 DEF Ask, Vacant
<1>2. ASSUME NEW r \in Resolve, MarkActive(r) PROVE EntriesHeld'
  BY <1>2 DEF MarkActive
<1>3. ASSUME NEW r \in Resolve, Listen(r) \/ Await(r) \/ Wake(r) \/ Leave(r)
      PROVE EntriesHeld'
  BY <1>3 DEF Listen, Await, Wake, Leave, Away
<1>3a. ASSUME NEW r \in Resolve, LoadAddress(r) PROVE EntriesHeld'
  BY <1>3a DEF LoadAddress, Away
<1>4. ASSUME NEW e \in DnsEntry, Start(e) \/ CheckActive(e) \/ Expire(e) PROVE EntriesHeld'
  BY <1>4, Refreshing
<1>5. ASSUME NEW e \in DnsEntry, RemoveName(e) PROVE EntriesHeld'
  BY <1>5 DEF RemoveName
<1>6. ASSUME NEW e \in DnsEntry, LookedUp(e) PROVE EntriesHeld'
  BY <1>6, Looked
<1>7. ASSUME NEW e \in DnsEntry, Notify(e) PROVE EntriesHeld'
  BY SMTT(60), <1>7 DEF Notify, Hears
<1>8. ASSUME NEW e \in DnsEntry, DropEntry(e) PROVE EntriesHeld'
  BY <1>8 DEF DropEntry, Vacant
<1>9. CASE UNCHANGED dnsVars
  BY <1>9 DEF dnsVars
<1> QED
  BY <1>1, <1>2, <1>3, <1>3a, <1>4, <1>5, <1>6, <1>7, <1>8, <1>9 DEF DnsNext, ResolveStep, Background

LEMMA DnsInvariant == DnsSpec => [](DnsTypeOK /\ EntriesHeld /\ FoundIsRefreshed)
<1>1. DnsInit => DnsTypeOK /\ EntriesHeld /\ FoundIsRefreshed
  BY NoDnsAssumption DEF DnsInit, DnsTypeOK, EntriesHeld, FoundIsRefreshed, Vacant, Away
<1>2. DnsTypeOK /\ EntriesHeld /\ FoundIsRefreshed /\ [DnsNext]_dnsVars
        => (DnsTypeOK /\ EntriesHeld /\ FoundIsRefreshed)'
  BY DnsTypesInductive, FoundInductive, HeldInductive
<1> QED  BY <1>1, <1>2, PTL DEF DnsSpec

(* Callers find the entry that is being refreshed, no other task refreshes *)
(* the name, and no entry is removed under a caller that waits for its     *)
(* first answer: whatever the callers, the answers and the times.          *)
THEOREM NamesStayRefreshed == DnsSpec => []NamesRefreshed
<1>1. DnsTypeOK /\ EntriesHeld => WaitersAreHeard
  <2> SUFFICES ASSUME DnsTypeOK, EntriesHeld, NEW r \in Resolve,
                      resolve[r].phase = "waiting", ~resolve[r].notified
               PROVE  dns[resolve[r].entry].task \in {"spawned", "checking", "looking", "stored"}
    BY DEF WaitersAreHeard
  <2>1. resolve[r].entry \in DnsEntry /\ dns[resolve[r].entry].task # "none"
    BY NoDnsAssumption DEF EntriesHeld
  <2> QED  BY <2>1 DEF EntriesHeld
<1> QED  BY <1>1, DnsInvariant, PTL DEF NamesRefreshed

-----------------------------------------------------------------------------
(***************************************************************************)
(* Knowledge, for any captures, sessions, routes, prompts and capacity.    *)
(***************************************************************************)

Captures == [step : {"idle", "spawned", "touched", "told", "head", "answered", "stored", "done"},
             args : Args, turn : Nat, overlap : BOOLEAN]
SessionStates == [turns : Nat, seen : SUBSET Prompt, failures : Nat]
RouteStats == [total : Nat, ok : Nat, failed : Nat]

KnowledgeTypes ==
  /\ capture \in [Capture -> Captures]
  /\ sessions \in [Conversation -> SessionStates]
  /\ stats \in [RouteName -> RouteStats]
  /\ memory \in Seq(Args) /\ pushed \in Seq(Args)

(* What the steps of a capture that only move it on leave alone.           *)
LEMMA MovesOn ==
  ASSUME KnowledgeTypes, NEW c \in Capture, NEW to, Go(c, to)
  PROVE  /\ capture'[c].step = to
         /\ \A d \in Capture : d # c => capture'[d] = capture[d]
         /\ \A d \in Capture : /\ capture'[d].args = capture[d].args
                               /\ capture'[d].turn = capture[d].turn
                               /\ capture'[d].overlap = capture[d].overlap
  BY DEF Go, KnowledgeTypes, Captures

LEMMA KnowledgeTypesInvariant == KnowledgeSpec => []KnowledgeTypes
<1>1. KnowledgeInit => KnowledgeTypes
  <2> SUFFICES ASSUME KnowledgeInit PROVE KnowledgeTypes
    OBVIOUS
  <2>1. PICK r \in RouteName :
          capture = [c \in Capture |->
                       [step |-> "idle", turn |-> 0, overlap |-> FALSE,
                        args |-> [session |-> NoSession, route |-> r,
                                  prompt |-> NoPrompt, failure |-> FALSE]]]
    BY DEF KnowledgeInit
  <2>2. [session |-> NoSession, route |-> r, prompt |-> NoPrompt, failure |-> FALSE] \in Args
    BY DEF Args
  <2>3. capture \in [Capture -> Captures]
    BY <2>1, <2>2 DEF Captures
  <2>4. sessions \in [Conversation -> SessionStates]
    BY DEF KnowledgeInit, SessionStates, NoSessionState
  <2>5. stats \in [RouteName -> RouteStats]
    BY DEF KnowledgeInit, RouteStats, NoStats
  <2>6. memory \in Seq(Args) /\ pushed \in Seq(Args)
    BY DEF KnowledgeInit
  <2> QED  BY <2>3, <2>4, <2>5, <2>6 DEF KnowledgeTypes
<1>2. KnowledgeTypes /\ [KnowledgeNext]_knowledgeVars => KnowledgeTypes'
  <2> SUFFICES ASSUME KnowledgeTypes, [KnowledgeNext]_knowledgeVars PROVE KnowledgeTypes'
    OBVIOUS
  <2> USE DEF KnowledgeTypes
  <2>1. ASSUME NEW c \in Capture, NEW a \in Captured, Spawn(c, a) PROVE KnowledgeTypes'
    <3>1. a \in Args
      BY CapturedAssumption
    <3>2. capture' \in [Capture -> Captures]
      BY <2>1, <3>1 DEF Spawn, Captures
    <3> QED  BY <2>1, <3>2 DEF Spawn
  <2>2. ASSUME NEW c \in Capture, Touch(c) PROVE KnowledgeTypes'
    <3> DEFINE a == capture[c].args
               s == sessions[a.session]
               now == [turns |-> s.turns + 1,
                       seen |-> s.seen \cup ({a.prompt} \ {NoPrompt}),
                       failures |-> IF a.failure THEN s.failures + 1 ELSE 0]
    <3>1. a \in Args /\ UNCHANGED <<memory, pushed, stats>>
      BY <2>2 DEF Touch, Captures
    <3>2. CASE a.session = NoSession
      <4>1. Go(c, "touched") /\ UNCHANGED sessions
        BY <2>2, <3>2 DEF Touch
      <4> QED  BY <3>1, <4>1 DEF Go, Captures
    <3>3. CASE a.session # NoSession
      <4>1. a.session \in Conversation /\ a.prompt \in Prompt \cup {NoPrompt}
        BY <3>1, <3>3 DEF Args
      <4>2. s \in SessionStates
        BY <4>1
      <4>3. now \in SessionStates
        BY SMTT(60), <4>1, <4>2 DEF SessionStates
      <4>4. /\ sessions' = [sessions EXCEPT ![a.session] = now]
            /\ capture' = [capture EXCEPT ![c] = [@ EXCEPT !.step = "touched", !.turn = s.turns + 1,
                                          !.overlap = Overlaps(s, a.prompt)]]
        BY <2>2, <3>3 DEF Touch
      <4>5. sessions' \in [Conversation -> SessionStates]
        BY <4>3, <4>4
      <4>6. Overlaps(s, a.prompt) \in BOOLEAN /\ s.turns + 1 \in Nat
        BY <4>2 DEF Overlaps, SessionStates
      <4>7. PICK b \in BOOLEAN, n \in Nat :
              capture' = [capture EXCEPT ![c] = [@ EXCEPT !.step = "touched", !.turn = n, !.overlap = b]]
        BY <4>4, <4>6, Zenon
      <4>8. capture' \in [Capture -> Captures]
        BY <4>7 DEF Captures
      <4> QED  BY <3>1, <4>5, <4>8
    <3> QED  BY <3>2, <3>3
  <2>3. ASSUME NEW c \in Capture, Tell(c) \/ KdnGivesUp(c) \/ KdnHead(c) \/ KdnBody(c)
        PROVE KnowledgeTypes'
    <3>1. UNCHANGED <<sessions, memory, pushed, stats>>
      BY <2>3 DEF Tell, KdnGivesUp, KdnHead, KdnBody
    <3>2. Go(c, "told") \/ Go(c, "answered") \/ Go(c, "head")
      BY <2>3 DEF Tell, KdnGivesUp, KdnHead, KdnBody
    <3> QED  BY ZenonT(60), <3>1, <3>2 DEF Go, Captures
  <2>4. ASSUME NEW c \in Capture, Push(c) PROVE KnowledgeTypes'
    <3>1. capture' \in [Capture -> Captures]
      BY <2>4 DEF Push, Go, Captures
    <3>2. capture[c].args \in Args
      BY DEF Captures
    <3>3. memory' \in Seq(Args) /\ pushed' \in Seq(Args)
      BY <2>4, <3>2, CapacityAssumption DEF Push, Remembered
    <3> QED  BY <2>4, <3>1, <3>3 DEF Push
  <2>5. ASSUME NEW c \in Capture, Ingest(c) PROVE KnowledgeTypes'
    <3>1. capture' \in [Capture -> Captures]
      BY <2>5 DEF Ingest, Go, Captures
    <3>2. capture[c].args.route \in RouteName /\ capture[c].args.failure \in BOOLEAN
      BY DEF Captures, Args
    <3>3. \A r \in RouteStats, b \in BOOLEAN : Recorded(r, b) \in RouteStats
      BY DEF Recorded, RouteStats
    <3>4. stats' = [stats EXCEPT ![capture[c].args.route] =
                      Recorded(stats[capture[c].args.route], capture[c].args.failure)]
      BY <2>5 DEF Ingest
    <3>5. stats' \in [RouteName -> RouteStats]
      BY <3>2, <3>3, <3>4
    <3> QED  BY <2>5, <3>1, <3>5 DEF Ingest
  <2>6. CASE UNCHANGED knowledgeVars
    BY <2>6 DEF knowledgeVars
  <2> QED  BY <2>1, <2>2, <2>3, <2>4, <2>5, <2>6 DEF KnowledgeNext, CaptureStep
<1> QED  BY <1>1, <1>2, PTL DEF KnowledgeSpec

(* A session's state is what its turns make it: each turn up to the count  *)
(* is that of one capture, a prompt has been seen if a turn had it, and    *)
(* the turns above a run of failures all failed, unlike the one before.    *)
InSession(c, s) == Touched(c) /\ capture[c].args.session = s

TurnsExact ==
  /\ \A c \in Capture :
       /\ capture[c].step \in {"idle", "spawned"} => ~Touched(c)
       /\ Touched(c) => /\ capture[c].args.session \in Conversation
                        /\ capture[c].turn <= sessions[capture[c].args.session].turns
  /\ \A c, d \in Capture : c # d /\ SameSession(c, d) => capture[c].turn # capture[d].turn
  /\ \A s \in Conversation : \A i \in 1..sessions[s].turns :
       \E c \in Capture : InSession(c, s) /\ capture[c].turn = i

SeenExact ==
  \A s \in Conversation : \A p :
    p \in sessions[s].seen <=>
      p # NoPrompt /\ \E c \in Capture : InSession(c, s) /\ capture[c].args.prompt = p

FailuresExact ==
  \A s \in Conversation :
    /\ sessions[s].failures <= sessions[s].turns
    /\ \A c \in Capture :
         InSession(c, s) =>
           /\ capture[c].turn > sessions[s].turns - sessions[s].failures
                => capture[c].args.failure
           /\ capture[c].turn = sessions[s].turns - sessions[s].failures
                => ~capture[c].args.failure

SessionsExact == TurnsExact /\ SeenExact /\ OverlapIsExact /\ FailuresExact

(* All four speak only of the turns and arguments of those that have one.  *)
LEMMA SessionsKept ==
  ASSUME KnowledgeTypes, SessionsExact, UNCHANGED sessions,
         \A c \in Capture :
           /\ capture'[c].turn = capture[c].turn
           /\ Touched(c) => /\ capture'[c].args = capture[c].args
                            /\ capture'[c].overlap = capture[c].overlap
           /\ capture'[c].step \in {"idle", "spawned"} =>
                capture[c].step \in {"idle", "spawned"}
  PROVE  SessionsExact'
<1>1. TurnsExact'
  BY DEF SessionsExact, TurnsExact, Touched, SameSession, InSession
<1>2. SeenExact'
  BY DEF SessionsExact, SeenExact, Touched, InSession
<1>3. OverlapIsExact'
  BY DEF SessionsExact, OverlapIsExact, Touched, SameSession
<1>4. FailuresExact'
  BY DEF SessionsExact, FailuresExact, Touched, InSession
<1> QED  BY <1>1, <1>2, <1>3, <1>4 DEF SessionsExact

(* A capture that touches its session takes the next turn.                 *)
LEMMA SessionsTouched ==
  ASSUME KnowledgeTypes, SessionsExact, NEW c \in Capture, Touch(c),
         capture[c].args.session # NoSession
  PROVE  SessionsExact'
<1> DEFINE a == capture[c].args
           s == a.session
           n == sessions[s].turns
           f == sessions[s].failures
<1>1. /\ s \in Conversation /\ n \in Nat /\ f \in Nat
      /\ a.failure \in BOOLEAN
      /\ \A d \in Capture : capture[d].turn \in Nat
      /\ \A t \in Conversation : sessions[t].turns \in Nat /\ sessions[t].failures \in Nat
  BY DEF KnowledgeTypes, Captures, Args, SessionStates
<1>2. /\ capture' = [capture EXCEPT ![c] = [@ EXCEPT !.step = "touched", !.turn = n + 1,
                                    !.overlap = Overlaps(sessions[s], a.prompt)]]
      /\ sessions' = [sessions EXCEPT ![s] =
                         [turns |-> n + 1,
                          seen |-> sessions[s].seen \cup ({a.prompt} \ {NoPrompt}),
                          failures |-> IF a.failure THEN f + 1 ELSE 0]]
      /\ capture[c].step = "spawned"
  BY DEF Touch, At
<1>3. /\ capture'[c].turn = n + 1 /\ capture'[c].args = a /\ capture'[c].step = "touched"
      /\ capture'[c].overlap = Overlaps(sessions[s], a.prompt)
      /\ \A d \in Capture : d # c => capture'[d] = capture[d]
  BY <1>2 DEF KnowledgeTypes, Captures
<1>4. /\ sessions'[s].turns = n + 1
      /\ sessions'[s].seen = sessions[s].seen \cup ({a.prompt} \ {NoPrompt})
      /\ sessions'[s].failures = IF a.failure THEN f + 1 ELSE 0
      /\ \A t \in Conversation : t # s => sessions'[t] = sessions[t]
  BY <1>1, <1>2 DEF KnowledgeTypes, SessionStates
<1>5. ~Touched(c)
  BY <1>2 DEF SessionsExact, TurnsExact
<1>6. \A d \in Capture, t \in Conversation :
        /\ d # c => (InSession(d, t)' <=> InSession(d, t))
        /\ InSession(c, t)' <=> t = s
        /\ ~InSession(c, t)
  BY <1>1, <1>3, <1>5 DEF InSession, Touched
<1>7. \A d \in Capture : InSession(d, s) => capture[d].turn <= n
  BY <1>1 DEF SessionsExact, TurnsExact, InSession
<1>8. \A d, e \in Capture :
        SameSession(d, e) <=> \E t \in Conversation : InSession(d, t) /\ InSession(e, t)
  BY DEF SameSession, InSession, SessionsExact, TurnsExact
<1>9. \A d \in Capture : Touched(d)' => capture'[d].args.session \in Conversation
  BY <1>1, <1>3, <1>5 DEF SessionsExact, TurnsExact, Touched
<1>10. \A d, e \in Capture :
         SameSession(d, e)' <=> \E t \in Conversation : InSession(d, t)' /\ InSession(e, t)'
  BY <1>9 DEF SameSession, InSession
<1> HIDE DEF a, s, n, f
<1>11. TurnsExact'
  <2>1. ASSUME NEW d \in Capture
        PROVE  /\ capture'[d].step \in {"idle", "spawned"} => ~Touched(d)'
               /\ Touched(d)' => /\ capture'[d].args.session \in Conversation
                                 /\ capture'[d].turn <= sessions'[capture'[d].args.session].turns
    <3>1. CASE d = c
      BY <1>1, <1>3, <1>4, <3>1 DEF s, a
    <3>2. CASE d # c
      BY <1>1, <1>3, <1>4, <1>7, <3>2 DEF SessionsExact, TurnsExact, Touched, InSession
    <3> QED  BY <3>1, <3>2
  <2>2. ASSUME NEW d \in Capture, NEW e \in Capture, d # e, SameSession(d, e)'
        PROVE  capture'[d].turn # capture'[e].turn
    <3>1. PICK t \in Conversation : InSession(d, t)' /\ InSession(e, t)'
      BY <1>10, <2>2
    <3>2. CASE d = c
      BY <1>1, <1>3, <1>6, <1>7, <2>2, <3>1, <3>2
    <3>3. CASE e = c
      BY <1>1, <1>3, <1>6, <1>7, <2>2, <3>1, <3>3
    <3>4. CASE d # c /\ e # c
      BY <1>3, <1>6, <1>8, <2>2, <3>1, <3>4 DEF SessionsExact, TurnsExact
    <3> QED  BY <3>2, <3>3, <3>4
  <2>3. ASSUME NEW t \in Conversation, NEW i \in 1..sessions'[t].turns
        PROVE  \E d \in Capture : InSession(d, t)' /\ capture'[d].turn = i
    <3>1. CASE t = s /\ i = n + 1
      BY <1>3, <1>6, <3>1
    <3>2. CASE ~(t = s /\ i = n + 1)
      <4>1. i \in 1..sessions[t].turns
        <5>1. CASE t = s
          <6>1. i \in 1..(n + 1) /\ i # n + 1
            BY <1>4, <2>3, <3>2, <5>1
          <6> QED  BY <1>1, <5>1, <6>1 DEF n
        <5>2. CASE t # s
          BY <1>4, <2>3, <5>2
        <5> QED  BY <5>1, <5>2
      <4>2. PICK d \in Capture : InSession(d, t) /\ capture[d].turn = i
        BY <4>1 DEF SessionsExact, TurnsExact
      <4> QED  BY <1>3, <1>6, <4>2
    <3> QED  BY <3>1, <3>2
  <2> QED  BY <2>1, <2>2, <2>3 DEF TurnsExact
<1>12. SeenExact'
  <2> SUFFICES ASSUME NEW t \in Conversation, NEW p
               PROVE  p \in sessions'[t].seen <=>
                        p # NoPrompt
                          /\ \E d \in Capture : InSession(d, t)' /\ capture'[d].args.prompt = p
    BY DEF SeenExact
  <2>1. p \in sessions[t].seen <=>
          p # NoPrompt /\ \E d \in Capture : InSession(d, t) /\ capture[d].args.prompt = p
    BY DEF SessionsExact, SeenExact
  <2>2. (\E d \in Capture : InSession(d, t)' /\ capture'[d].args.prompt = p)
          <=> \/ t = s /\ a.prompt = p
              \/ \E d \in Capture : InSession(d, t) /\ capture[d].args.prompt = p
    BY <1>3, <1>6
  <2>3. p \in sessions'[t].seen <=>
          p \in sessions[t].seen \/ (t = s /\ p = a.prompt /\ p # NoPrompt)
    BY <1>4
  <2> QED  BY <2>1, <2>2, <2>3
<1>13. OverlapIsExact'
  <2>1. \A d, e \in Capture : d # e /\ SameSession(d, e)' => capture'[d].turn # capture'[e].turn
    BY <1>11 DEF TurnsExact
  <2>2. ASSUME NEW d \in Capture, Touched(d)'
        PROVE  capture'[d].overlap <=>
                 /\ capture'[d].args.prompt # NoPrompt
                 /\ \E e \in Capture : /\ SameSession(d, e)'
                                       /\ capture'[e].turn < capture'[d].turn
                                       /\ capture'[e].args.prompt = capture'[d].args.prompt
    <3>1. CASE d = c
      <4>1. capture'[d].overlap <=> a.prompt \in sessions[s].seen
        BY <1>3, <3>1 DEF Overlaps
      <4>2. a.prompt \in sessions[s].seen <=>
              a.prompt # NoPrompt
                /\ \E e \in Capture : InSession(e, s) /\ capture[e].args.prompt = a.prompt
        BY <1>1 DEF SessionsExact, SeenExact
      <4>3. \A e \in Capture :
              SameSession(d, e)' /\ capture'[e].turn < capture'[d].turn
                <=> InSession(e, s)
        BY <1>1, <1>3, <1>6, <1>7, <1>10, <3>1
      <4>4. \A e \in Capture : InSession(e, s) => capture'[e] = capture[e]
        BY <1>1, <1>3, <1>6
      <4> QED  BY <1>3, <3>1, <4>1, <4>2, <4>3, <4>4
    <3>2. CASE d # c
      <4>1. Touched(d) /\ capture'[d] = capture[d]
        BY <1>3, <2>2, <3>2 DEF Touched
      <4>2. \A e \in Capture :
              SameSession(d, e)' /\ capture'[e].turn < capture'[d].turn
                <=> SameSession(d, e) /\ capture[e].turn < capture[d].turn
        <5> SUFFICES ASSUME NEW e \in Capture
                     PROVE  SameSession(d, e)' /\ capture'[e].turn < capture'[d].turn
                              <=> SameSession(d, e) /\ capture[e].turn < capture[d].turn
          OBVIOUS
        <5>1. CASE e = c
          <6>1. ~SameSession(d, e)
            BY <1>5, <5>1 DEF SameSession
          <6>2. SameSession(d, e)' => capture'[d].turn <= n
            BY <1>3, <1>6, <1>7, <1>10, <3>2, <5>1
          <6> QED  BY <1>1, <1>3, <5>1, <6>1, <6>2, <4>1
        <5>2. CASE e # c
          BY <1>3, <4>1, <5>2 DEF SameSession, Touched
        <5> QED  BY <5>1, <5>2
      <4>3. \A e \in Capture : SameSession(d, e) => capture'[e] = capture[e]
        BY <1>3, <1>5 DEF SameSession
      <4>4. capture[d].overlap <=>
              /\ capture[d].args.prompt # NoPrompt
              /\ \E e \in Capture : /\ SameSession(d, e)
                                    /\ capture[e].turn < capture[d].turn
                                    /\ capture[e].args.prompt = capture[d].args.prompt
        BY <4>1 DEF SessionsExact, OverlapIsExact
      <4> QED  BY <4>1, <4>2, <4>3, <4>4
    <3> QED  BY <3>1, <3>2
  <2> QED  BY <2>1, <2>2 DEF OverlapIsExact
<1>14. FailuresExact'
  <2> SUFFICES ASSUME NEW t \in Conversation
               PROVE  /\ sessions'[t].failures <= sessions'[t].turns
                      /\ \A d \in Capture : InSession(d, t)' =>
                           /\ capture'[d].turn > sessions'[t].turns - sessions'[t].failures
                                => capture'[d].args.failure
                           /\ capture'[d].turn = sessions'[t].turns - sessions'[t].failures
                                => ~capture'[d].args.failure
    BY DEF FailuresExact
  <2>1. /\ sessions[t].failures <= sessions[t].turns
        /\ \A d \in Capture : InSession(d, t) =>
             /\ capture[d].turn > sessions[t].turns - sessions[t].failures
                  => capture[d].args.failure
             /\ capture[d].turn = sessions[t].turns - sessions[t].failures
                  => ~capture[d].args.failure
    BY DEF SessionsExact, FailuresExact
  <2>2. CASE t # s
    BY <1>3, <1>4, <1>6, <2>1, <2>2
  <2>3. CASE t = s /\ a.failure
    <3>1. sessions'[t].turns = n + 1 /\ sessions'[t].failures = f + 1
      BY <1>4, <2>3
    <3>2. (n + 1) - (f + 1) = n - f /\ f <= n
      BY <1>1, <2>1, <2>3 DEF n, f
    <3>3. ASSUME NEW d \in Capture, InSession(d, t)'
          PROVE  /\ capture'[d].turn > n - f => capture'[d].args.failure
                 /\ capture'[d].turn = n - f => ~capture'[d].args.failure
      <4>1. CASE d = c
        BY <1>1, <1>3, <2>3, <3>2, <4>1
      <4>2. CASE d # c
        BY <1>3, <1>6, <2>1, <2>3, <3>3, <4>2 DEF n, f
      <4> QED  BY <4>1, <4>2
    <3> QED  BY <1>1, <3>1, <3>2, <3>3
  <2>4. CASE t = s /\ ~a.failure
    <3>1. sessions'[t].turns = n + 1 /\ sessions'[t].failures = 0
      BY <1>4, <2>4
    <3>2. ASSUME NEW d \in Capture, InSession(d, t)'
          PROVE  /\ ~(capture'[d].turn > n + 1)
                 /\ capture'[d].turn = n + 1 => ~capture'[d].args.failure
      <4>1. CASE d = c
        BY <1>1, <1>3, <2>4, <4>1
      <4>2. CASE d # c
        <5>1. capture'[d].turn <= n
          BY <1>3, <1>6, <1>7, <2>4, <3>2, <4>2
        <5> QED  BY <1>1, <1>3, <4>2, <5>1
      <4> QED  BY <4>1, <4>2
    <3> QED  BY <1>1, <3>1, <3>2
  <2> QED  BY <2>2, <2>3, <2>4
<1> QED  BY <1>11, <1>12, <1>13, <1>14 DEF SessionsExact

LEMMA SessionsInvariant == KnowledgeSpec => []SessionsExact
<1>1. KnowledgeInit => SessionsExact
  <2> SUFFICES ASSUME KnowledgeInit PROVE SessionsExact
    OBVIOUS
  <2>1. /\ \A c \in Capture : ~Touched(c)
        /\ \A s \in Conversation : sessions[s] = NoSessionState
    BY DEF KnowledgeInit, Touched
  <2> QED
    BY <2>1 DEF SessionsExact, TurnsExact, SeenExact, OverlapIsExact, FailuresExact,
                InSession, SameSession, NoSessionState
<1>2. KnowledgeTypes /\ SessionsExact /\ [KnowledgeNext]_knowledgeVars => SessionsExact'
  <2> SUFFICES ASSUME KnowledgeTypes, SessionsExact, [KnowledgeNext]_knowledgeVars
               PROVE  SessionsExact'
    OBVIOUS
  <2>1. ASSUME NEW c \in Capture, NEW a \in Captured, Spawn(c, a) PROVE SessionsExact'
    <3>1. /\ capture' = [capture EXCEPT ![c] = [@ EXCEPT !.step = "spawned", !.args = a]]
          /\ capture[c].step = "idle" /\ UNCHANGED sessions
      BY <2>1 DEF Spawn, At
    <3>2. ~Touched(c)
      BY <3>1 DEF SessionsExact, TurnsExact
    <3> QED  BY <3>1, <3>2, SessionsKept DEF KnowledgeTypes, Captures
  <2>2. ASSUME NEW c \in Capture, NEW to \in {"touched", "told", "head", "answered", "stored", "done"},
               Go(c, to), UNCHANGED sessions
        PROVE  SessionsExact'
    <3>1. /\ capture'[c].step = to
          /\ \A d \in Capture : d # c => capture'[d] = capture[d]
          /\ \A d \in Capture : /\ capture'[d].args = capture[d].args
                                /\ capture'[d].turn = capture[d].turn
                                /\ capture'[d].overlap = capture[d].overlap
      BY <2>2, MovesOn
    <3>2. \A d \in Capture :
            capture'[d].step \in {"idle", "spawned"} => capture[d].step \in {"idle", "spawned"}
      BY <2>2, <3>1
    <3> QED  BY <2>2, <3>1, <3>2, SessionsKept
  <2>3. ASSUME NEW c \in Capture, Touch(c) PROVE SessionsExact'
    <3>1. CASE capture[c].args.session = NoSession
      BY <2>2, <2>3, <3>1 DEF Touch
    <3>2. CASE capture[c].args.session # NoSession
      BY <2>3, <3>2, SessionsTouched
    <3> QED  BY <3>1, <3>2
  <2>4. ASSUME NEW c \in Capture,
               \/ Tell(c) \/ KdnGivesUp(c) \/ KdnHead(c) \/ KdnBody(c)
               \/ Push(c) \/ Ingest(c)
        PROVE  SessionsExact'
    BY <2>2, <2>4 DEF Tell, KdnGivesUp, KdnHead, KdnBody, Push, Ingest
  <2>5. CASE UNCHANGED knowledgeVars
    BY <2>5, SessionsKept DEF knowledgeVars
  <2> QED  BY <2>1, <2>3, <2>4, <2>5 DEF KnowledgeNext, CaptureStep
<1> QED  BY <1>1, <1>2, KnowledgeTypesInvariant, PTL DEF KnowledgeSpec

(* The capture of a turn is the only one, so it is the one that is chosen. *)
LEMMA FailuresFollow == KnowledgeTypes /\ SessionsExact => FailuresAreConsecutive
<1> SUFFICES ASSUME KnowledgeTypes, SessionsExact, NEW s \in Conversation
             PROVE
               LET turn(i) == CHOOSE c \in Capture :
                                /\ Touched(c) /\ capture[c].args.session = s
                                /\ capture[c].turn = i
                   n == sessions[s].turns
                   f == sessions[s].failures
               IN  /\ f <= n
                   /\ \A i \in (n - f + 1)..n : capture[turn(i)].args.failure
                   /\ n > f => ~capture[turn(n - f)].args.failure
  BY DEF FailuresAreConsecutive
<1> DEFINE turn(i) == CHOOSE c \in Capture :
                        /\ Touched(c) /\ capture[c].args.session = s /\ capture[c].turn = i
           n == sessions[s].turns
           f == sessions[s].failures
<1>1. n \in Nat /\ f \in Nat /\ f <= n
  BY DEF KnowledgeTypes, SessionStates, SessionsExact, FailuresExact
<1>2. ASSUME NEW i \in 1..n
      PROVE  turn(i) \in Capture /\ InSession(turn(i), s) /\ capture[turn(i)].turn = i
  <2>1. \E c \in Capture : Touched(c) /\ capture[c].args.session = s /\ capture[c].turn = i
    BY DEF SessionsExact, TurnsExact, InSession
  <2> QED  BY <2>1 DEF InSession
<1> HIDE DEF turn
<1>3. ASSUME NEW i \in (n - f + 1)..n PROVE capture[turn(i)].args.failure
  <2>1. i \in 1..n /\ i > n - f
    BY <1>1
  <2> QED  BY <1>2, <2>1 DEF SessionsExact, FailuresExact
<1>4. ASSUME n > f PROVE ~capture[turn(n - f)].args.failure
  <2>1. n - f \in 1..n
    BY <1>1, <1>4
  <2> QED  BY <1>2, <2>1 DEF SessionsExact, FailuresExact
<1> QED  BY <1>1, <1>3, <1>4 DEF turn

-----------------------------------------------------------------------------
(* The working memory is the end of what was pushed.                       *)

EndOfPushed ==
  /\ Len(memory) = IF Len(pushed) <= Capacity THEN Len(pushed) ELSE Capacity
  /\ \A i \in 1..Len(memory) : memory[i] = pushed[Len(pushed) - Len(memory) + i]

LEMMA MemoryInvariant == KnowledgeSpec => []EndOfPushed
<1>1. KnowledgeInit => EndOfPushed
  BY CapacityAssumption DEF KnowledgeInit, EndOfPushed
<1>2. KnowledgeTypes /\ EndOfPushed /\ [KnowledgeNext]_knowledgeVars => EndOfPushed'
  <2> SUFFICES ASSUME KnowledgeTypes, EndOfPushed, [KnowledgeNext]_knowledgeVars
               PROVE  EndOfPushed'
    OBVIOUS
  <2>1. ASSUME NEW c \in Capture, Push(c) PROVE EndOfPushed'
    <3> DEFINE e == capture[c].args
               l == Len(memory)
               n == Len(pushed)
    <3>1. /\ e \in Args /\ memory \in Seq(Args) /\ pushed \in Seq(Args)
          /\ pushed' = Append(pushed, e)
      BY <2>1 DEF Push, KnowledgeTypes, Captures
    <3>2. /\ n \in Nat /\ l \in Nat /\ Len(pushed') = n + 1
          /\ pushed'[n + 1] = e
          /\ \A i \in 1..n : pushed'[i] = pushed[i]
      BY <3>1
    <3>3. l <= n /\ l <= Capacity /\ l = (IF n <= Capacity THEN n ELSE Capacity)
      BY <3>2, CapacityAssumption DEF EndOfPushed
    <3>4. CASE l >= Capacity
      <4>1. memory' = Append(Tail(memory), e)
        BY <2>1, <3>4 DEF Push, Remembered
      <4>2. /\ Len(memory') = l
            /\ memory'[l] = e
            /\ \A i \in 1..(l - 1) : memory'[i] = memory[i + 1]
        BY <3>1, <3>2, <3>4, <4>1, CapacityAssumption
      <4>3. l = Capacity /\ n >= Capacity
        BY <3>2, <3>3, <3>4, CapacityAssumption
      <4>4. ASSUME NEW i \in 1..l PROVE memory'[i] = pushed'[n + 1 - l + i]
        <5>1. CASE i = l
          BY <3>2, <4>2, <5>1
        <5>2. CASE i # l
          <6>1. i \in 1..(l - 1) /\ i + 1 \in 1..l /\ n - l + (i + 1) \in 1..n
            BY <3>2, <3>3, <5>2
          <6>2. memory'[i] = pushed[n - l + (i + 1)]
            BY <4>2, <6>1 DEF EndOfPushed
          <6>3. n - l + (i + 1) = n + 1 - l + i
            BY <3>2
          <6> QED  BY <3>2, <6>1, <6>2, <6>3
        <5> QED  BY <5>1, <5>2
      <4>5. Len(memory') = IF Len(pushed') <= Capacity THEN Len(pushed') ELSE Capacity
        BY <3>2, <4>2, <4>3, CapacityAssumption
      <4>6. \A i \in 1..Len(memory') : memory'[i] = pushed'[Len(pushed') - Len(memory') + i]
        BY <3>2, <4>2, <4>4
      <4> QED  BY <4>5, <4>6 DEF EndOfPushed
    <3>5. CASE l < Capacity
      <4>1. memory' = Append(memory, e)
        BY <2>1, <3>2, <3>5, CapacityAssumption DEF Push, Remembered
      <4>2. l = n
        BY <3>2, <3>3, <3>5, CapacityAssumption
      <4>3. /\ Len(memory') = l + 1 /\ memory'[l + 1] = e
            /\ \A i \in 1..l : memory'[i] = memory[i]
        BY <3>1, <4>1
      <4>4. ASSUME NEW i \in 1..(l + 1) PROVE memory'[i] = pushed'[n + 1 - (l + 1) + i]
        <5>1. CASE i = l + 1
          BY <3>2, <4>2, <4>3, <5>1
        <5>2. CASE i # l + 1
          <6>1. i \in 1..l
            BY <3>2, <5>2
          <6>2. memory'[i] = pushed[n - l + i] /\ n - l + i = i
            BY <3>2, <4>2, <4>3, <6>1 DEF EndOfPushed
          <6> QED  BY <3>2, <4>2, <6>1, <6>2
        <5> QED  BY <5>1, <5>2
      <4> QED  BY <3>2, <3>5, <4>2, <4>3, <4>4, CapacityAssumption DEF EndOfPushed
    <3> QED  BY <3>2, <3>4, <3>5, CapacityAssumption
  <2>2. CASE UNCHANGED <<memory, pushed>>
    BY <2>2 DEF EndOfPushed
  <2> QED
    BY <2>1, <2>2 DEF KnowledgeNext, CaptureStep, knowledgeVars, Spawn, Touch, Tell,
                      KdnGivesUp, KdnHead, KdnBody, Ingest
<1> QED  BY <1>1, <1>2, KnowledgeTypesInvariant, PTL DEF KnowledgeSpec

(* Among finite sets there is one that is minimal for inclusion, so a set  *)
(* of numbers that has an upper bound has a largest element.               *)
LEMMA SmallestFinite ==
  ASSUME NEW F, F # {}, \A S \in F : IsFiniteSet(S)
  PROVE  \E S \in F : \A R \in F : R \subseteq S => R = S
<1> DEFINE U == UNION F
<1>1. F \subseteq FiniteSubsetsOf(U)
  BY DEF FiniteSubsetsOf
<1>2. PICK S \in F : \A R \in F : <<R, S>> \notin StrictSubsetOrdering(U)
  BY <1>1, FS_StrictSubsetOrderingWellFounded, WFMin
<1>3. \A R \in F : R \subseteq S => R = S
  BY <1>2 DEF StrictSubsetOrdering
<1> QED  BY <1>3

LEMMA Largest ==
  ASSUME NEW n \in Nat, NEW T \in SUBSET (1..n), T # {}
  PROVE  \E x \in T : \A y \in T : y <= x
<1> DEFINE F == {x..n : x \in T}
<1>1. F # {}
  OBVIOUS
<1>2. \A S \in F : \E x \in T : S = x..n
  OBVIOUS
<1>3. \A x \in T : x..n \in F
  OBVIOUS
<1>4. \A S \in F : IsFiniteSet(S)
  BY <1>2, FS_Interval
<1> HIDE DEF F
<1>5. PICK S \in F : \A R \in F : R \subseteq S => R = S
  BY <1>1, <1>4, SmallestFinite
<1>6. PICK x \in T : S = x..n
  BY <1>2, <1>5
<1>7. ASSUME NEW y \in T, y > x PROVE FALSE
  <2>1. y..n \in F /\ y..n \subseteq S
    BY <1>3, <1>6, <1>7
  <2>2. x \in y..n
    BY <1>5, <1>6, <2>1
  <2> QED  BY <1>7, <2>2
<1> QED  BY <1>6, <1>7

(* The last entry of a prompt in the memory is its last push.              *)
LEMMA ReplayFollows == KnowledgeTypes /\ EndOfPushed => ReplayIsLatest
<1> SUFFICES ASSUME KnowledgeTypes, EndOfPushed, NEW p \in Prompt
             PROVE
               LET hits == {i \in DOMAIN pushed : /\ pushed[i].prompt = p
                                                  /\ i > Len(pushed) - Capacity}
               IN  Lookup(p) = IF hits = {} THEN <<>>
                               ELSE <<pushed[CHOOSE i \in hits : \A j \in hits : j <= i]>>
  BY DEF ReplayIsLatest
<1> DEFINE n == Len(pushed)
           l == Len(memory)
           hits == {i \in DOMAIN pushed : pushed[i].prompt = p /\ i > n - Capacity}
           mine == {i \in DOMAIN memory : memory[i].prompt = p}
           last(S) == CHOOSE i \in S : \A j \in S : j <= i
<1>1. /\ n \in Nat /\ l \in Nat /\ l <= n
      /\ DOMAIN pushed = 1..n /\ DOMAIN memory = 1..l
      /\ \A i \in 1..n : i > n - Capacity <=> i > n - l
  BY CapacityAssumption DEF KnowledgeTypes, EndOfPushed
<1>2. hits \subseteq 1..n /\ mine \subseteq 1..l
  BY <1>1
<1>3. \A i \in 1..l : i \in mine <=> n - l + i \in hits
  <2> SUFFICES ASSUME NEW i \in 1..l PROVE i \in mine <=> n - l + i \in hits
    OBVIOUS
  <2>1. n - l + i \in 1..n /\ n - l + i > n - l
    BY <1>1
  <2>2. memory[i] = pushed[n - l + i]
    BY DEF EndOfPushed
  <2> QED  BY <1>1, <2>1, <2>2
<1>4. \A k \in hits : k - (n - l) \in mine /\ n - l + (k - (n - l)) = k
  <2> SUFFICES ASSUME NEW k \in hits
               PROVE  k - (n - l) \in mine /\ n - l + (k - (n - l)) = k
    OBVIOUS
  <2>1. k \in 1..n /\ k > n - l
    BY <1>1
  <2>2. k - (n - l) \in 1..l /\ n - l + (k - (n - l)) = k
    BY <1>1, <2>1
  <2> QED  BY <1>3, <2>2
<1>5. Lookup(p) = IF mine = {} THEN <<>> ELSE <<memory[last(mine)]>>
  BY DEF Lookup
<1>6. ASSUME NEW m \in Nat, NEW S \in SUBSET (1..m), S # {}
      PROVE  last(S) \in S /\ \A j \in S : j <= last(S)
  <2>1. \E i \in S : \A j \in S : j <= i
    BY <1>6, Largest
  <2> QED  BY <2>1
<1>7. SUFFICES Lookup(p) = IF hits = {} THEN <<>> ELSE <<pushed[last(hits)]>>
  OBVIOUS
<1> HIDE DEF hits, mine, last
<1>8. CASE hits = {}
  BY <1>1, <1>2, <1>3, <1>5, <1>8
<1>9. CASE hits # {}
  <2>1. mine # {}
    BY <1>4, <1>9
  <2>2. last(mine) \in mine /\ \A j \in mine : j <= last(mine)
    BY <1>1, <1>2, <1>6, <2>1
  <2>3. last(hits) \in hits /\ \A j \in hits : j <= last(hits)
    BY <1>1, <1>2, <1>6, <1>9
  <2>4. last(hits) = n - l + last(mine)
    <3>1. n - l + last(mine) \in hits /\ n - l + last(mine) <= last(hits)
      BY <1>2, <1>3, <2>2, <2>3
    <3>2. last(hits) - (n - l) <= last(mine)
      BY <1>4, <2>2, <2>3
    <3>3. last(hits) \in Nat /\ last(mine) \in Nat
      <4>1. last(hits) \in 1..n /\ last(mine) \in 1..l
        BY <1>2, <2>2, <2>3
      <4> QED  BY <1>1, <4>1
    <3> QED  BY <1>1, <3>1, <3>2, <3>3
  <2>5. memory[last(mine)] = pushed[n - l + last(mine)]
    BY <1>2, <2>2 DEF EndOfPushed
  <2> QED  BY <1>5, <1>9, <2>1, <2>4, <2>5
<1> QED  BY <1>8, <1>9

-----------------------------------------------------------------------------
(* Every capture that is done was counted once.  Only finitely many have   *)
(* begun, however many there are.                                          *)

Begun == {c \in Capture : ~At(c, "idle")}
Counted(r, b) == {c \in Capture : /\ At(c, "done") /\ capture[c].args.route = r
                                  /\ capture[c].args.failure = b}

CountsExact ==
  \A r \in RouteName :
    /\ stats[r].ok = Cardinality(Counted(r, FALSE))
    /\ stats[r].failed = Cardinality(Counted(r, TRUE))
    /\ stats[r].total = stats[r].ok + stats[r].failed

StatsInvariant == IsFiniteSet(Begun) /\ CountsExact

(* A step that takes no capture to "done" and no done one elsewhere leaves *)
(* the counts.                                                             *)
LEMMA StatsKept ==
  ASSUME KnowledgeTypes, StatsInvariant, NEW c \in Capture, UNCHANGED stats,
         ~At(c, "done"), ~At(c, "done")', capture' \in [Capture -> Captures],
         \A d \in Capture : d # c => capture'[d] = capture[d]
  PROVE  StatsInvariant'
<1>1. Begun' \subseteq Begun \cup {c}
  BY DEF Begun, At
<1>2. IsFiniteSet(Begun')
  <2>1. IsFiniteSet(Begun \cup {c})
    BY FS_AddElement DEF StatsInvariant
  <2> QED  BY <1>1, <2>1, FS_Subset
<1>3. \A r, b : Counted(r, b)' = Counted(r, b)
  BY DEF Counted, At
<1> QED  BY <1>2, <1>3 DEF StatsInvariant, CountsExact

LEMMA StatsIngested ==
  ASSUME KnowledgeTypes, StatsInvariant, NEW c \in Capture, Ingest(c)
  PROVE  StatsInvariant'
<1> DEFINE a == capture[c].args
<1>1. /\ a \in Args /\ a.route \in RouteName /\ a.failure \in BOOLEAN
      /\ capture[c].step = "stored" /\ Go(c, "done")
      /\ stats' = [stats EXCEPT ![a.route] = Recorded(@, a.failure)]
  BY DEF Ingest, At, KnowledgeTypes, Captures, Args
<1>2. /\ capture'[c].step = "done"
      /\ \A d \in Capture : d # c => capture'[d] = capture[d]
      /\ \A d \in Capture : capture'[d].args = capture[d].args
  BY <1>1, MovesOn
<1>3. IsFiniteSet(Begun')
  <2>1. Begun' \subseteq Begun
    BY <1>1, <1>2 DEF Begun, At
  <2> QED  BY <2>1, FS_Subset DEF StatsInvariant
<1>4. ASSUME NEW r, NEW b
      PROVE  Counted(r, b)' = IF r = a.route /\ b = a.failure THEN Counted(r, b) \cup {c}
                              ELSE Counted(r, b)
  BY <1>1, <1>2 DEF Counted, At
<1>5. \A r, b : /\ c \notin Counted(r, b)
                /\ IsFiniteSet(Counted(r, b)) /\ Cardinality(Counted(r, b)) \in Nat
  <2> SUFFICES ASSUME NEW r, NEW b
               PROVE  /\ c \notin Counted(r, b)
                      /\ IsFiniteSet(Counted(r, b)) /\ Cardinality(Counted(r, b)) \in Nat
    OBVIOUS
  <2>1. c \notin Counted(r, b) /\ Counted(r, b) \subseteq Begun
    BY <1>1 DEF Counted, Begun, At
  <2> QED  BY <2>1, FS_Subset, FS_CardinalityType DEF StatsInvariant
<1>6. \A r, b : Cardinality(Counted(r, b) \cup {c}) = Cardinality(Counted(r, b)) + 1
  BY <1>5, FS_AddElement
<1>7. ASSUME NEW r \in RouteName
      PROVE  /\ stats'[r].ok = Cardinality(Counted(r, FALSE)')
             /\ stats'[r].failed = Cardinality(Counted(r, TRUE)')
             /\ stats'[r].total = stats'[r].ok + stats'[r].failed
  <2>1. /\ stats[r].ok = Cardinality(Counted(r, FALSE))
        /\ stats[r].failed = Cardinality(Counted(r, TRUE))
    BY DEF StatsInvariant, CountsExact
  <2>2. /\ stats[r].total \in Nat /\ stats[r].ok \in Nat /\ stats[r].failed \in Nat
        /\ stats[r].total = stats[r].ok + stats[r].failed
    BY DEF StatsInvariant, CountsExact, KnowledgeTypes, RouteStats
  <2>3. CASE r # a.route
    <3>1. stats'[r] = stats[r]
      BY <1>1, <2>3 DEF KnowledgeTypes
    <3> QED  BY <1>4, <2>1, <2>2, <2>3, <3>1
  <2>4. CASE r = a.route /\ a.failure
    <3>1. /\ stats'[r].total = stats[r].total + 1 /\ stats'[r].ok = stats[r].ok
          /\ stats'[r].failed = stats[r].failed + 1
      BY <1>1, <2>4 DEF KnowledgeTypes, Recorded
    <3>2. Counted(r, TRUE)' = Counted(r, TRUE) \cup {c} /\ Counted(r, FALSE)' = Counted(r, FALSE)
      BY <1>1, <1>4, <2>4
    <3>3. Cardinality(Counted(r, TRUE)') = Cardinality(Counted(r, TRUE)) + 1
      BY <1>6, <3>2
    <3>4. stats'[r].failed = Cardinality(Counted(r, TRUE)')
      BY <2>1, <3>1, <3>3
    <3>5. stats'[r].ok = Cardinality(Counted(r, FALSE)')
      BY <2>1, <3>1, <3>2
    <3>6. stats'[r].total = stats'[r].ok + stats'[r].failed
      BY <2>2, <3>1
    <3> QED  BY <3>4, <3>5, <3>6
  <2>5. CASE r = a.route /\ ~a.failure
    <3>1. /\ stats'[r].total = stats[r].total + 1 /\ stats'[r].ok = stats[r].ok + 1
          /\ stats'[r].failed = stats[r].failed
      BY <1>1, <2>5 DEF KnowledgeTypes, Recorded
    <3>2. Counted(r, FALSE)' = Counted(r, FALSE) \cup {c} /\ Counted(r, TRUE)' = Counted(r, TRUE)
      BY <1>1, <1>4, <2>5
    <3>3. Cardinality(Counted(r, FALSE)') = Cardinality(Counted(r, FALSE)) + 1
      BY <1>6, <3>2
    <3>4. stats'[r].ok = Cardinality(Counted(r, FALSE)')
      BY <2>1, <3>1, <3>3
    <3>5. stats'[r].failed = Cardinality(Counted(r, TRUE)')
      BY <2>1, <3>1, <3>2
    <3>6. stats'[r].total = stats'[r].ok + stats'[r].failed
      BY <2>2, <3>1
    <3> QED  BY <3>4, <3>5, <3>6
  <2> QED  BY <2>3, <2>4, <2>5
<1> QED  BY <1>3, <1>7 DEF StatsInvariant, CountsExact

LEMMA StatsStayExact == KnowledgeSpec => []StatsInvariant
<1>1. KnowledgeInit => StatsInvariant
  <2> SUFFICES ASSUME KnowledgeInit PROVE StatsInvariant
    OBVIOUS
  <2>1. \A c \in Capture : capture[c].step = "idle"
    BY DEF KnowledgeInit
  <2>2. Begun = {} /\ \A r, b : Counted(r, b) = {}
    BY <2>1 DEF Begun, Counted, At
  <2>3. \A r \in RouteName : stats[r] = NoStats
    BY DEF KnowledgeInit
  <2>4. /\ IsFiniteSet(Begun)
        /\ \A r : Cardinality(Counted(r, FALSE)) = 0 /\ Cardinality(Counted(r, TRUE)) = 0
    BY <2>2, FS_EmptySet
  <2>5. CountsExact
    <3>1. \A r \in RouteName : /\ stats[r].ok = 0 /\ stats[r].failed = 0
                               /\ stats[r].total = stats[r].ok + stats[r].failed
      BY <2>3 DEF NoStats
    <3> QED  BY <2>4, <3>1 DEF CountsExact
  <2> QED  BY <2>4, <2>5 DEF StatsInvariant
<1>2. KnowledgeTypes /\ KnowledgeTypes' /\ StatsInvariant /\ [KnowledgeNext]_knowledgeVars
        => StatsInvariant'
  <2> SUFFICES ASSUME KnowledgeTypes, KnowledgeTypes', StatsInvariant, [KnowledgeNext]_knowledgeVars
               PROVE  StatsInvariant'
    OBVIOUS
  <2>1. ASSUME NEW c \in Capture, NEW a \in Captured, Spawn(c, a) PROVE StatsInvariant'
    <3>1. ~At(c, "done") /\ ~At(c, "done")' /\ UNCHANGED stats
      BY <2>1 DEF Spawn, At, KnowledgeTypes, Captures
    <3>2. \A d \in Capture : d # c => capture'[d] = capture[d]
      BY <2>1 DEF Spawn, KnowledgeTypes
    <3> QED  BY <3>1, <3>2, StatsKept DEF KnowledgeTypes
  <2>2. ASSUME NEW c \in Capture, NEW to, Go(c, to), to # "done", ~At(c, "done"), UNCHANGED stats
        PROVE  StatsInvariant'
    <3>1. /\ ~At(c, "done")'
          /\ \A d \in Capture : d # c => capture'[d] = capture[d]
      BY <2>2, MovesOn DEF At
    <3> QED  BY <2>2, <3>1, StatsKept DEF KnowledgeTypes
  <2>3. ASSUME NEW c \in Capture, Touch(c) PROVE StatsInvariant'
    <3>1. CASE capture[c].args.session = NoSession
      BY <2>2, <2>3, <3>1 DEF Touch, At
    <3>2. CASE capture[c].args.session # NoSession
      <4>1. ~At(c, "done") /\ ~At(c, "done")' /\ UNCHANGED stats
        <5>1. At(c, "spawned") /\ UNCHANGED stats
          BY <2>3, <3>2 DEF Touch
        <5>2. PICK n, b : capture' =
                [capture EXCEPT ![c] = [capture[c] EXCEPT !.step = "touched", !.turn = n, !.overlap = b]]
          BY <2>3, <3>2, Zenon DEF Touch
        <5>3. [capture[c] EXCEPT !.step = "touched", !.turn = n, !.overlap = b].step = "touched"
          BY DEF KnowledgeTypes, Captures
        <5>4. capture'[c].step = "touched"
          BY <5>2, <5>3 DEF KnowledgeTypes
        <5> QED  BY <5>1, <5>4 DEF At
      <4>2. \A d \in Capture : d # c => capture'[d] = capture[d]
        BY <2>3, <3>2 DEF Touch, KnowledgeTypes
      <4> QED  BY <4>1, <4>2, StatsKept DEF KnowledgeTypes
    <3> QED  BY <3>1, <3>2
  <2>4. ASSUME NEW c \in Capture, Tell(c) \/ KdnGivesUp(c) \/ KdnHead(c) \/ KdnBody(c) \/ Push(c)
        PROVE  StatsInvariant'
    BY <2>2, <2>4 DEF Tell, KdnGivesUp, KdnHead, KdnBody, Push, At
  <2>5. CASE UNCHANGED knowledgeVars
    <3>1. UNCHANGED <<capture, stats>>
      BY <2>5 DEF knowledgeVars
    <3> QED  BY <3>1 DEF StatsInvariant, CountsExact, Counted, Begun, At
  <2> QED  BY <2>1, <2>3, <2>4, <2>5, StatsIngested DEF KnowledgeNext, CaptureStep
<1> QED  BY <1>1, <1>2, KnowledgeTypesInvariant, PTL DEF KnowledgeSpec

(* Sessions, working memory and statistics are those of the captured       *)
(* requests, in whatever order their tasks reach them: turns are unique    *)
(* and repetitions exact, the failures are the last consecutive ones, a    *)
(* replay is the latest one, each request is counted once.                 *)
THEOREM CapturesStayConsistent == KnowledgeSpec => []CapturesConsistent
<1>1. KnowledgeTypes /\ EndOfPushed => KnowledgeTypeOK
  <2> SUFFICES ASSUME KnowledgeTypes, EndOfPushed PROVE KnowledgeTypeOK
    OBVIOUS
  <2>1. Len(memory) <= Capacity
    BY CapacityAssumption DEF KnowledgeTypes, EndOfPushed
  <2>2. \A c \in Capture : capture[c] \in Captures
    BY DEF KnowledgeTypes
  <2> QED
    BY <2>1, <2>2 DEF KnowledgeTypes, KnowledgeTypeOK, Captures, SessionStates, RouteStats
<1>2. StatsInvariant => StatsAreExact
  BY DEF StatsInvariant, CountsExact, StatsAreExact, Counted
<1>3. KnowledgeTypes /\ SessionsExact /\ EndOfPushed /\ StatsInvariant => CapturesConsistent
  BY <1>1, <1>2, FailuresFollow, ReplayFollows DEF CapturesConsistent, SessionsExact
<1> QED
  BY <1>3, KnowledgeTypesInvariant, SessionsInvariant, MemoryInvariant, StatsStayExact, PTL

-----------------------------------------------------------------------------
(***************************************************************************)
(* TaskRouter: a plan that is accepted can be carried out, whatever the    *)
(* language model answers and however many ask at once; its decision is    *)
(* found by the execution that is reported.                                *)
(***************************************************************************)

(* Induction along 0..m *)

(* A set of naturals has a least element.                                   *)
LEMMA NatMin ==
  ASSUME NEW T, T \subseteq Nat, T # {}
  PROVE \E x \in T : \A y \in T : x <= y
<1> DEFINE R == {ss \in Nat \X Nat : ss[1] < ss[2]}
<1>1. IsWellFoundedOn(R, Nat)
  BY NatLessThanWellFounded DEF OpToRel
<1>2. \E x \in T : \A y \in T : ~(<<y, x>> \in R)
  <2> HIDE DEF R
  <2> QED BY <1>1, WFMin
<1>3. PICK x \in T : \A y \in T : <<y, x>> \notin R
  BY <1>2
<1>4. ASSUME NEW y \in T PROVE x <= y
  <2>1. x \in Nat /\ y \in Nat
    OBVIOUS
  <2>2. <<y, x>> \notin R
    BY <1>3
  <2>3. <<y, x>> \in R <=> y < x
    BY <2>1
  <2> QED BY <2>1, <2>2, <2>3
<1> QED BY <1>4

(* What holds at the first place and of each place after one where it holds, *)
(* holds everywhere. *)
LEMMA EachInTurn ==
  ASSUME NEW m \in Nat, NEW H, 0 \in H, \A i \in 1..m : i - 1 \in H => i \in H
  PROVE  \A i \in 0..m : i \in H
<1> DEFINE T == {i \in 0..m : i \notin H}
<1> SUFFICES ASSUME T # {} PROVE FALSE
  OBVIOUS
<1>1. T \subseteq Nat
  OBVIOUS
<1>2. PICK i \in T : \A j \in T : i <= j
  <2> HIDE DEF T
  <2> QED BY <1>1, NatMin
<1>3. i \in 1..m
  OBVIOUS
<1>4. i - 1 \in 0..m /\ ~(i <= i - 1)
  BY <1>3
<1>5. i - 1 \in H
  BY <1>2, <1>4
<1> QED BY <1>3, <1>5

(* A value for each place, each from the one before: there is a function   *)
(* that has them.                                                          *)
Stepwise(f, j, b, step) == f[0] = b /\ \A i \in 1..j : f[i] = step[<<i, f[i - 1]>>]

LEMMA StepsExist ==
  ASSUME NEW X, NEW b \in X, NEW m \in Nat, NEW step \in [(1..m) \X X -> X]
  PROVE  \E f \in [0..m -> X] : Stepwise(f, m, b, step)
<1> DEFINE H == {j \in 0..m : \E f \in [0..j -> X] : Stepwise(f, j, b, step)}
<1>1. 0 \in H
  <2> DEFINE g == [i \in 0..0 |-> b]
  <2>1. g \in [0..0 -> X] /\ g[0] = b /\ 0 \in 0..m
    OBVIOUS
  <2> HIDE DEF g
  <2>2. Stepwise(g, 0, b, step)
    BY <2>1 DEF Stepwise
  <2> QED BY <2>1, <2>2
<1>2. ASSUME NEW j \in 1..m, j - 1 \in H  PROVE j \in H
  <2>1. PICK f \in [0..(j - 1) -> X] : Stepwise(f, j - 1, b, step)
    BY <1>2
  <2> DEFINE y == step[<<j, f[j - 1]>>]
             g == [i \in 0..j |-> IF i = j THEN y ELSE f[i]]
  <2>2. j \in Nat /\ j - 1 \in 0..(j - 1) /\ j \in 0..m /\ j \in 0..j /\ 0 \in 0..(j - 1)
    OBVIOUS
  <2>3. f[j - 1] \in X
    BY <2>2
  <2>10. y \in X
    BY <2>3
  <2> HIDE DEF y
  <2>4. \A i \in 0..j : i # j => i \in 0..(j - 1)
    BY <2>2
  <2>11. \A i \in 0..(j - 1) : i \in 0..j /\ i # j
    BY <2>2
  <2>5. g \in [0..j -> X]
    BY <2>4, <2>10
  <2>6. g[j] = y /\ \A i \in 0..(j - 1) : g[i] = f[i]
    BY <2>2, <2>11
  <2> HIDE DEF g
  <2>7. g[0] = b
    BY <2>1, <2>2, <2>6 DEF Stepwise
  <2>8. ASSUME NEW i \in 1..j  PROVE g[i] = step[<<i, g[i - 1]>>]
    <3>1. CASE i = j
      BY <2>2, <2>6, <3>1 DEF y
    <3>2. CASE i # j
      <4>1. i \in 1..(j - 1) /\ i \in 0..(j - 1) /\ i - 1 \in 0..(j - 1)
        BY <2>2, <3>2
      <4> QED BY <2>1, <2>6, <4>1 DEF Stepwise
    <3> QED BY <3>1, <3>2
  <2>9. Stepwise(g, j, b, step)
    BY <2>7, <2>8 DEF Stepwise
  <2> QED BY <2>2, <2>5, <2>9
<1>3. m \in 0..m
  OBVIOUS
<1>4. m \in H
  <2> HIDE DEF H
  <2> QED BY <1>1, <1>2, <1>3, EachInTurn
<1> QED BY <1>4

(* The search for a circle visits one subtask after the other.              *)
Visits(dag) == [Subtasks(dag) \X Searches(dag) -> Searches(dag)]

Turns(after, visit, ns, s) ==
  /\ after[0] = s
  /\ \A i \in 1..Len(ns) :
       after[i] = IF after[i - 1].cycle THEN after[i - 1] ELSE visit[<<ns[i], after[i - 1]>>]

(* What InTurn computes is reached step by step. *)
TurnsOf(visit, ns, s) ==
  CHOOSE f : f = [i \in 0..Len(ns) |->
                    IF i = 0 THEN s
                    ELSE IF f[i - 1].cycle THEN f[i - 1]
                    ELSE visit[<<ns[i], f[i - 1]>>]]

LEMMA InTurnSteps ==
  ASSUME NEW dag, NEW visit \in Visits(dag), NEW ns \in Seq(Subtasks(dag)),
         NEW s \in Searches(dag)
  PROVE  /\ TurnsOf(visit, ns, s) \in [0..Len(ns) -> Searches(dag)]
         /\ Turns(TurnsOf(visit, ns, s), visit, ns, s)
         /\ InTurn(visit, ns, s) = TurnsOf(visit, ns, s)[Len(ns)]
<1> DEFINE m == Len(ns)
           V == Subtasks(dag)
           S == Searches(dag)
           step == [p \in (1..m) \X S |-> IF p[2].cycle THEN p[2] ELSE visit[<<ns[p[1]], p[2]>>]]
           Body(f) == [i \in 0..m |->
                         IF i = 0 THEN s
                         ELSE IF f[i - 1].cycle THEN f[i - 1]
                         ELSE visit[<<ns[i], f[i - 1]>>]]
           g == TurnsOf(visit, ns, s)
<1>0. visit \in [V \X S -> S] /\ ns \in Seq(V) /\ s \in S
  BY DEF Visits
<1>1. m \in Nat /\ \A i \in 1..m : ns[i] \in V
  OBVIOUS
<1> HIDE DEF V, S
<1>2. step \in [(1..m) \X S -> S]
  BY <1>0, <1>1
<1>3. \A i \in 1..m, x \in S :
        step[<<i, x>>] = IF x.cycle THEN x ELSE visit[<<ns[i], x>>]
  BY <1>1
<1> HIDE DEF step
<1>4. PICK f \in [0..m -> S] : Stepwise(f, m, s, step)
  <2> HIDE DEF m
  <2> QED BY <1>0, <1>1, <1>2, StepsExist
<1>5. /\ f[0] = s
      /\ \A i \in 1..m : f[i] = IF f[i - 1].cycle THEN f[i - 1] ELSE visit[<<ns[i], f[i - 1]>>]
  <2>1. \A i \in 1..m : i - 1 \in 0..m /\ f[i - 1] \in S
    BY <1>1
  <2> QED BY <1>3, <1>4, <2>1 DEF Stepwise
<1>6. f = Body(f)
  <2>1. \A i \in 0..m : i = 0 \/ i \in 1..m
    BY <1>1
  <2> QED BY <1>5, <2>1
<1>7. g = Body(g)
  BY <1>6 DEF TurnsOf
<1>8. InTurn(visit, ns, s) = g[m]
  BY DEF InTurn, TurnsOf
<1> HIDE DEF g
<1>9. Turns(g, visit, ns, s)
  <2>1. \A i \in 1..m : i \in 0..m /\ i # 0
    BY <1>1
  <2> QED BY <1>1, <1>7, <2>1 DEF Turns
<1>10. g \in [0..m -> S]
  <2> DEFINE H == {i \in 0..m : g[i] \in S}
  <2>1. 0 \in H
    BY <1>0, <1>1, <1>9 DEF Turns
  <2>2. ASSUME NEW i \in 1..m, i - 1 \in H  PROVE i \in H
    <3>1. g[i - 1] \in S /\ i \in 0..m /\ ns[i] \in V
      BY <1>1, <2>2
    <3>2. g[i] = IF g[i - 1].cycle THEN g[i - 1] ELSE visit[<<ns[i], g[i - 1]>>]
      BY <1>9 DEF Turns
    <3> QED BY <1>0, <3>1, <3>2
  <2>3. \A i \in 0..m : i \in H
    <3> HIDE DEF H, m
    <3> QED BY <1>1, <2>1, <2>2, EachInTurn
  <2> QED BY <1>7, <2>3
<1> QED BY <1>8, <1>9, <1>10 DEF g, S

-----------------------------------------------------------------------------
LEMMA Listing ==
  ASSUME NEW C, IsFiniteSet(C)
  PROVE  SetToSeq(C) \in Seq(C) /\ \A y \in C : \E i \in 1..Len(SetToSeq(C)) : SetToSeq(C)[i] = y
<1> DEFINE m == Cardinality(C)
           q == SetToSeq(C)
<1>1. m \in Nat /\ ExistsBijection(1..m, C)
  BY FS_CardinalityType
<1> HIDE DEF m
<1>2. \E f \in [1..m -> C] : IsInjective(f)
  BY <1>1 DEF ExistsBijection, Bijection, Injection
<1>3. q \in [1..m -> C] /\ IsInjective(q)
  BY <1>2 DEF SetToSeq, m
<1> HIDE DEF q
<1>4. q \in Injection(1..m, C)
  BY <1>3 DEF Injection
<1>5. Cardinality(1..m) = m
  BY <1>1, FS_Interval
<1>6. q \in Surjection(1..m, C)
  BY <1>4, <1>5, FS_Injection DEF m
<1>7. q \in Seq(C) /\ Len(q) = m
  BY <1>1, <1>3
<1>8. \A y \in C : \E i \in 1..m : q[i] = y
  BY <1>6 DEF Surjection
<1> QED BY <1>7, <1>8 DEF q

LEMMA NeighborsAre ==
  ASSUME NEW dag \in Dag, NEW n \in Subtasks(dag)
  PROVE  /\ Neighbors(dag, n) \in Seq(Subtasks(dag))
         /\ \A y \in Dependents(dag, n) :
              \E i \in 1..Len(Neighbors(dag, n)) : Neighbors(dag, n)[i] = y
<1> DEFINE E == {e \in dag.edges : e[1] = n}
           C == {e[2] : e \in E}
           h == [e \in E |-> e[2]]
<1>1. IsFiniteSet(E)
  BY DagAssumption, FS_Subset
<1>2. h \in Surjection(E, C)
  BY DEF Surjection
<1>3. IsFiniteSet(C)
  BY <1>1, <1>2, FS_Surjection
<1>4. C \subseteq Subtasks(dag)
  BY DEF Subtasks
<1>5. Dependents(dag, n) \subseteq C
  BY DEF Dependents
<1>6. Neighbors(dag, n) = SetToSeq(C)
  BY DEF Neighbors
<1> HIDE DEF C
<1> DEFINE q == SetToSeq(C)
<1>7. q \in Seq(C) /\ \A y \in C : \E i \in 1..Len(q) : q[i] = y
  BY <1>3, Listing
<1> HIDE DEF q
<1>8. q \in Seq(Subtasks(dag))
  BY <1>4, <1>7
<1> QED BY <1>5, <1>6, <1>7, <1>8 DEF q

-----------------------------------------------------------------------------
(* One level of the search, over the visits with fewer calls left. *)
Level(dag, visit, left) ==
  [at \in Subtasks(dag) \X Searches(dag) |->
     LET n == at[1]
         s == at[2]
     IN IF n \in s.onPath \/ left = 0 THEN [s EXCEPT !.cycle = TRUE]
        ELSE IF n \in s.visited THEN s
        ELSE OffPath(InTurn(visit, Neighbors(dag, n), OntoPath(s, n)), n)]

LEMMA StatesOfSearch ==
  ASSUME NEW dag, NEW s \in Searches(dag), NEW n \in Subtasks(dag)
  PROVE  /\ [s EXCEPT !.cycle = TRUE] \in Searches(dag)
         /\ OntoPath(s, n) \in Searches(dag)
         /\ OffPath(s, n) \in Searches(dag)
BY DEF Searches, OntoPath, OffPath

LEMMA LevelIsVisit ==
  ASSUME NEW dag \in Dag, NEW visit \in Visits(dag), NEW left
  PROVE  Level(dag, visit, left) \in Visits(dag)
<1> DEFINE V == Subtasks(dag)
           S == Searches(dag)
<1>1. ASSUME NEW n \in V, NEW s \in S
      PROVE  OffPath(InTurn(visit, Neighbors(dag, n), OntoPath(s, n)), n) \in S
  <2>1. Neighbors(dag, n) \in Seq(V) /\ OntoPath(s, n) \in S
    BY NeighborsAre, StatesOfSearch
  <2> DEFINE ns == Neighbors(dag, n)
             e == OntoPath(s, n)
             l == Len(ns)
             r == InTurn(visit, ns, e)
             f == TurnsOf(visit, ns, e)
  <2>3. f \in [0..l -> S] /\ r = f[l]
    <3>1. ns \in Seq(Subtasks(dag)) /\ e \in Searches(dag)
      BY <2>1
    <3> HIDE DEF ns, e
    <3> QED BY Zenon, <3>1, InTurnSteps
  <2>4. l \in 0..l
    BY <2>1
  <2>5. r \in S
    <3> HIDE DEF r, l, S, f
    <3> QED BY <2>3, <2>4
  <2> QED BY <2>5, StatesOfSearch
<1>2. \A at \in V \X S : at[1] \in V /\ at[2] \in S
  OBVIOUS
<1> HIDE DEF V
<1> DEFINE Answer(at) ==
             IF at[1] \in at[2].onPath \/ left = 0 THEN [at[2] EXCEPT !.cycle = TRUE]
             ELSE IF at[1] \in at[2].visited THEN at[2]
             ELSE OffPath(InTurn(visit, Neighbors(dag, at[1]), OntoPath(at[2], at[1])), at[1])
<1>3. \A at \in V \X S : Answer(at) \in S
  BY <1>1, <1>2, StatesOfSearch DEF V
<1>4. Level(dag, visit, left) = [at \in V \X S |-> Answer(at)]
  BY DEF Level, V
<1> HIDE DEF Answer, S
<1> QED BY <1>3, <1>4 DEF Visits, V, S

LEMMA VisitSteps ==
  ASSUME NEW dag \in Dag
  PROVE  LET m == Cardinality(dag.edges) + 1 IN
         /\ m \in Nat \ {0}
         /\ \E dfs : /\ \A i \in 0..m : dfs[i] = Level(dag, dfs[i - 1], i)
                     /\ \A i \in 1..m : dfs[i - 1] \in Visits(dag)
                     /\ Visit(dag) = dfs[m]
<1> DEFINE m == Cardinality(dag.edges) + 1
           V == Subtasks(dag)
           S == Searches(dag)
           X == Visits(dag)
           Body(f) == [i \in 0..m |-> Level(dag, f[i - 1], i)]
           g == CHOOSE f : f = Body(f)
           none == [at \in V \X S |-> [at[2] EXCEPT !.cycle = TRUE]]
<1>1. m \in Nat /\ m # 0
  BY DagAssumption, FS_CardinalityType
<1> HIDE DEF m
<1>2. none \in X
  <2>1. \A s \in S : [s EXCEPT !.cycle = TRUE] \in S
    BY DEF Searches
  <2> QED BY <2>1 DEF Visits
<1>3. \A f : Level(dag, f, 0) = none
  BY DEF Level
<1> DEFINE step == [p \in (1..m) \X X |-> Level(dag, p[2], p[1])]
<1>4. step \in [(1..m) \X X -> X]
  <2>1. \A p \in (1..m) \X X : p[2] \in X
    OBVIOUS
  <2> QED BY <2>1, LevelIsVisit
<1>5. \A i \in 1..m, x \in X : step[<<i, x>>] = Level(dag, x, i)
  OBVIOUS
<1> HIDE DEF step, X, none
<1>6. PICK f \in [0..m -> X] : Stepwise(f, m, none, step)
  BY <1>1, <1>2, <1>4, StepsExist
<1>7. f = Body(f)
  <2>1. \A i \in 1..m : i - 1 \in 0..m /\ f[i - 1] \in X
    BY <1>1
  <2>2. \A i \in 0..m : i = 0 \/ i \in 1..m
    BY <1>1
  <2>3. \A i \in 0..m : f[i] = Level(dag, f[i - 1], i)
    BY <1>3, <1>5, <1>6, <2>1, <2>2 DEF Stepwise
  <2> QED BY <2>3
<1>8. g = Body(g)
  BY <1>7
<1>9. Visit(dag) = g[m]
  BY DEF Visit, Level, m
<1> HIDE DEF g
<1>10. \A i \in 0..m : g[i] = Level(dag, g[i - 1], i)
  BY <1>8
<1>11. \A i \in 0..m : g[i] \in X
  <2> DEFINE H == {i \in 0..m : g[i] \in X}
  <2>1. 0 \in H
    BY <1>1, <1>2, <1>3, <1>10
  <2>2. ASSUME NEW i \in 1..m, i - 1 \in H  PROVE i \in H
    BY <1>1, <1>10, <2>2, LevelIsVisit DEF X
  <2> HIDE DEF H
  <2>3. \A i \in 0..m : i \in H
    BY <1>1, <2>1, <2>2, EachInTurn
  <2> QED BY <2>3 DEF H
<1>12. \A i \in 1..m : i - 1 \in 0..m
  BY <1>1
<1> QED BY <1>1, <1>9, <1>10, <1>11, <1>12 DEF m, X

-----------------------------------------------------------------------------
(* What the search has left for good has no circle through it. *)

(* A subtask that does not wait for itself: those that wait for it, and    *)
(* all that wait for them, are without it.                                 *)
Clear(dag, x) ==
  \E T \in SUBSET Subtasks(dag) : x \notin T /\ Dependents(dag, x) \subseteq T /\ Closed(dag, T)

Finished(s) == s.visited \ s.onPath

Sound(dag, s) ==
  /\ s.onPath \subseteq s.visited
  /\ Closed(dag, Finished(s))
  /\ \A x \in Finished(s) : Clear(dag, x)

(* t is s with more that is finished. *)
Further(s, t) == s.onPath = t.onPath /\ s.visited \subseteq t.visited

(* A visit that meets no circle finishes its subtask. *)
Finishes(dag, visit) ==
  \A n \in Subtasks(dag), s \in Searches(dag) :
    LET t == visit[<<n, s>>] IN
      Sound(dag, s) /\ ~t.cycle => Sound(dag, t) /\ Further(s, t) /\ n \in Finished(t)

LEMMA InTurnFinishes ==
  ASSUME NEW dag, NEW visit \in Visits(dag), Finishes(dag, visit),
         NEW ns \in Seq(Subtasks(dag)), NEW s \in Searches(dag), Sound(dag, s),
         ~InTurn(visit, ns, s).cycle
  PROVE  /\ InTurn(visit, ns, s) \in Searches(dag)
         /\ Sound(dag, InTurn(visit, ns, s)) /\ Further(s, InTurn(visit, ns, s))
         /\ \A i \in 1..Len(ns) : ns[i] \in Finished(InTurn(visit, ns, s))
<1> DEFINE m == Len(ns)
           f == TurnsOf(visit, ns, s)
           S == Searches(dag)
<1>1. m \in Nat /\ \A i \in 1..m : ns[i] \in Subtasks(dag)
  OBVIOUS
<1>2. f \in [0..m -> S] /\ Turns(f, visit, ns, s) /\ InTurn(visit, ns, s) = f[m]
  BY InTurnSteps
<1> HIDE DEF f, S
<1> DEFINE Good(i) == ~f[i].cycle => /\ Sound(dag, f[i]) /\ Further(s, f[i])
                                    /\ \A j \in 1..i : ns[j] \in Finished(f[i])
           H == {i \in 0..m : Good(i)}
<1>3. 0 \in H
  BY <1>1, <1>2 DEF Turns, Further
<1>4. ASSUME NEW i \in 1..m, i - 1 \in H  PROVE i \in H
  <2>1. /\ i \in 0..m /\ i - 1 \in 0..m /\ i \in Nat /\ ns[i] \in Subtasks(dag)
        /\ f[i - 1] \in S /\ f[i] \in S
        /\ \A j \in 1..i : j = i \/ j \in 1..(i - 1)
    BY <1>1, <1>2
  <2> SUFFICES ASSUME ~f[i].cycle  PROVE Good(i)
    BY <2>1
  <2>2. f[i] = IF f[i - 1].cycle THEN f[i - 1] ELSE visit[<<ns[i], f[i - 1]>>]
    BY <1>2 DEF Turns
  <2>3. ~f[i - 1].cycle /\ f[i] = visit[<<ns[i], f[i - 1]>>]
    BY <2>2
  <2>4. /\ Sound(dag, f[i - 1]) /\ Further(s, f[i - 1])
        /\ \A j \in 1..(i - 1) : ns[j] \in Finished(f[i - 1])
    BY <1>4, <2>3
  <2>5. Sound(dag, f[i]) /\ Further(f[i - 1], f[i]) /\ ns[i] \in Finished(f[i])
    BY <2>1, <2>3, <2>4 DEF Finishes, S
  <2>6. Further(s, f[i]) /\ Finished(f[i - 1]) \subseteq Finished(f[i])
    BY <2>4, <2>5 DEF Further, Finished
  <2> QED BY <2>1, <2>4, <2>5, <2>6
<1>5. m \in H
  <2>1. \A i \in 0..m : i \in H
    <3> HIDE DEF H, m
    <3> QED BY <1>1, <1>3, <1>4, EachInTurn
  <2> QED BY <1>1, <2>1
<1>6. f[m] \in S
  BY <1>1, <1>2
<1> QED BY <1>2, <1>5, <1>6 DEF S

LEMMA LevelFinishes ==
  ASSUME NEW dag \in Dag, NEW visit \in Visits(dag), NEW left \in Nat,
         left # 0 => Finishes(dag, visit)
  PROVE  Finishes(dag, Level(dag, visit, left))
<1> SUFFICES ASSUME NEW n \in Subtasks(dag), NEW s \in Searches(dag), Sound(dag, s),
                    ~Level(dag, visit, left)[<<n, s>>].cycle
             PROVE  LET t == Level(dag, visit, left)[<<n, s>>] IN
                    Sound(dag, t) /\ Further(s, t) /\ n \in Finished(t)
  BY DEF Finishes
<1> DEFINE V == Subtasks(dag)
           ns == Neighbors(dag, n)
           e == OntoPath(s, n)
           r == InTurn(visit, ns, e)
           t == Level(dag, visit, left)[<<n, s>>]
<1>1. t = IF n \in s.onPath \/ left = 0 THEN [s EXCEPT !.cycle = TRUE]
          ELSE IF n \in s.visited THEN s ELSE OffPath(r, n)
  BY DEF Level
<1>2. ns \in Seq(V) /\ \A y \in Dependents(dag, n) : \E i \in 1..Len(ns) : ns[i] = y
  BY NeighborsAre
<1>3. /\ e \in Searches(dag) /\ e.visited = s.visited \cup {n}
      /\ e.onPath = s.onPath \cup {n} /\ ~e.cycle
  BY StatesOfSearch DEF OntoPath
<1> HIDE DEF V, ns, e, t
<1>4. n \notin s.onPath /\ left # 0
  <2>1. [s EXCEPT !.cycle = TRUE].cycle
    BY DEF Searches
  <2> QED BY <1>1, <2>1 DEF t
<1>5. CASE n \in s.visited
  BY <1>1, <1>4, <1>5 DEF Further, Finished, t
<1>6. CASE n \notin s.visited
  <2>1. t = OffPath(r, n)
    BY <1>1, <1>4, <1>6
  <2>2. Finished(e) = Finished(s) /\ e.onPath \subseteq e.visited
    BY <1>3, <1>6 DEF Finished, Sound
  <2>3. Sound(dag, e)
    BY <2>2 DEF Sound
  <2>4. ~r.cycle
    BY <2>1 DEF OffPath, t
  <2>5. /\ r \in Searches(dag) /\ Sound(dag, r) /\ Further(e, r)
        /\ \A i \in 1..Len(ns) : ns[i] \in Finished(r)
    BY <1>2, <1>3, <1>4, <2>3, <2>4, InTurnFinishes DEF V
  <2> HIDE DEF r
  <2>6. t.visited = r.visited /\ t.onPath = r.onPath \ {n}
    BY <2>1, <2>4, <2>5 DEF OffPath, Searches
  <2>7. Dependents(dag, n) \subseteq Finished(r)
    BY <1>2, <2>5
  <2>8. n \in r.onPath /\ n \in r.visited
    BY <1>3, <2>5 DEF Further
  <2>9. Finished(t) = Finished(r) \cup {n} /\ n \notin Finished(r)
    BY <2>6, <2>8 DEF Finished
  <2>10. Finished(r) \in SUBSET Subtasks(dag)
    BY <2>5 DEF Finished, Searches
  <2>11. Clear(dag, n)
    BY <2>5, <2>7, <2>9, <2>10 DEF Clear, Sound
  <2>12. Sound(dag, t)
    BY <2>5, <2>6, <2>7, <2>9, <2>11 DEF Sound, Closed
  <2>13. Further(s, t)
    BY <1>3, <1>4, <2>5, <2>6 DEF Further
  <2> QED BY <2>9, <2>12, <2>13 DEF t
<1> QED BY <1>5, <1>6

(* A plan that passes has no subtask that waits for itself. *)
LEMMA ValidMeansClear ==
  ASSUME NEW dag \in Dag, ValidateAcyclic(dag), NEW x \in Range(dag.nodes)
  PROVE  Clear(dag, x)
<1> DEFINE m == Cardinality(dag.edges) + 1
<1>1. m \in Nat /\ m # 0
  BY VisitSteps
<1>2. PICK dfs : /\ \A i \in 0..m : dfs[i] = Level(dag, dfs[i - 1], i)
                 /\ \A i \in 1..m : dfs[i - 1] \in Visits(dag)
                 /\ Visit(dag) = dfs[m]
  BY VisitSteps
<1> HIDE DEF m
<1> DEFINE H == {i \in 0..m : Finishes(dag, dfs[i])}
<1>3. 0 \in H
  <2> DEFINE none == [at \in Subtasks(dag) \X Searches(dag) |-> [at[2] EXCEPT !.cycle = TRUE]]
  <2>1. 0 \in 0..m
    BY <1>1
  <2>2. dfs[0] = none
    BY <1>2, <2>1 DEF Level
  <2>3. \A s \in Searches(dag) : [s EXCEPT !.cycle = TRUE].cycle
    BY DEF Searches
  <2>4. \A n \in Subtasks(dag), s \in Searches(dag) : none[<<n, s>>] = [s EXCEPT !.cycle = TRUE]
    OBVIOUS
  <2> HIDE DEF none
  <2>5. Finishes(dag, none)
    BY <2>3, <2>4 DEF Finishes
  <2> QED BY <2>1, <2>2, <2>5
<1>4. ASSUME NEW i \in 1..m, i - 1 \in H  PROVE i \in H
  <2>1. i \in 0..m /\ i \in Nat /\ dfs[i - 1] \in Visits(dag) /\ dfs[i] = Level(dag, dfs[i - 1], i)
    BY <1>1, <1>2
  <2>2. Finishes(dag, dfs[i - 1])
    BY <1>4
  <2> QED BY <2>1, <2>2, LevelFinishes
<1>5. Finishes(dag, Visit(dag)) /\ Visit(dag) \in Visits(dag)
  <2>1. \A i \in 0..m : i \in H
    <3> HIDE DEF H
    <3> QED BY <1>1, <1>3, <1>4, EachInTurn
  <2>2. m \in 0..m /\ m \in 1..m
    BY <1>1
  <2>3. dfs[m] \in Visits(dag)
    BY <1>2, <2>2, LevelIsVisit
  <2> QED BY <1>2, <2>1, <2>2, <2>3
<1> DEFINE ns == dag.nodes
           r == InTurn(Visit(dag), ns, NotBegun)
<1>6. NotBegun \in Searches(dag) /\ Sound(dag, NotBegun)
  BY DEF NotBegun, Searches, Sound, Finished, Closed
<1>7. ns \in Seq(Subtasks(dag)) /\ \E i \in 1..Len(ns) : ns[i] = x
  <2>1. ns \in Seq(Range(ns))
    BY DagAssumption
  <2>2. Range(ns) \subseteq Subtasks(dag)
    BY DEF Subtasks
  <2> QED BY <2>1, <2>2 DEF Range
<1>8. ~r.cycle
  BY DEF ValidateAcyclic
<1> HIDE DEF ns
<1>9. Sound(dag, r) /\ \A i \in 1..Len(ns) : ns[i] \in Finished(r)
  BY <1>5, <1>6, <1>7, <1>8, InTurnFinishes
<1> QED BY <1>7, <1>9 DEF Sound

(* A plan that passes has no listed subtask that waits for itself. *)
LEMMA ValidMeansAcyclic ==
  ASSUME NEW dag \in Dag, ValidateAcyclic(dag), NEW x \in Range(dag.nodes)
  PROVE  x \notin Downstream(dag, x)
<1>1. PICK T \in SUBSET Subtasks(dag) :
        x \notin T /\ Dependents(dag, x) \subseteq T /\ Closed(dag, T)
  BY ValidMeansClear DEF Clear
<1> QED BY <1>1 DEF Downstream

-----------------------------------------------------------------------------
(* What is kept of the decisions. *)

HowMany(all, limit) == IF Len(all) < limit THEN Len(all) ELSE limit
LatestOf(all, limit) == SubSeq(all, Len(all) - HowMany(all, limit) + 1, Len(all))

Entry == [task : Task, direct : BOOLEAN]

LEMMA LastPlaces ==
  ASSUME NEW n \in Nat, NEW k \in Nat, k <= n
  PROVE  /\ n - k + 1 \in Nat /\ n - k + 1 > 0 /\ n - (n - k + 1) + 1 = k
         /\ \A i \in 1..k : n - k + 1 + i - 1 = n - k + i
         /\ \A i \in (n - k + 1)..n : i \in 1..n
OBVIOUS

LEMMA Part ==
  ASSUME NEW E, NEW s \in Seq(E), NEW from \in Nat, from > 0, NEW to \in Nat, to <= Len(s),
         NEW k \in Nat, to - from + 1 = k
  PROVE  /\ SubSeq(s, from, to) \in Seq(E) /\ Len(SubSeq(s, from, to)) = k
         /\ \A i \in 1..k : SubSeq(s, from, to)[i] = s[from + i - 1]
<1>1. \A i \in from..to : s[i] \in E
  OBVIOUS
<1> QED BY <1>1

LEMMA LatestIs ==
  ASSUME NEW E, NEW s \in Seq(E), NEW l \in Nat
  PROVE  /\ HowMany(s, l) \in Nat /\ HowMany(s, l) <= l
         /\ LatestOf(s, l) \in Seq(E) /\ Len(LatestOf(s, l)) = HowMany(s, l)
         /\ \A i \in 1..HowMany(s, l) : LatestOf(s, l)[i] = s[Len(s) - HowMany(s, l) + i]
<1> DEFINE n == Len(s)
           k == HowMany(s, l)
           from == n - k + 1
           d == SubSeq(s, from, n)
<1>1. n \in Nat /\ n <= Len(s) /\ k \in Nat /\ k <= n /\ k <= l
  BY DEF HowMany
<1>2. LatestOf(s, l) = d
  BY DEF LatestOf
<1> HIDE DEF n, k
<1>3. /\ from \in Nat /\ from > 0 /\ n - from + 1 = k
      /\ \A i \in 1..k : from + i - 1 = n - k + i
  BY <1>1, LastPlaces
<1> HIDE DEF from
<1>4. d \in Seq(E) /\ Len(d) = k /\ \A i \in 1..k : d[i] = s[from + i - 1]
  <2>1. /\ s \in Seq(E) /\ from \in Nat /\ from > 0 /\ n \in Nat /\ n <= Len(s)
        /\ k \in Nat /\ n - from + 1 = k
    BY <1>1, <1>3
  <2>2. ASSUME NEW q \in Seq(E), NEW x \in Nat, x > 0, NEW y \in Nat, y <= Len(q),
               NEW j \in Nat, y - x + 1 = j
        PROVE  /\ SubSeq(q, x, y) \in Seq(E) /\ Len(SubSeq(q, x, y)) = j
               /\ \A i \in 1..j : SubSeq(q, x, y)[i] = q[x + i - 1]
    BY <2>2, Part
  <2> QED BY <2>1, <2>2
<1> HIDE DEF d
<1>5. \A i \in 1..k : d[i] = s[n - k + i]
  BY <1>3, <1>4
<1> QED BY <1>1, <1>2, <1>4, <1>5 DEF n, k

(* The latest decisions with one more are the latest of all with it.       *)
LEMMA LatestAppended ==
  ASSUME NEW E, NEW all \in Seq(E), NEW e \in E
  PROVE  /\ AppendEntry(LatestOf(all, RouterEntryLimit), e)
              = LatestOf(Append(all, e), RouterEntryLimit)
         /\ LatestOf(Append(all, e), RouterEntryLimit) \in Seq(E)
         /\ Len(LatestOf(Append(all, e), RouterEntryLimit)) <= RouterEntryLimit
<1> DEFINE n == Len(all)
           L == RouterEntryLimit
           more == Append(all, e)
           kept == HowMany(all, L)
           es == LatestOf(all, L)
           both == Append(es, e)
           excess == IF kept + 1 > L THEN 1 ELSE 0
           got == SubSeq(both, excess + 1, kept + 1)
           keptMore == HowMany(more, L)
           due == LatestOf(more, L)
<1>1. n \in Nat /\ L \in Nat /\ L > 0
  BY RouterEntryLimitAssumption
<1>2. /\ more \in Seq(E) /\ Len(more) = n + 1 /\ more[n + 1] = e
      /\ \A i \in 1..n : more[i] = all[i] /\ all[i] \in E
  OBVIOUS
<1>4. /\ kept \in Nat /\ kept <= L /\ es \in Seq(E) /\ Len(es) = kept
      /\ \A i \in 1..kept : es[i] = all[n - kept + i]
  <2> HIDE DEF L
  <2> QED BY Zenon, <1>1, LatestIs
<1>8. /\ keptMore \in Nat /\ keptMore <= L /\ due \in Seq(E) /\ Len(due) = keptMore
      /\ \A i \in 1..keptMore : due[i] = more[n + 1 - keptMore + i]
  <2>1. /\ keptMore \in Nat /\ keptMore <= L /\ due \in Seq(E) /\ Len(due) = keptMore
        /\ \A i \in 1..keptMore : due[i] = more[Len(more) - keptMore + i]
    <3>1. more \in Seq(E) /\ L \in Nat
      BY <1>1, <1>2
    <3> HIDE DEF L, more
    <3> QED BY Zenon, <3>1, LatestIs
  <2>2. Len(more) = n + 1
    BY <1>2
  <2> HIDE DEF due, keptMore, n, more, L
  <2>3. ASSUME NEW i \in 1..keptMore  PROVE due[i] = more[n + 1 - keptMore + i]
    BY <1>1, <2>1, <2>2
  <2> QED BY Zenon, <2>1, <2>3
<1>11. kept = (IF n < L THEN n ELSE L) /\ keptMore = IF n + 1 < L THEN n + 1 ELSE L
  BY <1>2 DEF HowMany
<1> HIDE DEF n, L, more, kept, keptMore
<1>3. /\ kept <= n /\ excess \in {0, 1}
      /\ keptMore = kept + 1 - excess /\ keptMore <= n + 1
  BY <1>1, <1>4, <1>8, <1>11
<1> HIDE DEF excess, es, due
<1>5. /\ both \in Seq(E) /\ Len(both) = kept + 1 /\ both[kept + 1] = e
      /\ \A i \in 1..kept : both[i] = es[i]
  BY <1>3, <1>4
<1> HIDE DEF both
<1>6. \A i \in 1..(kept + 1) : both[i] = more[n - kept + i] /\ both[i] \in E
  <2> SUFFICES ASSUME NEW i \in 1..(kept + 1)
               PROVE  both[i] = more[n - kept + i] /\ both[i] \in E
    OBVIOUS
  <2>1. CASE i = kept + 1
    <3>1. n - kept + i = n + 1
      BY <1>1, <1>4, <2>1
    <3> QED BY <1>2, <1>5, <2>1, <3>1
  <2>2. CASE i # kept + 1
    <3>1. i \in 1..kept /\ n - kept + i \in 1..n
      BY <1>1, <1>3, <1>4, <2>2
    <3> QED BY <1>2, <1>4, <1>5, <3>1
  <2> QED BY <2>1, <2>2
<1>7. /\ got \in Seq(E) /\ Len(got) = keptMore
      /\ \A i \in 1..keptMore : got[i] = both[excess + i]
  <2> DEFINE from == excess + 1
             to == kept + 1
  <2>1. /\ from \in Nat /\ from > 0 /\ to \in Nat /\ to <= Len(both) /\ to - from + 1 = keptMore
        /\ \A i \in 1..keptMore : from + i - 1 = excess + i
    BY <1>3, <1>4, <1>5, <1>8
  <2>2. /\ SubSeq(both, from, to) \in Seq(E) /\ Len(SubSeq(both, from, to)) = keptMore
        /\ \A i \in 1..keptMore : SubSeq(both, from, to)[i] = both[from + i - 1]
    <3>1. both \in Seq(E) /\ keptMore \in Nat
      BY <1>5, <1>8
    <3> HIDE DEF from, to
    <3>2. from \in Nat /\ from > 0 /\ to \in Nat /\ to <= Len(both) /\ to - from + 1 = keptMore
      BY <2>1
    <3> HIDE DEF from, to
    <3>3. ASSUME NEW s \in Seq(E), NEW x \in Nat, x > 0, NEW y \in Nat, y <= Len(s),
                 NEW k \in Nat, y - x + 1 = k
          PROVE  /\ SubSeq(s, x, y) \in Seq(E) /\ Len(SubSeq(s, x, y)) = k
                 /\ \A i \in 1..k : SubSeq(s, x, y)[i] = s[x + i - 1]
      BY <3>3, Part
    <3> QED BY <3>1, <3>2, <3>3
  <2>3. got = SubSeq(both, from, to)
    OBVIOUS
  <2> HIDE DEF got, from, to
  <2> DEFINE d == SubSeq(both, from, to)
  <2> HIDE DEF d
  <2>4. got = d /\ d \in Seq(E) /\ Len(d) = keptMore
        /\ \A i \in 1..keptMore : d[i] = both[from + i - 1]
    BY Zenon, <2>2, <2>3 DEF d
  <2> QED BY <2>1, <2>4
<1> HIDE DEF got
<1>9. \A i \in 1..keptMore : got[i] = due[i]
  <2> SUFFICES ASSUME NEW i \in 1..keptMore PROVE got[i] = due[i]
    OBVIOUS
  <2>1. excess + i \in 1..(kept + 1) /\ n - kept + (excess + i) = n + 1 - keptMore + i
    BY <1>1, <1>3, <1>4, <1>8
  <2> QED BY <1>6, <1>7, <1>8, <2>1
<1>10. got = due
  BY <1>7, <1>8, <1>9
<1>13. AppendEntry(es, e) = got
  <2>1. excess = IF Len(both) > L THEN Len(both) - L ELSE 0
    BY <1>1, <1>4, <1>5 DEF excess
  <2> QED BY <1>5, <2>1 DEF AppendEntry, both, got, L
<1> QED BY <1>3, <1>8, <1>10, <1>13 DEF L, more, es, due

-----------------------------------------------------------------------------
(* What the steps of a request leave of its record. *)

Undivided == {"idle", "assessing", "direct", "decomposing"}
Refused == router.strategy \in VectorStrategy /\ ~router.embedding

(* A plan is made once and validated before the decision; a request that a *)
(* router without its client refuses goes no further.                      *)
AskFits(q) ==
  /\ q.step \in Undivided => q.dag = NoDag
  /\ q.step = "assigning" => q.dag \in Dag
  /\ q.step = "decided" => q.dag = NoDag \/ (q.dag \in Dag /\ ValidateAcyclic(q.dag))
  /\ q.step \in {"assessing", "direct", "decomposing", "assigning"} => ~Refused
  /\ q.step = "panicked" => q.strategy # router.strategy

AnsweredAskers == {b \in Asker : ask[b].step = "answered"}

(* Each answer had its entry written, one entry for each.                  *)
EntriesWritten ==
  /\ appended \in Seq(Entry)
  /\ IsFiniteSet(AnsweredAskers) /\ Len(appended) = Cardinality(AnsweredAskers)
  /\ \A a \in AnsweredAskers : \E i \in 1..Len(appended) : appended[i].task = ask[a].task

RouterInvariant ==
  /\ TaskRouterTypeOK
  /\ \A a \in Asker : AskFits(ask[a])
  /\ entries = LatestOf(appended, RouterEntryLimit)
  /\ EntriesWritten

LEMMA SetRecord ==
  ASSUME NEW a \in Asker, NEW s \in Step, ask \in [Asker -> AskRecord], Set(a, s)
  PROVE  \E q \in AskRecord :
           /\ ask' = [ask EXCEPT ![a] = q]
           /\ q.step = s /\ q.task = ask[a].task /\ q.strategy = ask[a].strategy
           /\ q.dag = IF s \in {"answered", "failed", "panicked"} THEN NoDag ELSE ask[a].dag
<1> DEFINE r == ask[a]
           over == s \in {"answered", "failed", "panicked"}
           ag == IF over \/ s = "decided" THEN {} ELSE r.agents
           dg == IF over THEN NoDag ELSE r.dag
           q == [r EXCEPT !.step = s, !.agents = ag, !.dag = dg]
           p == [step |-> s, task |-> r.task, agents |-> ag, strategy |-> r.strategy, dag |-> dg]
<1>1. /\ r \in AskRecord /\ ag \in SUBSET Agent /\ dg \in Dag \cup {NoDag}
      /\ r.task \in Task /\ r.strategy \in RoutingStrategy
  BY DEF AskRecord
<1>2. ask' = [ask EXCEPT ![a] = q]
  BY DEF Set
<1> HIDE DEF r, ag, dg
<1>3. q = p
  <2> DEFINE u == [r EXCEPT !.step = s]
             v == [u EXCEPT !.agents = ag]
  <2>1. u = [step |-> s, task |-> r.task, agents |-> r.agents, strategy |-> r.strategy, dag |-> r.dag]
    BY <1>1 DEF AskRecord
  <2> HIDE DEF u
  <2>2. v = [step |-> s, task |-> r.task, agents |-> ag, strategy |-> r.strategy, dag |-> r.dag]
    BY <2>1
  <2> HIDE DEF v
  <2>3. [v EXCEPT !.dag = dg] = p
    BY <2>2
  <2> QED BY <2>3 DEF u, v
<1>4. p \in AskRecord
  BY <1>1 DEF AskRecord
<1>5. p.step = s /\ p.task = r.task /\ p.strategy = r.strategy /\ p.dag = dg
  OBVIOUS
<1> HIDE DEF p, q
<1> QED BY <1>2, <1>3, <1>4, <1>5 DEF r, dg

(* A request that moves on, short of its answer, leaves the rest as it was. *)
LEMMA MovesOnWithout ==
  ASSUME RouterInvariant, NEW a \in Asker, NEW q \in AskRecord, AskFits(q),
         ask[a].step # "answered", q.step # "answered", ask' = [ask EXCEPT ![a] = q],
         UNCHANGED <<router, entries, appended, executions>>
  PROVE  RouterInvariant'
<1>1. /\ ask' \in [Asker -> AskRecord] /\ ask'[a] = q
      /\ \A b \in Asker : b # a => ask'[b] = ask[b]
  BY DEF RouterInvariant, TaskRouterTypeOK
<1>2. TaskRouterTypeOK'
  BY <1>1 DEF RouterInvariant, TaskRouterTypeOK
<1>3. \A p : AskFits(p) => AskFits(p)'
  BY DEF AskFits, Refused
<1>4. \A b \in Asker : AskFits(ask[b])'
  BY <1>1, <1>3 DEF RouterInvariant
<1>5. AnsweredAskers' = AnsweredAskers /\ \A b \in AnsweredAskers : b # a
  BY <1>1 DEF AnsweredAskers
<1>6. EntriesWritten'
  BY <1>1, <1>5 DEF RouterInvariant, EntriesWritten, AnsweredAskers
<1> QED BY <1>2, <1>4, <1>6 DEF RouterInvariant

LEMMA RouterStarts == TaskRouterInit => RouterInvariant
<1> SUFFICES ASSUME TaskRouterInit PROVE RouterInvariant
  OBVIOUS
<1>1. PICK t \in Task :
        ask = [a \in Asker |-> [step |-> "idle", task |-> t, agents |-> {},
                                strategy |-> "llm", dag |-> NoDag]]
  BY DEF TaskRouterInit
<1> DEFINE q == [step |-> "idle", task |-> t, agents |-> {}, strategy |-> "llm", dag |-> NoDag]
<1>2. q \in AskRecord
  BY DEF AskRecord, Step, RoutingStrategy
<1>3. \A a \in Asker : ask[a] = q
  BY <1>1
<1>4. AskFits(q)
  BY DEF AskFits, Undivided
<1>5. ask \in [Asker -> AskRecord]
  <2> HIDE DEF q
  <2> QED BY <1>1, <1>2 DEF q
<1>6. /\ entries = <<>> /\ appended = <<>> /\ executions = {}
      /\ <<>> \in Seq(Entry) /\ Len(<<>>) = 0 /\ RouterEntryLimit \in Nat
      /\ router \in [strategy : RoutingStrategy, embedding : BOOLEAN]
  BY RouterEntryLimitAssumption, StrategyAssumption DEF TaskRouterInit
<1>7. TaskRouterTypeOK
  BY <1>5, <1>6 DEF TaskRouterTypeOK, Entry
<1>8. LatestOf(<<>>, RouterEntryLimit) = <<>>
  <2> DEFINE l == LatestOf(<<>>, RouterEntryLimit)
  <2>1. HowMany(<<>>, RouterEntryLimit) = 0
    BY <1>6 DEF HowMany
  <2>2. l \in Seq(Entry) /\ Len(l) = 0
    <3> HIDE DEF Entry
    <3>1. Len(l) = HowMany(<<>>, RouterEntryLimit) /\ l \in Seq(Entry)
      BY <1>6, LatestIs
    <3> HIDE DEF l
    <3> QED BY <2>1, <3>1
  <2> HIDE DEF l
  <2> QED BY <2>2 DEF l
<1>9. AnsweredAskers = {}
  <2>1. q.step # "answered"
    OBVIOUS
  <2> HIDE DEF q
  <2> QED BY <1>3, <2>1 DEF AnsweredAskers
<1>10. EntriesWritten
  BY <1>6, <1>9, FS_EmptySet DEF EntriesWritten
<1> HIDE DEF q
<1> QED BY <1>3, <1>4, <1>6, <1>7, <1>8, <1>10 DEF RouterInvariant

(* Nobody is chosen by a client that is not there.                         *)
LEMMA SelectionFits ==
  ASSUME NEW s, NEW agents \in SUBSET Agent, ~Refused, "panicked" \in Selection(s, agents)
  PROVE  s # router.strategy
BY AgentAssumption DEF Selection, Refused

LEMMA Persisted ==
  ASSUME RouterInvariant, NEW a \in Asker, Persist(a)
  PROVE  RouterInvariant'
<1> DEFINE e == [task |-> ask[a].task, direct |-> ask[a].dag = NoDag]
<1>0. /\ ask \in [Asker -> AskRecord] /\ ask[a].step = "decided" /\ ask[a] \in AskRecord
      /\ router' = router /\ executions' = executions
  BY DEF RouterInvariant, TaskRouterTypeOK, Persist
<1>1. PICK q \in AskRecord :
        /\ ask' = [ask EXCEPT ![a] = q]
        /\ q.step = "answered" /\ q.task = ask[a].task
  <2>1. Set(a, "answered") /\ "answered" \in Step
    BY DEF Persist, Step
  <2> QED BY Zenon, <1>0, <2>1, SetRecord
<1>2. /\ ask' \in [Asker -> AskRecord] /\ ask'[a] = q
      /\ \A b \in Asker : b # a => ask'[b] = ask[b]
  BY <1>0, <1>1
<1>3. e \in Entry /\ e.task = ask[a].task
  <2>1. ask[a].task \in Task /\ (ask[a].dag = NoDag) \in BOOLEAN
    BY <1>0 DEF AskRecord
  <2> QED BY <2>1 DEF Entry
<1>4. entries' = AppendEntry(entries, e) /\ appended' = Append(appended, e)
  BY DEF Persist
<1> HIDE DEF e
<1>5. /\ appended \in Seq(Entry) /\ entries = LatestOf(appended, RouterEntryLimit)
      /\ IsFiniteSet(AnsweredAskers) /\ Len(appended) = Cardinality(AnsweredAskers)
      /\ \A b \in AnsweredAskers : \E i \in 1..Len(appended) : appended[i].task = ask[b].task
  BY DEF RouterInvariant, EntriesWritten
<1>6. /\ entries' = LatestOf(appended', RouterEntryLimit)
      /\ entries' \in Seq(Entry) /\ Len(entries') <= RouterEntryLimit
  <2> HIDE DEF Entry
  <2>1. /\ AppendEntry(LatestOf(appended, RouterEntryLimit), e)
             = LatestOf(Append(appended, e), RouterEntryLimit)
        /\ LatestOf(Append(appended, e), RouterEntryLimit) \in Seq(Entry)
        /\ Len(LatestOf(Append(appended, e), RouterEntryLimit)) <= RouterEntryLimit
    <3>1. appended \in Seq(Entry)
      BY <1>5
    <3> QED BY Zenon, <1>3, <3>1, LatestAppended
  <2> QED BY Zenon, <1>4, <1>5, <2>1
<1>7. TaskRouterTypeOK'
  <2>1. /\ router \in [strategy : RoutingStrategy, embedding : BOOLEAN]
        /\ executions \subseteq Task
    BY DEF RouterInvariant, TaskRouterTypeOK
  <2> QED BY <1>0, <1>2, <1>6, <2>1 DEF TaskRouterTypeOK, Entry
<1>8. \A b \in Asker : AskFits(ask[b])'
  <2>1. \A p : AskFits(p) => AskFits(p)'
    BY <1>0 DEF AskFits, Refused
  <2>2. AskFits(q)
    BY <1>1 DEF AskFits, Undivided
  <2> QED BY <1>2, <2>1, <2>2 DEF RouterInvariant
<1>9. a \notin AnsweredAskers /\ AnsweredAskers' = AnsweredAskers \cup {a}
  BY <1>0, <1>1, <1>2 DEF AnsweredAskers
<1>10. IsFiniteSet(AnsweredAskers') /\ Cardinality(AnsweredAskers') = Cardinality(AnsweredAskers) + 1
  BY <1>5, <1>9, FS_AddElement
<1>11. /\ appended' \in Seq(Entry) /\ Len(appended') = Len(appended) + 1
       /\ Len(appended) \in Nat /\ appended'[Len(appended) + 1] = e
       /\ \A i \in 1..Len(appended) : appended'[i] = appended[i]
  BY <1>3, <1>4, <1>5
<1>12. ASSUME NEW b \in AnsweredAskers'
       PROVE  \E i \in 1..Len(appended') : appended'[i].task = ask'[b].task
  <2>1. CASE b = a
    <3>1. Len(appended) + 1 \in 1..Len(appended')
      BY <1>11
    <3>2. appended'[Len(appended) + 1].task = ask'[b].task
      BY <1>1, <1>2, <1>3, <1>11, <2>1
    <3> QED BY <3>1, <3>2
  <2>2. CASE b # a
    <3>1. b \in AnsweredAskers /\ b \in Asker /\ ask'[b] = ask[b]
      BY <1>2, <1>9, <1>12, <2>2 DEF AnsweredAskers
    <3>2. PICK i \in 1..Len(appended) : appended[i].task = ask[b].task
      BY <1>5, <3>1
    <3>3. i \in 1..Len(appended') /\ appended'[i] = appended[i]
      BY <1>11
    <3> QED BY <3>1, <3>2, <3>3
  <2> QED BY <2>1, <2>2
<1>13. EntriesWritten'
  <2>1. Len(appended') = Cardinality(AnsweredAskers')
    BY <1>5, <1>10, <1>11
  <2> QED BY Zenon, <1>10, <1>11, <1>12, <2>1 DEF EntriesWritten
<1> QED BY Zenon, <1>6, <1>7, <1>8, <1>13 DEF RouterInvariant

LEMMA RouterMoves ==
  RouterInvariant /\ [TaskRouterNext]_taskVars => RouterInvariant'
<1> SUFFICES ASSUME RouterInvariant, [TaskRouterNext]_taskVars  PROVE RouterInvariant'
  OBVIOUS
<1>0. /\ ask \in [Asker -> AskRecord]
      /\ \A a \in Asker : ask[a] \in AskRecord /\ AskFits(ask[a])
  BY DEF RouterInvariant, TaskRouterTypeOK
<1>1. CASE UNCHANGED taskVars
  BY <1>1 DEF taskVars, RouterInvariant, TaskRouterTypeOK, EntriesWritten, AnsweredAskers, AskFits, Refused
<1>2. ASSUME NEW a \in Asker, NEW t \in Task, NEW agents \in SUBSET Agent, NEW s \in Strategy,
             RouteTask(a, t, agents, s)
      PROVE  RouterInvariant'
  <2> DEFINE q == [step |-> IF Refused THEN "failed" ELSE "assessing", task |-> t,
                   agents |-> IF Refused THEN {} ELSE agents, strategy |-> s, dag |-> NoDag]
  <2>1. ask' = [ask EXCEPT ![a] = q] /\ ask[a].step = "idle"
    BY <1>2 DEF RouteTask, Refused
  <2>2. q \in AskRecord
    BY StrategyAssumption DEF AskRecord, Step
  <2>3. AskFits(q)
    BY DEF AskFits, Undivided
  <2>4. q.step # "answered"
    OBVIOUS
  <2>5. UNCHANGED <<router, entries, appended, executions>>
    BY <1>2 DEF RouteTask
  <2> HIDE DEF q
  <2>6. ask[a].step # "answered"
    BY <2>1
  <2> QED BY <2>1, <2>2, <2>3, <2>4, <2>5, <2>6, MovesOnWithout
(* Where a request stops, or is decided without a plan or with a sound one. *)
<1>3. ASSUME NEW a \in Asker, NEW s \in Step \ {"answered", "assigning", "idle"}, Set(a, s),
             ask[a].step # "answered", UNCHANGED <<router, entries, appended, executions>>,
             s \in {"direct", "decomposing"} => ask[a].step = "assessing",
             s = "assessing" => FALSE,
             s = "decided" => ask[a].dag = NoDag \/ (ask[a].dag \in Dag /\ ValidateAcyclic(ask[a].dag)),
             s = "panicked" => ask[a].strategy # router.strategy
      PROVE  RouterInvariant'
  <2>1. PICK q \in AskRecord :
          /\ ask' = [ask EXCEPT ![a] = q]
          /\ q.step = s /\ q.task = ask[a].task /\ q.strategy = ask[a].strategy
          /\ q.dag = IF s \in {"answered", "failed", "panicked"} THEN NoDag ELSE ask[a].dag
    BY Zenon, <1>0, <1>3, SetRecord
  <2>2. AskFits(ask[a])
    BY <1>0
  <2>3. AskFits(q)
    BY <1>3, <2>1, <2>2 DEF AskFits, Undivided
  <2> QED BY <1>3, <2>1, <2>3, MovesOnWithout
<1>4. ASSUME NEW a \in Asker, Assess(a)  PROVE RouterInvariant'
  <2>1. PICK s \in {"failed", "direct", "decomposing"} : Set(a, s)
    BY <1>4 DEF Assess
  <2>2. s \in Step \ {"answered", "assigning", "idle"} /\ s \notin {"assessing", "decided", "panicked"}
    BY DEF Step
  <2>3. ask[a].step = "assessing" /\ UNCHANGED <<router, entries, appended, executions>>
    BY <1>4 DEF Assess
  <2> QED BY <1>3, <2>1, <2>2, <2>3
<1>5. ASSUME NEW a \in Asker, SelectDirect(a)  PROVE RouterInvariant'
  <2>1. PICK c \in Selection(ask[a].strategy, ask[a].agents) :
          Set(a, IF c \in {"failed", "panicked"} THEN c ELSE "decided")
    BY <1>5 DEF SelectDirect
  <2> DEFINE s == IF c \in {"failed", "panicked"} THEN c ELSE "decided"
  <2>2. ask[a].step = "direct" /\ UNCHANGED <<router, entries, appended, executions>>
    BY <1>5 DEF SelectDirect
  <2>3. ~Refused /\ ask[a].dag = NoDag /\ ask[a].agents \in SUBSET Agent
    BY <1>0, <2>2 DEF AskFits, Undivided, AskRecord
  <2>4. s \in Step \ {"answered", "assigning", "idle"} /\ s \notin {"assessing", "direct", "decomposing"}
    BY DEF Step
  <2>5. s = "panicked" => ask[a].strategy # router.strategy
    BY <2>3, SelectionFits
  <2>6. Set(a, s)
    BY <2>1
  <2> HIDE DEF s
  <2> QED BY <1>3, <2>2, <2>3, <2>4, <2>5, <2>6
<1>6. ASSUME NEW a \in Asker, Decompose(a)  PROVE RouterInvariant'
  <2>1. ask[a].step = "decomposing" /\ UNCHANGED <<router, entries, appended, executions>>
    BY <1>6 DEF Decompose
  <2>2. CASE Set(a, "failed")
    <3>1. "failed" \in Step \ {"answered", "assigning", "idle"}
      BY DEF Step
    <3> QED BY <1>3, <2>1, <2>2, <3>1
  <2>3. ASSUME NEW d \in Dag, ask' = [ask EXCEPT ![a] = [ask[a] EXCEPT !.step = "assigning", !.dag = d]]
        PROVE  RouterInvariant'
    <3> DEFINE r == ask[a]
               u == [r EXCEPT !.step = "assigning"]
               q == [u EXCEPT !.dag = d]
    <3>1. r \in AskRecord /\ AskFits(r)
      BY <1>0
    <3>2. ask' = [ask EXCEPT ![a] = q]
      BY <2>3
    <3> HIDE DEF r
    <3>3. u \in AskRecord /\ u.step = "assigning" /\ u.strategy = r.strategy
      BY <3>1 DEF AskRecord, Step
    <3> HIDE DEF u
    <3>4. q \in AskRecord /\ q.step = "assigning" /\ q.dag = d
      BY <3>3 DEF AskRecord
    <3> HIDE DEF q
    <3>5. ~Refused
      BY <2>1, <3>1 DEF AskFits, r
    <3>6. AskFits(q)
      BY <3>4, <3>5 DEF AskFits, Undivided
    <3> QED BY <2>1, <3>2, <3>4, <3>6, MovesOnWithout
  <2> QED BY <1>6, <2>2, <2>3 DEF Decompose
<1>7. ASSUME NEW a \in Asker, AssignAgents(a)  PROVE RouterInvariant'
  <2>1. PICK choice \in [DOMAIN ask[a].dag.nodes -> Selection(ask[a].strategy, ask[a].agents)] :
          Set(a, IF "panicked" \in Range(choice) THEN "panicked"
                 ELSE IF ValidateAcyclic(ask[a].dag) THEN "decided" ELSE "failed")
    BY <1>7 DEF AssignAgents
  <2> DEFINE s == IF "panicked" \in Range(choice) THEN "panicked"
                  ELSE IF ValidateAcyclic(ask[a].dag) THEN "decided" ELSE "failed"
  <2>2. ask[a].step = "assigning" /\ UNCHANGED <<router, entries, appended, executions>>
    BY <1>7 DEF AssignAgents
  <2>3. ~Refused /\ ask[a].dag \in Dag /\ ask[a].agents \in SUBSET Agent
    BY <1>0, <2>2 DEF AskFits, AskRecord
  <2>4. s \in Step \ {"answered", "assigning", "idle"} /\ s \notin {"assessing", "direct", "decomposing"}
    BY DEF Step
  <2>5. s = "panicked" => ask[a].strategy # router.strategy
    <3>1. "panicked" \in Range(choice) => "panicked" \in Selection(ask[a].strategy, ask[a].agents)
      BY DEF Range
    <3> QED BY <2>3, <3>1, SelectionFits
  <2>6. s = "decided" => ValidateAcyclic(ask[a].dag)
    OBVIOUS
  <2>7. Set(a, s)
    BY <2>1
  <2> HIDE DEF s
  <2> QED BY <1>3, <2>2, <2>3, <2>4, <2>5, <2>6, <2>7
<1>8. ASSUME NEW a \in Asker, ReportExecution(a)  PROVE RouterInvariant'
  <2>1. /\ executions' = executions \cup {ask[a].task} /\ ask[a].task \in Task
        /\ UNCHANGED <<router, ask, entries, appended>>
    BY <1>0, <1>8 DEF ReportExecution, AskRecord
  <2>2. TaskRouterTypeOK'
    BY <2>1 DEF RouterInvariant, TaskRouterTypeOK
  <2>3. \A b \in Asker : AskFits(ask[b])'
    BY <2>1 DEF RouterInvariant, AskFits, Refused
  <2> QED BY <2>1, <2>2, <2>3 DEF RouterInvariant, EntriesWritten, AnsweredAskers
<1> QED BY <1>1, <1>2, <1>4, <1>5, <1>6, <1>7, <1>8, Persisted DEF TaskRouterNext

(* What the invariant says of the plans and of what is kept.               *)
LEMMA PlansFollow == RouterInvariant => PlansConsistent
<1> SUFFICES ASSUME RouterInvariant PROVE PlansConsistent
  OBVIOUS
<1>0. \A a \in Asker : AskFits(ask[a])
  BY DEF RouterInvariant
<1>1. AcceptedIsAcyclic
  <2> SUFFICES ASSUME NEW a \in Asker, ask[a].step = "decided", NEW n \in Range(ask[a].dag.nodes)
               PROVE  n \notin Downstream(ask[a].dag, n)
    BY DEF AcceptedIsAcyclic
  <2>1. ask[a].dag = NoDag \/ (ask[a].dag \in Dag /\ ValidateAcyclic(ask[a].dag))
    BY <1>0 DEF AskFits
  <2>2. ask[a].dag # NoDag
    <3>1. Range(NoDag.nodes) = {}
      BY DEF NoDag, Range
    <3> QED BY <3>1
  <2> QED BY <2>1, <2>2, ValidMeansAcyclic
<1>2. PanicsOnlyOnOverride
  BY <1>0 DEF AskFits, PanicsOnlyOnOverride
<1>3. LatestDecisionsKept
  BY DEF RouterInvariant, LatestDecisionsKept, LatestOf, HowMany
<1>4. ExecutionsFindDecisions
  <2> DEFINE n == Len(appended)
             L == RouterEntryLimit
  <2> SUFFICES ASSUME NEW a \in Asker, ask[a].step = "answered", ask[a].task \in executions,
                      ~(Cardinality(AnsweredAskers) > L)
               PROVE  \E i \in DOMAIN AllTraces(L) :
                        AllTraces(L)[i] = [task |-> ask[a].task, executed |-> TRUE]
    BY DEF ExecutionsFindDecisions, AnsweredAskers
  <2>1. /\ appended \in Seq(Entry) /\ n = Cardinality(AnsweredAskers) /\ n \in Nat /\ L \in Nat
        /\ entries = LatestOf(appended, L) /\ a \in AnsweredAskers
    BY RouterEntryLimitAssumption DEF RouterInvariant, EntriesWritten, AnsweredAskers
  <2>2. PICK i \in 1..n : appended[i].task = ask[a].task
    BY <2>1 DEF RouterInvariant, EntriesWritten
  <2>3. HowMany(appended, L) = n
    BY <2>1 DEF HowMany
  <2>4. Len(entries) = n /\ entries[i] = appended[i]
    <3>1. /\ Len(entries) = HowMany(appended, L)
          /\ \A j \in 1..HowMany(appended, L) : entries[j] = appended[n - HowMany(appended, L) + j]
      <4>1. appended \in Seq(Entry) /\ L \in Nat
        BY <2>1
      <4>2. /\ Len(LatestOf(appended, L)) = HowMany(appended, L)
            /\ \A j \in 1..HowMany(appended, L) :
                 LatestOf(appended, L)[j] = appended[n - HowMany(appended, L) + j]
        <5> HIDE DEF L, Entry
        <5> QED BY Zenon, <4>1, LatestIs
      <4> QED BY Zenon, <2>1, <4>2
    <3>2. n - n + i = i
      BY <2>1
    <3> QED BY <2>1, <2>3, <3>1, <3>2
  <2>5. n <= L
    BY <2>1
  <2> DEFINE T == [k \in 1..n |-> [task |-> entries[n + 1 - k].task,
                                   executed |-> entries[n + 1 - k].task \in executions]]
  <2>6. AllTraces(L) = T
    <3>1. (IF Len(entries) > L THEN Len(entries) - L ELSE 0) = 0 /\ Len(entries) - 0 = n
      BY <2>1, <2>4, <2>5
    <3> QED BY <2>4, <3>1 DEF AllTraces
  <2>7. n + 1 - i \in 1..n /\ n + 1 - (n + 1 - i) = i
    BY <2>1
  <2>8. T[n + 1 - i] = [task |-> ask[a].task, executed |-> TRUE]
    BY <2>2, <2>4, <2>7
  <2> HIDE DEF T
  <2>9. DOMAIN T = 1..n
    BY DEF T
  <2> QED BY <2>6, <2>7, <2>8, <2>9
<1> QED BY <1>1, <1>2, <1>3, <1>4 DEF PlansConsistent, RouterInvariant

THEOREM PlansStayConsistent == TaskRouterSpec => []PlansConsistent
<1>1. TaskRouterSpec => []RouterInvariant
  BY RouterStarts, RouterMoves, PTL DEF TaskRouterSpec
<1> QED BY <1>1, PlansFollow, PTL
=============================================================================
