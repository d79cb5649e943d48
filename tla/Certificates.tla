---------------------------- MODULE Certificates ----------------------------
(***************************************************************************)
(* The workload certificate (agentgateway/src/control/caclient.rs): one    *)
(* task fetches it and renews it after half of its life, checking on every *)
(* tick of an interval; callers read the state from a watch channel and    *)
(* wait for its first value.  Time is counted in ticks (30 s).             *)
(***************************************************************************)
EXTENDS Naturals, FiniteSets

CONSTANTS IdentityCall, \* callers of get_identity
          Lifetimes,    \* of the certificates the CA may issue, in ticks
          MaxFetch,     \* ticks an answer of the CA may take
          MaxClock      \* bound of the runs

ASSUME LifetimesAssumption == Lifetimes \subseteq Nat
ASSUME FetchAssumption == MaxFetch \in Nat /\ MaxClock \in Nat

VARIABLES
  clock,
  ticks,    \* elapsed ticks the fetcher has not consumed
  fetcher,  \* [step: "fetching" or "checking", since]
  state,    \* the watch channel's value: [kind, from, to]
  version,  \* its version
  caller,   \* caller -> [step, seen, got]
  failures  \* fetches that failed or brought a short life (history)

certVars == <<clock, ticks, fetcher, state, version, caller, failures>>

NotReady == [kind |-> "notready", from |-> 0, to |-> 0]
Failed == [kind |-> "error", from |-> 0, to |-> 0]
Available(from, to) == [kind |-> "available", from |-> from, to |-> to]

Answers == {"none", "certificate", "expired", "error"}

CertTypeOK ==
  /\ clock \in 0..MaxClock /\ ticks \in 0..MaxClock + 1
  /\ fetcher \in [step : {"fetching", "checking"}, since : 0..MaxClock]
  /\ state.kind \in {"notready", "error", "available"}
  /\ version \in Nat /\ failures \in Nat
  /\ caller \in [IdentityCall -> [step : {"idle", "waiting", "answered"},
                                  seen : Nat, got : Answers, valid : BOOLEAN]]

CertInit ==
  /\ clock = 0 /\ ticks = 1                 \* the first tick is immediate
  /\ fetcher = [step |-> "fetching", since |-> 0]
  /\ state = NotReady /\ version = 0
  /\ caller = [c \in IdentityCall |->
                 [step |-> "idle", seen |-> 0, got |-> "none", valid |-> FALSE]]
  /\ failures = 0

Expired(cert) == clock > cert.to
RefreshAt(cert) == cert.from + (cert.to - cert.from) \div 2

-----------------------------------------------------------------------------
(* get_identity *)

Answered(c, got) ==
  caller' = [caller EXCEPT ![c] = [@ EXCEPT !.step = "answered", !.got = got, !.seen = version,
                           !.valid = got = "certificate" /\ ~Expired(state)]]

Read(c) ==
  CASE state.kind = "available" -> Answered(c, IF Expired(state) THEN "expired" ELSE "certificate")
    [] state.kind = "error" -> Answered(c, "error")
    [] state.kind = "notready" ->
         caller' = [caller EXCEPT ![c] = [@ EXCEPT !.step = "waiting", !.seen = version]]

GetIdentity(c) ==
  /\ caller[c].step \in {"idle", "answered"} /\ Read(c)
  /\ UNCHANGED <<clock, ticks, fetcher, state, version, failures>>

(* The channel changed since the value that was read. *)
WokenCaller(c) ==
  /\ caller[c].step = "waiting" /\ version # caller[c].seen
  /\ Read(c)
  /\ UNCHANGED <<clock, ticks, fetcher, state, version, failures>>

-----------------------------------------------------------------------------
(* run_fetcher *)

(* A defect: a certificate is renewed when it is no longer valid. *)
ShouldRenewExpired == state.kind = "available" => Expired(state)

ShouldRenew == state.kind = "available" => clock >= RefreshAt(state)

(* A defect: after an error nothing is fetched again. *)
CheckAvailable ==
  /\ fetcher.step = "checking" /\ ticks > 0
  /\ ticks' = ticks - 1
  /\ fetcher' = IF state.kind = "available" /\ ShouldRenew
                THEN [step |-> "fetching", since |-> clock] ELSE fetcher
  /\ UNCHANGED <<clock, state, version, caller, failures>>

Check ==
  /\ fetcher.step = "checking" /\ ticks > 0
  /\ ticks' = ticks - 1
  /\ fetcher' = IF ShouldRenew THEN [step |-> "fetching", since |-> clock] ELSE fetcher
  /\ UNCHANGED <<clock, state, version, caller, failures>>

Publish(v) ==
  /\ state' = v /\ version' = version + 1
  /\ fetcher' = [fetcher EXCEPT !.step = "checking"]

(* The CA's certificate is parsed and is for our identity. *)
FetchSucceeds ==
  /\ fetcher.step = "fetching"
  /\ \E issued \in fetcher.since..clock, life \in Lifetimes :
       /\ Publish(Available(issued, issued + life))
       /\ failures' = IF life < 2 * (MaxFetch + 1) THEN failures + 1 ELSE failures
  /\ UNCHANGED <<clock, ticks, caller>>

(* Any of its steps fails: the error takes the certificate's place.        *)
FetchFails ==
  /\ fetcher.step = "fetching"
  /\ Publish(Failed)
  /\ failures' = failures + 1
  /\ UNCHANGED <<clock, ticks, caller>>

(* The fetcher and woken callers are quick against a tick.                 *)
Tick ==
  /\ clock < MaxClock
  /\ fetcher.step = "checking" => ticks = 0
  /\ fetcher.step = "fetching" => clock - fetcher.since < MaxFetch
  /\ \A c \in IdentityCall : caller[c].step = "waiting" => version = caller[c].seen
  /\ clock' = clock + 1 /\ ticks' = ticks + 1
  /\ UNCHANGED <<fetcher, state, version, caller, failures>>

CertNext ==
  \/ \E c \in IdentityCall : GetIdentity(c) \/ WokenCaller(c)
  \/ Check \/ FetchSucceeds \/ FetchFails \/ Tick

(* The CA answers or its connection breaks; woken tasks run; time passes.  *)
CertFairness ==
  /\ WF_certVars(Check) /\ WF_certVars(FetchSucceeds \/ FetchFails) /\ WF_certVars(Tick)
  /\ \A c \in IdentityCall : WF_certVars(WokenCaller(c))

CertSpec == CertInit /\ [][CertNext]_certVars /\ CertFairness

-----------------------------------------------------------------------------
(* What a caller is given is valid when it is given.                       *)
IdentityIsValid ==
  \A c \in IdentityCall : caller[c].got = "certificate" => caller[c].valid

(* A workload never sees its certificate expire while the CA answers: if   *)
(* half of every life is longer than a tick and an answer of the CA, the   *)
(* renewal comes in time.  A failed fetch voids this: its error replaces a *)
(* certificate that is still valid.                                        *)
RenewedInTime ==
  failures = 0 =>
    \A c \in IdentityCall : caller[c].got \notin {"expired", "error"}

(* Whoever asks for the identity is given a valid certificate while the CA *)
(* answers, and never an invalid one.                                      *)
IdentitiesServed ==
  /\ CertTypeOK
  /\ IdentityIsValid
  /\ RenewedInTime

(* A caller that found nothing gets an answer, and after a failed fetch    *)
(* another one is made.                                                    *)
CallersAnswered ==
  \A c \in IdentityCall : caller[c].step = "waiting" ~> caller[c].step = "answered"
FailureIsRetried ==
  (state.kind = "error" /\ clock < MaxClock) ~> fetcher.step = "fetching"
=============================================================================
