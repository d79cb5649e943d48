----------------------------- MODULE HttpProxy ------------------------------
(***************************************************************************)
(* One request through HTTPProxy::proxy (proxy/httpproxy.rs), with its     *)
(* replayed body (http/retry/body.rs) and the log that ends with it        *)
(* (telemetry/log.rs).                                                     *)
(*                                                                         *)
(* The request passes the policies of the gateway and of the route in      *)
(* their order, each of which may refuse it, answer it or ask for headers  *)
(* on the response.  Then it is attempted upstream, and again while the    *)
(* result may be retried.  The body is read once from the client: what an  *)
(* attempt reads is buffered, and the next attempt replays the buffer      *)
(* before it reads on.  An attempt may end while its body is still being   *)
(* sent, or waits in its connection and has not been polled at all.        *)
(***************************************************************************)
EXTENDS Naturals, FiniteSets, Sequences

CONSTANTS Configured,  \* the policies configured, of those named below
          MaxRetries,  \* bound on the retries of a policy
          MaxFrames,   \* bound on the frames of a request body
          Buffered,    \* MAX_BUFFERED_BYTES, in frames
          AttemptsMod  \* 2^8 in the code: attempts is a u8

ASSUME ConfiguredAssumption == Configured \subseteq STRING
ASSUME BoundsAssumption ==
  /\ MaxRetries \in Nat /\ MaxFrames \in Nat /\ Buffered \in Nat
  /\ AttemptsMod \in Nat \ {0} /\ MaxRetries < AttemptsMod

VARIABLES
  cfg,      \* the request: retries, timeout, backoff, frames, hinted
  at,       \* where the request is
  gate,     \* the policies passed, or not configured
  owed,     \* the policies that asked for headers on the response
  given,    \* those whose headers are in response_policies
  attempt,  \* the number of the attempt
  late,     \* the request timeout has passed
  body,     \* owner of the body state, frames read, frames buffered, capped
  alive,    \* the attempts whose bodies their connections still have
  broke,    \* the attempts whose body panicked or failed when it was polled
  sent,     \* attempt -> the frames the upstream received
  handle,   \* attempt -> the handle of its endpoint
  result,   \* result of the last attempt or policy
  upgrade,  \* the client's upgrade has not been taken
  out       \* what the client was answered, and the headers on it

bodyVars == <<body, alive, broke, sent>>
proxyVars == <<cfg, at, gate, owed, given, attempt, late, body, alive, broke,
               sent, handle, result, upgrade, out>>

(* The order of apply_gateway_policies, then of apply_request_policies.    *)
GatewayGates == <<"gateway jwt", "gateway ext_authz", "gateway ext_proc">>
RouteGates == <<"route found", "jwt", "ext_authz", "authorization",
                "local rate limit", "remote rate limit", "ext_proc", "csrf",
                "cors", "redirect", "direct response", "backend found">>
Gates == GatewayGates \o RouteGates

GateNames == {Gates[i] : i \in DOMAIN Gates} \cap Configured
OfGateway == {GatewayGates[i] : i \in DOMAIN GatewayGates}

Shared == 0    \* owner: the state is in the mutex, an attempt may take it
AttemptNo == 1 .. MaxRetries + 1

(* The total number of attempts: retries + 1 in a u8.                      *)
Attempts == (cfg.retries + 1) % AttemptsMod

(* A body whose known length exceeds the buffer is sent once.              *)
MayRetry == Attempts > 1 /\ ~(cfg.hinted /\ cfg.frames > Buffered)

Retryable == {"retry code", "call failed", "request timeout"}
Final == {"ok", "switching", "backend timeout", "unavailable", "refused", "direct"}

ProxyTypeOK ==
  /\ cfg \in [retries : 0 .. MaxRetries, timeout : BOOLEAN, backoff : BOOLEAN,
              frames : 0 .. MaxFrames, hinted : BOOLEAN]
  /\ at \in {"gates", "prepare", "calling", "ended", "backoff", "respond",
             "streaming", "done"}
  /\ gate \in 0 .. Len(Gates)
  /\ owed \in SUBSET GateNames /\ given \in SUBSET owed
  /\ attempt \in AttemptNo
  /\ late \in BOOLEAN /\ upgrade \in BOOLEAN
  /\ body \in [owner : AttemptNo \cup {Shared}, read : 0 .. MaxFrames,
               kept : 0 .. MaxFrames, capped : BOOLEAN]
  /\ alive \in SUBSET AttemptNo /\ broke \in SUBSET AttemptNo
  /\ sent \in [AttemptNo -> Seq(1 .. MaxFrames)]
  /\ handle \in [AttemptNo -> {"none", "held", "dropped", "finished"}]
  /\ result \in Retryable \cup Final \cup {"none"}
  /\ out \in [what : Retryable \cup Final \cup {"none"}, headers : SUBSET GateNames]

ProxyInit ==
  /\ cfg \in [retries : 0 .. MaxRetries, timeout : BOOLEAN, backoff : BOOLEAN,
              frames : 0 .. MaxFrames, hinted : BOOLEAN]
  /\ at = "gates" /\ gate = 0 /\ owed = {} /\ given = {}
  /\ attempt = 1 /\ late = FALSE /\ upgrade = TRUE
  /\ body = [owner |-> 1, read |-> 0, kept |-> 0, capped |-> FALSE]
  /\ alive = {} /\ broke = {}
  /\ sent = [n \in AttemptNo |-> <<>>]
  /\ handle = [n \in AttemptNo |-> "none"]
  /\ result = "none"
  /\ out = [what |-> "none", headers |-> {}]

-----------------------------------------------------------------------------
(* Policies                                                                *)

(* The headers a gateway policy asks for go into a map of proxy_internal   *)
(* that nothing reads; those of a route policy into response_policies.     *)
PassGate(asks) ==
  /\ at = "gates" /\ gate < Len(Gates)
  /\ asks => Gates[gate + 1] \in Configured
  /\ gate' = gate + 1
  /\ owed' = IF asks THEN owed \cup {Gates[gate + 1]} ELSE owed
  /\ given' = IF asks THEN given \cup ({Gates[gate + 1]} \ OfGateway) ELSE given
  /\ UNCHANGED <<cfg, at, attempt, late, bodyVars, handle, result, upgrade,
                 out>>

StopAtGate(r) ==
  /\ at = "gates" /\ gate < Len(Gates) /\ Gates[gate + 1] \in Configured
  /\ result' = r /\ at' = "respond"
  /\ UNCHANGED <<cfg, gate, owed, given, attempt, late, bodyVars, handle,
                 upgrade, out>>

GatesPassed ==
  /\ at = "gates" /\ gate = Len(Gates)
  /\ at' = "prepare"
  /\ UNCHANGED <<cfg, gate, owed, given, attempt, late, bodyVars, handle,
                 result, upgrade, out>>

-----------------------------------------------------------------------------
(* Attempts                                                                *)

EndAttempt(r) == at' = "ended" /\ result' = r

(* Dropping a body gives the state back, if it had it.                     *)
GivesBack(n) == body' = [body EXCEPT !.owner = IF @ = n THEN Shared ELSE @]

(* make_backend_call: the endpoint's handle replaces the one in the log;   *)
(* the body goes with the call.                                            *)
Prepare ==
  /\ at = "prepare"
  /\ handle' = [n \in AttemptNo |-> IF n = attempt THEN "held"
                                    ELSE IF handle[n] = "held" THEN "dropped"
                                    ELSE handle[n]]
  /\ \/ /\ at' = "calling" /\ alive' = alive \cup {attempt}
        /\ UNCHANGED <<result, body>>
     \/ /\ \E r \in {"unavailable", "direct"} : EndAttempt(r)
        /\ GivesBack(attempt) /\ UNCHANGED alive
  /\ UNCHANGED <<cfg, gate, owed, given, attempt, late, broke, sent, upgrade, out>>

(* No endpoint, no provider or no backend: before any handle is taken.     *)
NoEndpoint ==
  /\ at = "prepare" /\ EndAttempt("unavailable")
  /\ GivesBack(attempt)
  /\ UNCHANGED <<cfg, gate, owed, given, attempt, late, alive, broke, sent,
                 handle, upgrade, out>>

BodyMoves == UNCHANGED <<cfg, at, gate, owed, given, attempt, late, handle,
                         result, upgrade, out>>

(* The body of attempt n has the state, or the first poll takes it from    *)
(* the mutex.  The original has it from the start, a clone does not.       *)
HasState(n) == body.owner \in {n, Shared}

(* A clone has yet to replay what is buffered.                             *)
Replays(n) == n > 1 /\ Len(sent[n]) < body.kept

(* A clone that takes the state when the buffer has been discarded.        *)
FindsCapped(n) == n > 1 /\ body.owner = Shared /\ body.capped

(* The connection of attempt n polls its body for a frame.                 *)
ReplayFrame(n) ==
  /\ n \in alive /\ HasState(n) /\ Replays(n)
  /\ sent' = [sent EXCEPT ![n] = Append(@, Len(@) + 1)]
  /\ body' = [body EXCEPT !.owner = n]
  /\ UNCHANGED <<alive, broke>> /\ BodyMoves

(* A frame from the client is buffered, unless the limit is passed, which  *)
(* discards what was buffered.                                             *)
ReadFrame(n) ==
  /\ n \in alive /\ HasState(n) /\ ~Replays(n) /\ ~FindsCapped(n)
  /\ body.read < cfg.frames
  /\ LET over == body.read + 1 > Buffered
     IN body' = [owner |-> n, read |-> body.read + 1,
                 kept |-> IF over THEN 0 ELSE body.kept + 1, capped |-> over]
  /\ sent' = [sent EXCEPT ![n] = Append(@, body.read + 1)]
  /\ UNCHANGED <<alive, broke>> /\ BodyMoves

(* The client has sent no more yet, or the body is at its end: the poll    *)
(* takes the state all the same.                                           *)
PollPending(n) ==
  /\ n \in alive /\ body.owner = Shared /\ ~Replays(n) /\ ~FindsCapped(n)
  /\ body' = [body EXCEPT !.owner = n]
  /\ UNCHANGED <<alive, broke, sent>> /\ BodyMoves

(* Another body has the state ("missing body state": a panic of the        *)
(* connection's task), or the buffer is gone (the error Capped): the       *)
(* connection loses the body.                                              *)
PollBreaks(n) ==
  /\ n \in alive /\ (~HasState(n) \/ FindsCapped(n))
  /\ broke' = broke \cup {n} /\ alive' = alive \ {n}
  /\ UNCHANGED <<body, sent>> /\ BodyMoves

(* The upstream connection has sent the body or gives it up.               *)
DropBodyOf(n) ==
  /\ n \in alive
  /\ alive' = alive \ {n} /\ GivesBack(n)
  /\ UNCHANGED <<broke, sent>> /\ BodyMoves

CallEnds(r) ==
  /\ at = "calling"
  /\ EndAttempt(IF r = "switching" /\ ~upgrade THEN "unavailable" ELSE r)
  /\ upgrade' = (upgrade /\ r # "switching")
  /\ UNCHANGED <<cfg, gate, owed, given, attempt, late, bodyVars, handle,
                 out>>

(* The deadline is looked at while calling and while backing off.          *)
TimeoutPasses ==
  /\ cfg.timeout /\ ~late /\ at \in {"calling", "backoff"}
  /\ late' = TRUE
  /\ UNCHANGED <<cfg, at, gate, owed, given, attempt, bodyVars, handle,
                 result, upgrade, out>>

CallTimesOut ==
  /\ at = "calling" /\ late
  /\ EndAttempt("request timeout")
  /\ UNCHANGED <<cfg, gate, owed, given, attempt, late, bodyVars, handle,
                 upgrade, out>>

-----------------------------------------------------------------------------
(* Retries                                                                 *)

Retries == MayRetry /\ attempt < Attempts /\ result \in Retryable

NoRetry ==
  /\ at = "ended" /\ ~Retries
  /\ at' = "respond"
  /\ UNCHANGED <<cfg, gate, owed, given, attempt, late, bodyVars, handle,
                 result, upgrade, out>>

\* mutant: a body that another attempt still holds counts as replayable
CanReplayHeld == ~body.capped

(* ReplayBody::is_capped of the next clone: None while an attempt has the  *)
(* state.  The clone of an attempt that was never polled has none, so it   *)
(* does not stand in the way of the next attempt.                          *)
CanReplay == body.owner = Shared /\ ~body.capped

Backoff ==
  /\ at = "ended" /\ Retries /\ cfg.backoff
  /\ at' = "backoff"
  /\ UNCHANGED <<cfg, gate, owed, given, attempt, late, bodyVars, handle,
                 result, upgrade, out>>

Retry ==
  /\ at \in {"ended", "backoff"} /\ Retries
  /\ at = "ended" => ~cfg.backoff
  /\ CanReplay
  /\ attempt' = attempt + 1 /\ at' = "prepare"
  /\ UNCHANGED <<cfg, gate, owed, given, late, bodyVars, handle, result,
                 upgrade, out>>

(* The last result is returned instead.                                    *)
GiveUp ==
  /\ at \in {"ended", "backoff"} /\ Retries
  /\ at = "ended" => ~cfg.backoff
  /\ ~CanReplay
  /\ at' = "respond"
  /\ UNCHANGED <<cfg, gate, owed, given, attempt, late, bodyVars, handle,
                 result, upgrade, out>>

BackoffTimesOut ==
  /\ at = "backoff" /\ late
  /\ result' = "request timeout" /\ at' = "respond"
  /\ UNCHANGED <<cfg, gate, owed, given, attempt, late, bodyVars, handle,
                 upgrade, out>>

-----------------------------------------------------------------------------
(* The response and the log                                                *)

(* ResponsePolicies::apply merges the headers, unless a policy of the      *)
(* response fails or answers itself.                                       *)
Respond(fails) ==
  /\ at = "respond"
  /\ out' = IF fails THEN [what |-> "refused", headers |-> {}]
                     ELSE [what |-> result, headers |-> given]
  /\ at' = "streaming"
  /\ UNCHANGED <<cfg, gate, owed, given, attempt, late, bodyVars, handle,
                 result, upgrade>>

(* The log is written where it is dropped: with the response body, the     *)
(* upgraded connection or the request future.  Health is reported only if  *)
(* logs, traces or metric fields are enabled; otherwise the handle is just *)
(* dropped.                                                                *)
FinishLog ==
  /\ \E enabled \in BOOLEAN :
       handle' = [n \in AttemptNo |->
         IF handle[n] # "held" THEN handle[n]
         ELSE IF enabled THEN "finished" ELSE "dropped"]
  /\ at' = "done"

StreamEnds ==
  /\ at = "streaming" /\ FinishLog
  /\ UNCHANGED <<cfg, gate, owed, given, attempt, late, bodyVars, result,
                 upgrade, out>>

ClientGone ==
  /\ at \notin {"streaming", "done"} /\ FinishLog
  /\ UNCHANGED <<cfg, gate, owed, given, attempt, late, bodyVars, result,
                 upgrade, out>>

ProxyNext ==
  \/ \E asks \in BOOLEAN : PassGate(asks)
  \/ \E r \in {"refused", "direct"} : StopAtGate(r)
  \/ GatesPassed \/ Prepare \/ NoEndpoint
  \/ \E n \in AttemptNo : \/ ReplayFrame(n) \/ ReadFrame(n) \/ PollPending(n)
                           \/ PollBreaks(n) \/ DropBodyOf(n)
  \/ \E r \in {"ok", "retry code", "switching", "call failed", "backend timeout"} :
       CallEnds(r)
  \/ TimeoutPasses \/ CallTimesOut
  \/ NoRetry \/ Backoff \/ Retry \/ GiveUp \/ BackoffTimesOut
  \/ \E fails \in BOOLEAN : Respond(fails)
  \/ StreamEnds \/ ClientGone

(* Timers fire and the future is polled; nothing is assumed of upstreams,  *)
(* clients and the services policies call.                                 *)
ProxyFairness ==
  /\ WF_proxyVars(TimeoutPasses) /\ WF_proxyVars(CallTimesOut)
  /\ WF_proxyVars(NoRetry) /\ WF_proxyVars(Retry) /\ WF_proxyVars(GiveUp)
  /\ WF_proxyVars(Backoff)

ProxySpec == ProxyInit /\ [][ProxyNext]_proxyVars

-----------------------------------------------------------------------------
(* Properties                                                              *)

(* Whatever was buffered, discarded or read by another attempt meanwhile,  *)
(* an upstream receives the body of the request from its first frame on,   *)
(* each frame in its place: a body that could not go on so breaks instead. *)
WholeBodies == \A n \in AttemptNo : \A i \in DOMAIN sent[n] : sent[n][i] = i

(* A first retry begins only when the body of the first attempt is gone    *)
(* and can be replayed: neither attempt's body breaks under a poll.  A     *)
(* body that breaks later has not sent anything.                           *)
FirstRetrySound ==
  /\ attempt <= 2 => broke = {}
  /\ \A n \in broke : n > 1 /\ sent[n] = <<>>

(* What an upstream is sent of the body, and when an attempt may not be.   *)
BodiesReplayed ==
  /\ ProxyTypeOK
  /\ WholeBodies
  /\ FirstRetrySound

(* "A ReplayBody MUST NOT be polled until the previous body has been       *)
(* dropped" (body.rs): fails with the second retry, which does not wait    *)
(* for a clone that no connection has polled.                              *)
NoTwoReaders == broke = {}

(* With a request timeout, a call in flight ends, answered or not.         *)
CallsEnd ==
  cfg.timeout /\ at = "calling" ~> at # "calling"

(* An endpoint is told how each request it was given went.                 *)
HealthReported ==
  \A n \in AttemptNo : handle[n] # "dropped"

(* The headers the policies asked for are on the upstream's response.      *)
HeadersReachClient == out.what = "ok" => owed \subseteq out.headers
=============================================================================
