----------------------------- MODULE MCTraffic ------------------------------
(* The components a request meets on its way, side by side: they share no  *)
(* state, and `part` picks the one that moves in a behaviour.              *)
EXTENDS TLC, HbonePool, RateLimiter, HttpProxy, LogWriter

CONSTANTS r1, r2, r3, d1, d2, h1

VARIABLE part

TrafficDestOf == r1 :> d1 @@ r2 :> d1 @@ r3 :> d2
TrafficHashOf == [d \in Dest |-> h1]
TrafficAmends == {-1, 2}

trafficVars == <<part, poolVars, limiterVars, proxyVars, logVars>>

ProxyAtRest ==
  /\ ProxyInit
  /\ cfg = [retries |-> 0, timeout |-> FALSE, backoff |-> FALSE,
            frames |-> 0, hinted |-> FALSE]

(* A hint about a short body and a backoff of a policy without retries     *)
(* change nothing, and a timeout need not pass.                            *)
ProxyStarts ==
  /\ ProxyInit
  /\ cfg.hinted => cfg.frames > Buffered
  /\ cfg.backoff => Attempts > 1
  /\ cfg.timeout

TrafficInit ==
  /\ part \in {"pool", "limiter", "proxy", "log"}
  /\ PoolInit /\ LimiterInit
  /\ IF part = "proxy" THEN ProxyStarts ELSE ProxyAtRest
  /\ LogInit /\ (part # "log" => lossy)

TrafficNext ==
  /\ UNCHANGED part
  /\ \/ part = "pool" /\ PoolNext /\ UNCHANGED <<limiterVars, proxyVars, logVars>>
     \/ part = "limiter" /\ LimiterNext /\ UNCHANGED <<poolVars, proxyVars, logVars>>
     \/ part = "proxy" /\ ProxyNext /\ UNCHANGED <<poolVars, limiterVars, logVars>>
     \/ part = "log" /\ LogNext /\ UNCHANGED <<poolVars, limiterVars, proxyVars>>

TrafficSpec ==
  /\ TrafficInit /\ [][TrafficNext]_trafficVars
  /\ PoolFairness /\ LimiterFairness /\ ProxyFairness
  /\ LogFairness

=============================================================================
