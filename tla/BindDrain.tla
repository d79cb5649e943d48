----------------------------- MODULE BindDrain ------------------------------
(***************************************************************************)
(* The shutdown of one bind: run_with_drain (core/src/drain.rs) around the *)
(* accept loop of run_bind (agentgateway/src/proxy/gateway.rs).            *)
(*                                                                         *)
(* Two futures race in a select.  The watcher waits for the process-wide   *)
(* drain, sleeps the minimum, starts the bind's own drain and waits for    *)
(* its blockers up to the deadline.  The accept loop accepts until the     *)
(* bind's drain starts, stops making blockers, and accepts for the minimum *)
(* again.  Whichever ends first drops the other and shuts the remaining    *)
(* connections down.  Time is abstracted: a sleep or a timeout is a step   *)
(* that may come at any moment after it was started.                       *)
(***************************************************************************)
CONSTANTS Conn

VARIABLES
  outer,     \* mode of the process-wide drain, or "none"
  watch,     \* the watcher: "idle", "delay", "waiting"
  accept,    \* the accept loop: "accepting", "lame"
  sub,       \* the bind's own drain has been signalled
  conn,      \* connection -> "none", "open", "closed", "killed"
  blocks,    \* the connections that hold a drain blocker (Upgrader::upgrade)
  minPassed, \* history: the minimum delay has elapsed
  ended      \* why run_with_drain ended, or "no"

vars == <<outer, watch, accept, sub, conn, blocks, minPassed, ended>>

TypeOK ==
  /\ outer \in {"none", "Graceful", "Immediate"}
  /\ watch \in {"idle", "delay", "waiting"}
  /\ accept \in {"accepting", "lame"}
  /\ sub \in BOOLEAN /\ minPassed \in BOOLEAN
  /\ conn \in [Conn -> {"none", "open", "closed", "killed"}]
  /\ blocks \in SUBSET {c \in Conn : conn[c] # "none"}
  /\ ended \in {"no", "drained", "deadline", "immediate", "accept"}

Init ==
  /\ outer = "none"
  /\ watch = "idle"
  /\ accept = "accepting"
  /\ sub = FALSE /\ minPassed = FALSE
  /\ conn = [c \in Conn |-> "none"]
  /\ blocks = {}
  /\ ended = "no"

-----------------------------------------------------------------------------
(* A dropped Signal counts as an immediate drain.                          *)
SignalDrain(mode) ==
  /\ outer = "none"
  /\ outer' = mode
  /\ UNCHANGED <<watch, accept, sub, conn, blocks, minPassed, ended>>

(* The watcher of run_with_drain                                           *)

SeeDrain ==
  /\ ended = "no" /\ watch = "idle" /\ outer # "none"
  /\ IF outer = "Graceful" THEN watch' = "delay" /\ UNCHANGED ended
                           ELSE ended' = "immediate" /\ UNCHANGED watch
  /\ UNCHANGED <<outer, accept, sub, conn, blocks, minPassed>>

MinDelayElapsed ==
  /\ ended = "no" /\ watch = "delay"
  /\ watch' = "waiting"
  /\ sub' = TRUE /\ minPassed' = TRUE
  /\ UNCHANGED <<outer, accept, conn, blocks, ended>>

\* mutant: the accept loop's own blocker is not counted
ReleasedEarly == TRUE

(* Signal::start_drain_and_wait returns when every sender of the drained   *)
(* channel is gone: the upgrader's and those of the connections.           *)
Released == accept = "lame" /\ \A c \in blocks : conn[c] # "open"

AllReleased ==
  /\ ended = "no" /\ watch = "waiting" /\ Released
  /\ ended' = "drained"
  /\ UNCHANGED <<outer, watch, accept, sub, conn, blocks, minPassed>>

DeadlineExpired ==
  /\ ended = "no" /\ watch = "waiting"
  /\ ended' = "deadline"
  /\ UNCHANGED <<outer, watch, accept, sub, conn, blocks, minPassed>>

-----------------------------------------------------------------------------
(* The accept loop of run_bind                                             *)

(* Connections accepted after the upgrader was disabled do not block.      *)
Accept(c) ==
  /\ ended = "no" /\ conn[c] = "none"
  /\ conn' = [conn EXCEPT ![c] = "open"]
  /\ blocks' = IF accept = "accepting" THEN blocks \cup {c} ELSE blocks
  /\ UNCHANGED <<outer, watch, accept, sub, minPassed, ended>>

GoLame ==
  /\ ended = "no" /\ accept = "accepting" /\ sub
  /\ accept' = "lame"
  /\ UNCHANGED <<outer, watch, sub, conn, blocks, minPassed, ended>>

(* The inner drain has no watcher, so only the minimum sleep remains; then *)
(* the loop returns and the select of run_with_drain is over.              *)
AcceptLoopReturns ==
  /\ ended = "no" /\ accept = "lame"
  /\ ended' = "accept"
  /\ UNCHANGED <<outer, watch, accept, sub, conn, blocks, minPassed>>

-----------------------------------------------------------------------------
(* Connections                                                             *)

Close(c) ==
  /\ conn[c] = "open"
  /\ conn' = [conn EXCEPT ![c] = "closed"]
  /\ UNCHANGED <<outer, watch, accept, sub, blocks, minPassed, ended>>

\* mutant: only blocking connections watch force_shutdown
ForceShutdownBlockers(c) ==
  /\ conn[c] = "open" /\ c \in blocks /\ ended # "no"
  /\ conn' = [conn EXCEPT ![c] = "killed"]
  /\ UNCHANGED <<outer, watch, accept, sub, blocks, minPassed, ended>>

(* force_shutdown changes, or its senders are gone.                        *)
ForceShutdown(c) ==
  /\ conn[c] = "open" /\ ended # "no"
  /\ conn' = [conn EXCEPT ![c] = "killed"]
  /\ UNCHANGED <<outer, watch, accept, sub, blocks, minPassed, ended>>

Next ==
  \/ \E mode \in {"Graceful", "Immediate"} : SignalDrain(mode)
  \/ SeeDrain \/ MinDelayElapsed \/ AllReleased \/ DeadlineExpired
  \/ GoLame \/ AcceptLoopReturns
  \/ \E c \in Conn : Accept(c) \/ Close(c) \/ ForceShutdown(c)

(* Both futures are polled and timers fire; peers need not cooperate, so   *)
(* nothing is assumed of SignalDrain, Accept and Close.                    *)
Fairness ==
  /\ WF_vars(SeeDrain) /\ WF_vars(MinDelayElapsed) /\ WF_vars(DeadlineExpired)
  /\ WF_vars(GoLame)
  /\ \A c \in Conn : WF_vars(ForceShutdown(c))

Spec == Init /\ [][Next]_vars
FairSpec == Spec /\ Fairness

-----------------------------------------------------------------------------
(* Properties                                                              *)

(* Once a graceful drain has started, new connections are served for the   *)
(* minimum time at least: the loop neither goes lame nor ends before.      *)
MinimumHonoured ==
  outer = "Graceful" /\ (accept = "lame" \/ ended # "no") => minPassed

(* A drain that completes by itself leaves no blocking connection open,    *)
(* and none appears later.                                                 *)
DrainedMeansReleased ==
  ended = "drained" => \A c \in blocks : conn[c] # "open"

(* A drain neither starts turning connections away early nor ends before what *)
(* blocks it.                                                              *)
DrainHonoured ==
  /\ TypeOK
  /\ MinimumHonoured
  /\ DrainedMeansReleased

(* However long its peers hold on, a drained bind ends and all of its      *)
(* connections with it ("hard deadline").                                  *)
ShutdownBounded ==
  outer # "none" ~> (ended # "no" /\ \A c \in Conn : conn[c] # "open")

(* "We will continue processing connections as long as there are any       *)
(* remaining open": only the deadline ends a graceful drain while a        *)
(* blocking connection is open.                                            *)
GracefulUntilDeadline ==
  [][outer = "Graceful" /\ ended = "no" /\ ended' # "no"
       /\ (\E c \in blocks : conn[c] = "open")
     => ended' = "deadline"]_vars
=============================================================================
