----------------------------- MODULE MCStreams -----------------------------
(* The parts of the proxy in which callers wait for a connection that      *)
(* others share, side by side: `part` picks the one that moves in a        *)
(* behaviour. The others stay where nothing is left to do.                 *)
EXTENDS McpUpstream, McpMerge, ClientPool, ExtProc

VARIABLE part

streamsVars == <<part, upstreamVars, mergeVars, clientVars, procVars>>

ClientAtRest ==
  /\ ver = "h2" /\ returning = {}
  /\ pool = [connecting |-> FALSE, idle |-> <<>>, waiters |-> <<>>,
             rx |-> [c \in Call |-> "closed"]]
  /\ socket = [s \in Socket |-> Unused]
  /\ call = [c \in Call |-> [phase |-> "done", socket |-> NoSocket, reused |-> FALSE]]

(* Where both messages have a body, neither has a frame, the exchange does *)
(* not break and nobody lets go of a body; it may fail open where only the *)
(* request has one.                                                        *)
Both == \A d \in Direction : hadBody[d]
ProcessorInit == ProcBegin("start", "connecting") /\ (failOpen <=> hadBody["request"])
ProcessorAtRest == ProcBegin("done", "down") /\ failOpen /\ \A d \in Direction : ~hadBody[d]
ProcessorNext ==
  /\ ProcNext
  /\ Both => /\ link' # "down"
             /\ \A d \in Direction : pump'[d] <= 1 /\ newBody'[d] # "dropped"

StreamsInit ==
  /\ part \in {"upstream", "merge", "client", "processor"}
  /\ UpstreamInit /\ MergeInit
  /\ part # "upstream" => sse
  /\ part # "merge" => merging
  /\ IF part = "client" THEN ClientInit ELSE ClientAtRest
  /\ IF part = "processor" THEN ProcessorInit ELSE ProcessorAtRest

StreamsNext ==
  \/ part = "upstream" /\ McpUpstreamNext /\ UNCHANGED <<part, mergeVars, clientVars, procVars>>
  \/ part = "merge" /\ MergeNext /\ UNCHANGED <<part, upstreamVars, clientVars, procVars>>
  \/ part = "client" /\ ClientNext /\ UNCHANGED <<part, upstreamVars, mergeVars, procVars>>
  \/ part = "processor" /\ ProcessorNext /\ UNCHANGED <<part, upstreamVars, mergeVars, clientVars>>

StreamsSpec ==
  /\ StreamsInit /\ [][StreamsNext]_streamsVars
  /\ McpUpstreamFairness /\ MergeFairness /\ ClientFairness /\ ProcFairness

=============================================================================
