----------------------------- MODULE TaskRouter -----------------------------
(***************************************************************************)
(* The task router behind the admin server: a task is assessed by a        *)
(* language model and sent to one agent or decomposed into a graph of      *)
(* subtasks (agentgateway/src/task_router/router.rs, dag.rs); the decision *)
(* is kept with its execution (management/admin.rs, knowledge/store.rs).   *)
(* The model's answers are any the parsers accept.                         *)
(***************************************************************************)
EXTENDS Naturals, Sequences, FiniteSets, SequencesExt

CONSTANTS Asker,            \* requests to /task-router/route
          Task,             \* task identifiers
          Agent,            \* names of agents
          Strategy,         \* the strategies of the runs
          Dag,              \* decompositions: [nodes : Seq, edges : set of pairs]
          RouterEntryLimit  \* ROUTER_ENTRY_LIMIT

ASSUME RouterEntryLimitAssumption == RouterEntryLimit \in Nat \ {0}

VARIABLES
  router,      \* [strategy, embedding: the client exists]
  ask,         \* asker -> [step, task, agents, strategy, dag, assigned]
  entries,     \* router_entries, oldest first
  appended,    \* every entry there was (history)
  executions   \* task -> TRUE once its execution was reported

taskVars == <<router, ask, entries, appended, executions>>

VectorStrategy == {"vector", "llmEnhancedVector", "vectorPrefilterLlm"}
RoutingStrategy == {"llm"} \cup VectorStrategy
ASSUME StrategyAssumption == Strategy \subseteq RoutingStrategy
ASSUME AgentAssumption == Agent \cap {"failed", "panicked"} = {}
ASSUME DagAssumption ==
  \A d \in Dag : /\ d.nodes \in Seq(Range(d.nodes)) /\ IsFiniteSet(d.edges)
                 /\ \A e \in d.edges : e = <<e[1], e[2]>>
NoDag == [nodes |-> <<>>, edges |-> {}]
Unassigned == "unassigned"
Step == {"idle", "assessing", "direct", "decomposing", "assigning", "decided",
         "answered", "failed", "panicked"}
AskRecord == [step : Step, task : Task, agents : SUBSET Agent,
              strategy : RoutingStrategy, dag : Dag \cup {NoDag}]

TaskRouterTypeOK ==
  /\ router \in [strategy : RoutingStrategy, embedding : BOOLEAN]
  /\ ask \in [Asker -> AskRecord]
  /\ entries \in Seq([task : Task, direct : BOOLEAN])
  /\ Len(entries) <= RouterEntryLimit
  /\ executions \subseteq Task

(* TaskRouter::new makes the embedding client for the configured strategy  *)
(* only; without its model the router is refused.                          *)
TaskRouterInit ==
  /\ router \in [strategy : Strategy, embedding : BOOLEAN]
  /\ router.embedding => router.strategy \in VectorStrategy
  /\ \E t \in Task :
       ask = [a \in Asker |-> [step |-> "idle", task |-> t, agents |-> {},
                               strategy |-> "llm", dag |-> NoDag]]
  /\ entries = <<>> /\ appended = <<>> /\ executions = {}

-----------------------------------------------------------------------------
(* TaskDAG::validate_acyclic: a depth-first search that keeps what it has  *)
(* visited and the path it is on.                                          *)

Subtasks(dag) == Range(dag.nodes) \cup UNION {{e[1], e[2]} : e \in dag.edges}
Neighbors(dag, n) == SetToSeq({e[2] : e \in {e \in dag.edges : e[1] = n}})

Searches(dag) ==
  [visited : SUBSET Subtasks(dag), onPath : SUBSET Subtasks(dag), cycle : BOOLEAN]
NotBegun == [visited |-> {}, onPath |-> {}, cycle |-> FALSE]

(* One subtask after the other, until a circle is met.                     *)
InTurn(visit, ns, s) ==
  LET after[i \in 0..Len(ns)] ==
        IF i = 0 THEN s
        ELSE IF after[i - 1].cycle THEN after[i - 1]
        ELSE visit[<<ns[i], after[i - 1]>>]
  IN after[Len(ns)]

(* The visit of a subtask, with so many calls left on the stack.  A path   *)
(* that repeats no subtask has at most one more of them than there are     *)
(* edges: where no call is left the subtask is on the path.                *)
OntoPath(s, n) == [visited |-> s.visited \cup {n}, onPath |-> s.onPath \cup {n}, cycle |-> FALSE]
OffPath(s, n) == IF s.cycle THEN s ELSE [s EXCEPT !.onPath = @ \ {n}]

Visit(dag) ==
  LET dfs[left \in 0..(Cardinality(dag.edges) + 1)] ==
        [at \in Subtasks(dag) \X Searches(dag) |->
           LET n == at[1]
               s == at[2]
           IN IF n \in s.onPath \/ left = 0 THEN [s EXCEPT !.cycle = TRUE]
              ELSE IF n \in s.visited THEN s
              ELSE OffPath(InTurn(dfs[left - 1], Neighbors(dag, n), OntoPath(s, n)), n)]
  IN dfs[Cardinality(dag.edges) + 1]

ValidateAcyclic(dag) == ~InTurn(Visit(dag), dag.nodes, NotBegun).cycle

-----------------------------------------------------------------------------
(* Whom a strategy may choose among the agents of a request. *)

Selection(strategy, agents) ==
  IF strategy \in VectorStrategy /\ ~router.embedding
  THEN {"panicked"}                   \* expect("embedding client must exist")
  ELSE agents \cup {"failed"}         \* an error, or an agent nobody named

(* What the handler is done with is forgotten.                             *)
Set(a, s) ==
  LET q == ask[a]
      over == s \in {"answered", "failed", "panicked"}
  IN ask' = [ask EXCEPT ![a] = [q EXCEPT !.step = s,
                       !.agents = IF over \/ s = "decided" THEN {} ELSE q.agents,
                       !.dag = IF over THEN NoDag ELSE q.dag]]

(* handle_route_task *)
RouteTask(a, task, agents, strategy) ==
  /\ ask[a].step = "idle"
  /\ LET refused == router.strategy \in VectorStrategy /\ ~router.embedding IN
     ask' = [ask EXCEPT ![a] =
               [step |-> IF refused THEN "failed" ELSE "assessing", task |-> task,
                agents |-> IF refused THEN {} ELSE agents, strategy |-> strategy, dag |-> NoDag]]
  /\ UNCHANGED <<router, entries, appended, executions>>

Assess(a) ==
  /\ ask[a].step = "assessing"
  /\ \E s \in {"failed", "direct", "decomposing"} : Set(a, s)
  /\ UNCHANGED <<router, entries, appended, executions>>

SelectDirect(a) ==
  /\ ask[a].step = "direct"
  /\ \E c \in Selection(ask[a].strategy, ask[a].agents) :
       Set(a, IF c \in {"failed", "panicked"} THEN c ELSE "decided")
  /\ UNCHANGED <<router, entries, appended, executions>>

Decompose(a) ==
  /\ ask[a].step = "decomposing"
  /\ \/ Set(a, "failed")
     \/ \E d \in Dag : ask' = [ask EXCEPT ![a] = [@ EXCEPT !.step = "assigning", !.dag = d]]
  /\ UNCHANGED <<router, entries, appended, executions>>

(* Each node gets an agent or none; the graph is validated afterwards. *)
AssignAgents(a) ==
  /\ ask[a].step = "assigning"
  /\ \E choice \in [DOMAIN ask[a].dag.nodes -> Selection(ask[a].strategy, ask[a].agents)] :
       Set(a, IF "panicked" \in Range(choice) THEN "panicked"
              ELSE IF ValidateAcyclic(ask[a].dag) THEN "decided" ELSE "failed")
  /\ UNCHANGED <<router, entries, appended, executions>>

(* add_router_entry *)
AppendEntry(es, e) ==
  LET all == Append(es, e)
      excess == IF Len(all) > RouterEntryLimit THEN Len(all) - RouterEntryLimit ELSE 0
  IN SubSeq(all, excess + 1, Len(all))

(* A defect: the answer leaves before the entry is written. *)
PersistNothing(a) ==
  /\ ask[a].step = "decided" /\ Set(a, "answered")
  /\ UNCHANGED <<router, entries, appended, executions>>

Persist(a) ==
  /\ ask[a].step = "decided"
  /\ LET e == [task |-> ask[a].task, direct |-> ask[a].dag = NoDag] IN
     /\ entries' = AppendEntry(entries, e)
     /\ appended' = Append(appended, e)
  /\ Set(a, "answered")
  /\ UNCHANGED <<router, executions>>

(* The agent that asked reports what became of its task. *)
ReportExecution(a) ==
  /\ ask[a].step = "answered"
  /\ executions' = executions \cup {ask[a].task}
  /\ UNCHANGED <<router, ask, entries, appended>>

TaskRouterNext ==
  \E a \in Asker :
    \/ \E t \in Task, agents \in SUBSET Agent, s \in Strategy :
         RouteTask(a, t, agents, s)
    \/ Assess(a) \/ SelectDirect(a) \/ Decompose(a) \/ AssignAgents(a)
    \/ Persist(a) \/ ReportExecution(a)

TaskRouterSpec == TaskRouterInit /\ [][TaskRouterNext]_taskVars

-----------------------------------------------------------------------------
(* all_traces(limit): the newest first, each with its execution. *)
AllTraces(limit) ==
  LET from == IF Len(entries) > limit THEN Len(entries) - limit ELSE 0
  IN [i \in 1..(Len(entries) - from) |->
        LET e == entries[Len(entries) + 1 - i]
        IN [task |-> e.task, executed |-> e.task \in executions]]

(* The subtasks that wait for n, and those that wait for it through        *)
(* others: they are in every set that holds the first and, with a subtask, *)
(* all that wait for it.                                                   *)
Dependents(dag, n) == {y \in Subtasks(dag) : <<n, y>> \in dag.edges}
Closed(dag, T) == \A x \in T : Dependents(dag, x) \subseteq T
Downstream(dag, n) ==
  {y \in Subtasks(dag) :
     \A T \in SUBSET Subtasks(dag) :
       Dependents(dag, n) \subseteq T /\ Closed(dag, T) => y \in T}

(* A decomposition whose subtasks wait for each other in a circle would    *)
(* never be executed: an accepted one has no circle through its subtasks,  *)
(* whatever the language model answered, edges to unknown subtasks         *)
(* included.                                                               *)
AcceptedIsAcyclic ==
  \A a \in Asker :
    ask[a].step = "decided" =>
      LET dag == ask[a].dag
      IN \A n \in Range(dag.nodes) : n \notin Downstream(dag, n)

(* The panic of a missing embedding client is reached only by a request    *)
(* that overrides the configured strategy.                                 *)
PanicsOnlyOnOverride ==
  \A a \in Asker : ask[a].step = "panicked" => ask[a].strategy # router.strategy

(* The decisions kept are the latest ones, in the order they were made.    *)
LatestDecisionsKept ==
  LET n == Len(appended)
      kept == IF n < RouterEntryLimit THEN n ELSE RouterEntryLimit
  IN entries = SubSeq(appended, n - kept + 1, n)

(* An execution that an answered agent reports finds the decision it is of, *)
(* as long as that is among the latest: no trace of the dashboard lacks the *)
(* result that was reported for it.                                         *)
ExecutionsFindDecisions ==
  \A a \in Asker :
    (ask[a].step = "answered" /\ ask[a].task \in executions) =>
      \/ \E i \in DOMAIN AllTraces(RouterEntryLimit) :
           AllTraces(RouterEntryLimit)[i] = [task |-> ask[a].task, executed |-> TRUE]
      \/ Cardinality({b \in Asker : ask[b].step = "answered"}) > RouterEntryLimit

(* A plan that is accepted can be carried out, and is found by its execution. *)
PlansConsistent ==
  /\ TaskRouterTypeOK
  /\ AcceptedIsAcyclic
  /\ PanicsOnlyOnOverride
  /\ LatestDecisionsKept
  /\ ExecutionsFindDecisions
=============================================================================
