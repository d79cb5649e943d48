----------------------------- MODULE Knowledge -----------------------------
(***************************************************************************)
(* What the gateway remembers of finished requests                         *)
(* (agentgateway/src/knowledge/): a task per request updates its session,  *)
(* tells the KDN of the prompt, appends to the bounded working memory and  *)
(* adds to the statistics of the route.  The four steps take four locks,   *)
(* and the wait for the KDN lies between them.                             *)
(***************************************************************************)
EXTENDS Naturals, Sequences, FiniteSets, SequencesExt

CONSTANTS Capture,      \* capture tasks
          Conversation, \* session identifiers
          NoSession,    \* a request without X-Session-ID
          RouteName,
          Prompt,       \* fingerprints of prompts
          NoPrompt,     \* a request that is not for a language model
          Captured,     \* the requests of the runs: a subset of Args
          Capacity      \* of the working memory

ASSUME CapacityAssumption == Capacity \in Nat \ {0}

VARIABLES
  kdn,       \* a KDN client is configured
  capture,   \* task -> [step, args, turn, overlap]
  sessions,  \* session -> [turns, seen, failures]
  memory,    \* WorkingMemory::entries, oldest first
  pushed,    \* everything that was ever pushed (history)
  stats,     \* route -> [total, ok, failed]
  told       \* what the KDN was told: [session, prompt, turn, overlap]

knowledgeVars == <<kdn, capture, sessions, memory, pushed, stats, told>>

Args == [session : Conversation \cup {NoSession}, route : RouteName,
         prompt : Prompt \cup {NoPrompt}, failure : BOOLEAN]
ASSUME CapturedAssumption == Captured \subseteq Args

NoSessionState == [turns |-> 0, seen |-> {}, failures |-> 0]
NoStats == [total |-> 0, ok |-> 0, failed |-> 0]

KnowledgeTypeOK ==
  /\ \A c \in Capture :
       /\ capture[c].step \in {"idle", "spawned", "touched", "told", "head",
                               "answered", "stored", "done"}
       /\ capture[c].args \in Args
       /\ capture[c].turn \in Nat
       /\ capture[c].overlap \in BOOLEAN
  /\ sessions \in [Conversation -> [turns : Nat, seen : SUBSET Prompt, failures : Nat]]
  /\ memory \in Seq(Args) /\ Len(memory) <= Capacity
  /\ stats \in [RouteName -> [total : Nat, ok : Nat, failed : Nat]]

KnowledgeInit ==
  /\ kdn \in BOOLEAN
  /\ \E r \in RouteName :
       capture = [c \in Capture |->
                    [step |-> "idle", turn |-> 0, overlap |-> FALSE,
                     args |-> [session |-> NoSession, route |-> r,
                               prompt |-> NoPrompt, failure |-> FALSE]]]
  /\ sessions = [s \in Conversation |-> NoSessionState]
  /\ memory = <<>> /\ pushed = <<>>
  /\ stats = [r \in RouteName |-> NoStats]
  /\ told = {}

At(c, step) == capture[c].step = step
Go(c, step) == capture' = [capture EXCEPT ![c].step = step]

-----------------------------------------------------------------------------
(* The access log is dropped: KnowledgeHandle::capture. *)
Spawn(c, args) ==
  /\ At(c, "idle")
  /\ capture' = [capture EXCEPT ![c] = [@ EXCEPT !.step = "spawned", !.args = args]]
  /\ UNCHANGED <<kdn, sessions, memory, pushed, stats, told>>

Overlaps(s, p) == p \in s.seen

(* SessionWorkingMemory::touch, under its lock *)
Touch(c) ==
  LET a == capture[c].args
      s == sessions[a.session]
  IN /\ At(c, "spawned")
     /\ IF a.session = NoSession
        THEN Go(c, "touched") /\ UNCHANGED sessions
        ELSE /\ sessions' = [sessions EXCEPT ![a.session] =
                  [turns |-> s.turns + 1,
                   seen |-> s.seen \cup ({a.prompt} \ {NoPrompt}),
                   failures |-> IF a.failure THEN s.failures + 1 ELSE 0]]
             /\ capture' = [capture EXCEPT ![c] = [@ EXCEPT !.step = "touched", !.turn = s.turns + 1,
                                           !.overlap = Overlaps(s, a.prompt)]]
     /\ UNCHANGED <<kdn, memory, pushed, stats, told>>

(* KdnClient::query: only with a client and a prompt. *)
Tell(c) ==
  /\ At(c, "touched")
  /\ IF kdn /\ capture[c].args.prompt # NoPrompt
     THEN /\ Go(c, "told")
          /\ told' = told \cup {[session |-> capture[c].args.session,
                                 prompt |-> capture[c].args.prompt,
                                 turn |-> capture[c].turn, overlap |-> capture[c].overlap]}
     ELSE Go(c, "answered") /\ UNCHANGED told
  /\ UNCHANGED <<kdn, sessions, memory, pushed, stats>>

(* An error, a refusal, or 200 ms without the head of an answer.           *)
KdnGivesUp(c) ==
  /\ At(c, "told") /\ Go(c, "answered")
  /\ UNCHANGED <<kdn, sessions, memory, pushed, stats, told>>

(* The head of a good answer: the timeout no longer runs.                  *)
KdnHead(c) ==
  /\ At(c, "told") /\ Go(c, "head")
  /\ UNCHANGED <<kdn, sessions, memory, pushed, stats, told>>

(* The rest of the answer, or its failure; nothing bounds the wait.        *)
KdnBody(c) ==
  /\ At(c, "head") /\ Go(c, "answered")
  /\ UNCHANGED <<kdn, sessions, memory, pushed, stats, told>>

Remembered(m, e) == Append(IF Len(m) >= Capacity THEN Tail(m) ELSE m, e)

(* WorkingMemory::push, under its lock *)
Push(c) ==
  /\ At(c, "answered")
  /\ memory' = Remembered(memory, capture[c].args)
  /\ pushed' = Append(pushed, capture[c].args)
  /\ Go(c, "stored")
  /\ UNCHANGED <<kdn, sessions, stats, told>>

(* A defect: a failure is counted as both. *)
RecordedBoth(s, failure) ==
  [total |-> s.total + 1, ok |-> s.ok + 1, failed |-> IF failure THEN s.failed + 1 ELSE s.failed]

Recorded(s, failure) ==
  [total |-> s.total + 1,
   ok |-> IF failure THEN s.ok ELSE s.ok + 1,
   failed |-> IF failure THEN s.failed + 1 ELSE s.failed]

(* KnowledgeStore::ingest, under its lock *)
Ingest(c) ==
  /\ At(c, "stored")
  /\ LET a == capture[c].args IN
     stats' = [stats EXCEPT ![a.route] = Recorded(@, a.failure)]
  /\ Go(c, "done")
  /\ UNCHANGED <<kdn, sessions, memory, pushed, told>>

CaptureStep(c) == Touch(c) \/ Tell(c) \/ Push(c) \/ Ingest(c)

KnowledgeNext ==
  \E c \in Capture :
    (\E a \in Captured : Spawn(c, a)) \/ CaptureStep(c) \/ KdnGivesUp(c) \/ KdnHead(c) \/ KdnBody(c)

(* The runtime runs every task, and the timer runs until the answer's      *)
(* head; its rest is up to the KDN.                                        *)
KnowledgeFairness ==
  \A c \in Capture : WF_knowledgeVars(CaptureStep(c)) /\ WF_knowledgeVars(KdnGivesUp(c) \/ KdnHead(c))

KnowledgeSpec == KnowledgeInit /\ [][KnowledgeNext]_knowledgeVars /\ KnowledgeFairness

-----------------------------------------------------------------------------
(* knowledge::lookup: the latest entry of a prompt. *)
Lookup(p) ==
  LET hits == {i \in DOMAIN memory : memory[i].prompt = p}
  IN IF hits = {} THEN <<>> ELSE <<memory[CHOOSE i \in hits : \A j \in hits : j <= i]>>

Touched(c) == capture[c].turn > 0
SameSession(c, d) == Touched(c) /\ Touched(d) /\ capture[c].args.session = capture[d].args.session

(* The KDN ranks what to keep by the turns and repetitions of a session:   *)
(* no two requests of a session are given one turn, and a request is told  *)
(* as a repetition exactly if an earlier turn had its prompt, in whatever  *)
(* order the tasks get the lock and reach the KDN.                         *)
OverlapIsExact ==
  /\ \A c, d \in Capture :
       c # d /\ SameSession(c, d) => capture[c].turn # capture[d].turn
  /\ \A c \in Capture :
       Touched(c) =>
         (capture[c].overlap <=>
            /\ capture[c].args.prompt # NoPrompt
            /\ \E d \in Capture : /\ SameSession(c, d)
                                  /\ capture[d].turn < capture[c].turn
                                  /\ capture[d].args.prompt = capture[c].args.prompt)

(* A session's count of failures is the run of failed turns up to its last. *)
FailuresAreConsecutive ==
  \A s \in Conversation :
    LET turn(i) == CHOOSE c \in Capture : Touched(c) /\ capture[c].args.session = s /\ capture[c].turn = i
        n == sessions[s].turns
        f == sessions[s].failures
    IN /\ f <= n
       /\ \A i \in (n - f + 1)..n : capture[turn(i)].args.failure
       /\ n > f => ~capture[turn(n - f)].args.failure

(* A replay of a prompt gets its latest answer, unless at least Capacity   *)
(* entries have come since.                                                *)
ReplayIsLatest ==
  \A p \in Prompt :
    LET hits == {i \in DOMAIN pushed : pushed[i].prompt = p /\ i > Len(pushed) - Capacity}
    IN Lookup(p) = IF hits = {} THEN <<>>
                   ELSE <<pushed[CHOOSE i \in hits : \A j \in hits : j <= i]>>

(* The statistics of a route are those of the requests that were captured, *)
(* each counted once, as a success or as a failure.                        *)
StatsAreExact ==
  \A r \in RouteName :
    LET mine(b) == {c \in Capture : /\ At(c, "done") /\ capture[c].args.route = r
                                    /\ capture[c].args.failure = b}
    IN /\ stats[r].ok = Cardinality(mine(FALSE))
       /\ stats[r].failed = Cardinality(mine(TRUE))
       /\ stats[r].total = stats[r].ok + stats[r].failed

(* Sessions, working memory and statistics are those of the captured requests, *)
(* in whatever order the tasks of the captures reach them.                 *)
CapturesConsistent ==
  /\ KnowledgeTypeOK
  /\ OverlapIsExact
  /\ FailuresAreConsecutive
  /\ ReplayIsLatest
  /\ StatsAreExact

(* Every request that is captured ends in the working memory and in the    *)
(* statistics, whether the KDN is there or not; only a KDN that leaves its *)
(* answer unfinished keeps a capture for ever.                             *)
CapturesFinish ==
  \A c \in Capture : At(c, "spawned") ~> (At(c, "done") \/ At(c, "head"))
=============================================================================
