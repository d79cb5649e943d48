------------------------------ MODULE MCTasks -------------------------------
(* The background tasks of the proxy, side by side: `part` picks the one   *)
(* that moves in a behaviour. The others stay where nothing is left to do. *)
EXTENDS Knowledge, Certificates, DnsCache, LocalReload

VARIABLE part

tasksVars == <<part, knowledgeVars, certVars, dnsVars, reloadVars>>

(* Requests for Knowledge: one conversation that repeats a prompt, that    *)
(* fails, that is not for a model; and a request of nobody.                *)
Requested(s, r, p, f) == [session |-> s, route |-> r, prompt |-> p, failure |-> f]
SomeCaptured ==
  UNION {{Requested(s, r, p, FALSE), Requested(s, r, p, TRUE),
          Requested(s, r, NoPrompt, FALSE), Requested(NoSession, r, p, FALSE)} :
            s \in Conversation, r \in RouteName, p \in Prompt}

CertAtRest ==
  /\ clock = MaxClock /\ ticks = 0 /\ fetcher = [step |-> "checking", since |-> 0]
  /\ state = NotReady /\ version = 0 /\ failures = 0
  /\ caller = [c \in IdentityCall |->
                 [step |-> "idle", seen |-> 0, got |-> "none", valid |-> FALSE]]

(* A first load that failed.                                               *)
ReloadAtRest ==
  /\ file = [parses |-> FALSE, items |-> {}, wls |-> {}] /\ edits = 0 /\ changed = FALSE
  /\ loader = [phase |-> "stopped", read |-> file, first |-> FALSE]
  /\ prev = Nothing /\ binds = {} /\ discovery = {} /\ partial = Nothing

TasksInit ==
  /\ part \in {"knowledge", "certificates", "dns", "reload"}
  /\ KnowledgeInit /\ DnsInit
  /\ part # "knowledge" => kdn
  /\ IF part = "certificates" THEN CertInit ELSE CertAtRest
  /\ IF part = "reload" THEN ReloadInit ELSE ReloadAtRest

TasksNext ==
  \/ /\ part = "knowledge" /\ KnowledgeNext
     /\ UNCHANGED <<part, certVars, dnsVars, reloadVars>>
  \/ /\ part = "certificates" /\ CertNext
     /\ UNCHANGED <<part, knowledgeVars, dnsVars, reloadVars>>
  \/ /\ part = "dns" /\ DnsNext
     /\ UNCHANGED <<part, knowledgeVars, certVars, reloadVars>>
  \/ /\ part = "reload" /\ ReloadNext
     /\ UNCHANGED <<part, knowledgeVars, certVars, dnsVars>>

TasksSpec ==
  /\ TasksInit /\ [][TasksNext]_tasksVars
  /\ KnowledgeFairness /\ CertFairness /\ DnsFairness /\ ReloadFairness

(* Captures end, whoever waits for an identity or an address is answered, and *)
(* the last edit of the file is served.                                    *)
TasksServe ==
  /\ CapturesFinish
  /\ CallersAnswered
  /\ FailureIsRetried
  /\ ResolveReturns
  /\ UnusedLeaves
  /\ LastEditIsServed
=============================================================================
