----------------------------- MODULE McpSession -----------------------------
(***************************************************************************)
(* The sessions of MCP clients (agentgateway/src/mcp/session.rs,           *)
(* streamablehttp.rs, sse.rs, upstream/client.rs) with one streamable      *)
(* upstream of several replicas.                                           *)
(*                                                                         *)
(* A relay is the gateway's side of a session: the upstream's session and  *)
(* the endpoint that has it.  The id of an initialized session is these,   *)
(* encrypted: a gateway that does not know it makes a new relay from it.   *)
(* If the upstream gives no session the id is random, and known only to    *)
(* the table.  A legacy SSE session lives as long as its stream; a         *)
(* stateless request makes a session and deletes it.                       *)
(***************************************************************************)
EXTENDS Naturals, FiniteSets

CONSTANTS SessionCall,  \* requests of clients
          Endpoint,     \* replicas of the upstream
          UpSession,    \* sessions the upstream may give, of any replica
          RandomId,     \* uuids
          MaxRelays,    \* bound on the relays made
          NoEndpoint, NoUp

ASSUME SessionAssumption ==
  /\ MaxRelays \in Nat \ {0} /\ UpSession \cap RandomId = {}
  /\ NoEndpoint \notin Endpoint /\ NoUp \notin UpSession

VARIABLES
  table,   \* SessionManager.sessions: id -> relay, 0 if there is none
  relay,   \* relay -> [up, pinned, made, id]
  scall,   \* request -> [at, relay, kind, id]
  goesTo,  \* request -> the endpoint it was sent to
  home,    \* upstream session -> the endpoint that gave it
  over,    \* upstream sessions a DELETE was sent for
  known,   \* ids that clients were given
  sseOpen  \* relays of legacy sessions whose stream is open

sessionVars == <<table, relay, scall, goesTo, home, over, known, sseOpen>>

SessionId == UpSession \cup RandomId
Relay == 1 .. MaxRelays
CallKinds == {"init", "again", "use", "stateless", "oneshot", "delete", "sse"}

RestingCall == [at |-> "idle", relay |-> 0, kind |-> "use", id |-> NoUp]
FreshRelay == [up |-> NoUp, pinned |-> NoEndpoint, made |-> FALSE, id |-> NoUp]

SessionTypeOK ==
  /\ table \in [SessionId -> 0 .. MaxRelays]
  /\ relay \in [Relay -> [up : UpSession \cup {NoUp},
                          pinned : Endpoint \cup {NoEndpoint},
                          made : BOOLEAN, id : SessionId \cup {NoUp}]]
  /\ scall \in [SessionCall ->
       [at : {"idle", "resume", "send", "sent", "pin", "finish", "refused", "drop", "done",
              "left"},
        relay : 0 .. MaxRelays, kind : CallKinds, id : SessionId \cup {NoUp}]]
  /\ goesTo \in [SessionCall -> Endpoint \cup {NoEndpoint}]
  /\ home \in [UpSession -> Endpoint \cup {NoEndpoint}]
  /\ over \subseteq UpSession
  /\ known \subseteq SessionId
  /\ sseOpen \subseteq Relay

SessionInit ==
  /\ table = [i \in SessionId |-> 0]
  /\ relay = [r \in Relay |-> FreshRelay]
  /\ scall = [c \in SessionCall |-> RestingCall]
  /\ goesTo = [c \in SessionCall |-> NoEndpoint]
  /\ home = [x \in UpSession |-> NoEndpoint]
  /\ over = {} /\ known = {} /\ sseOpen = {}

Unmade == {r \in Relay : ~relay[r].made}
UnusedIds == RandomId \ {relay[r].id : r \in Relay}

SCall(c, at, r, kind, id) ==
  scall' = [scall EXCEPT ![c] = [at |-> at, relay |-> r, kind |-> kind, id |-> id]]

SCallAt(c, s) == scall' = [scall EXCEPT ![c].at = s]

-----------------------------------------------------------------------------
(* Requests arrive                                                         *)

(* create_session, create_stateless_session: a random id, not inserted.    *)
NewSession(c, kind) ==
  /\ scall[c].at = "idle" /\ Unmade # {} /\ UnusedIds # {}
  /\ LET r == CHOOSE q \in Unmade : TRUE
         i == CHOOSE q \in UnusedIds : TRUE
     IN /\ relay' = [relay EXCEPT ![r] = [@ EXCEPT !.made = TRUE, !.id = i]]
        /\ SCall(c, "send", r, kind, i)
  /\ UNCHANGED <<table, goesTo, home, over, known, sseOpen>>

(* get_or_resume_session: the first look at the table, under a read lock.  *)
(* A client may initialize a session again.                                *)
UseSession(c, i, kind) ==
  /\ scall[c].at = "idle" /\ i \in known
  /\ IF table[i] # 0 THEN SCall(c, "send", table[i], kind, i)
     ELSE SCall(c, IF i \in UpSession THEN "resume" ELSE "done", 0, kind, i)
  /\ UNCHANGED <<table, relay, goesTo, home, over, known, sseOpen>>

(* A relay is built from the id and replaces what the table has by then,   *)
(* or the configuration has other targets now and the id is not found.     *)
Resume(c) ==
  /\ scall[c].at = "resume"
  /\ \/ /\ Unmade # {}
        /\ LET r == CHOOSE q \in Unmade : TRUE
               i == scall[c].id
           IN /\ relay' = [relay EXCEPT ![r] =
                   [up |-> i, pinned |-> home[i], made |-> TRUE, id |-> i]]
              /\ table' = [table EXCEPT ![i] = r]
              /\ SCall(c, "send", r, scall[c].kind, i)
     \/ SCallAt(c, "done") /\ UNCHANGED <<relay, table>>
  /\ UNCHANGED <<goesTo, home, over, known, sseOpen>>

-----------------------------------------------------------------------------
(* A message to the upstream                                               *)

(* McpHttpClient::call: the pinned endpoint, or any.                       *)
SendUp(c, e) ==
  /\ scall[c].at = "send"
  /\ relay[scall[c].relay].pinned \in {NoEndpoint, e}
  /\ goesTo' = [goesTo EXCEPT ![c] = e]
  /\ SCallAt(c, "sent")
  /\ UNCHANGED <<table, relay, home, over, known, sseOpen>>

UpFails(c) ==
  /\ scall[c].at = "sent" /\ SCallAt(c, "refused")
  /\ UNCHANGED <<table, relay, goesTo, home, over, known, sseOpen>>

(* The response arrives; whether an endpoint is pinned is looked at before *)
(* it is set.                                                              *)
UpAnswers(c) ==
  /\ scall[c].at = "sent"
  /\ SCallAt(c, IF relay[scall[c].relay].pinned = NoEndpoint THEN "pin"
                ELSE "finish")
  /\ UNCHANGED <<table, relay, goesTo, home, over, known, sseOpen>>

Pin(c) ==
  /\ scall[c].at = "pin"
  /\ relay' = [relay EXCEPT ![scall[c].relay].pinned = goesTo[c]]
  /\ SCallAt(c, "finish")
  /\ UNCHANGED <<table, goesTo, home, over, known, sseOpen>>

Given(c, x) ==
  \/ x = NoUp
  \/ x \in UpSession /\ home[x] = NoEndpoint /\ scall[c].at = "finish"

(* The upstream gives a session or none.  A new session is inserted even   *)
(* if it was refused, under the id that was encoded if there is one.       *)
FinishInit(c, x) ==
  /\ scall[c].at \in {"finish", "refused"} /\ scall[c].kind = "init"
  /\ Given(c, x)
  /\ LET r == scall[c].relay
         i == IF x # NoUp THEN x ELSE relay[r].id
     IN /\ table' = [table EXCEPT ![i] = r] /\ known' = known \cup {i}
        /\ relay' = [relay EXCEPT ![r] = [@ EXCEPT !.id = i, !.up = x]]
  /\ home' = [y \in UpSession |-> IF y = x THEN goesTo[c] ELSE home[y]]
  /\ SCallAt(c, "done")
  /\ UNCHANGED <<goesTo, over, sseOpen>>

(* The client keeps its id, the relay gets the upstream's new session.     *)
FinishAgain(c, x) ==
  /\ scall[c].at \in {"finish", "refused"} /\ scall[c].kind = "again"
  /\ Given(c, x)
  /\ relay' = IF x = NoUp THEN relay
              ELSE [relay EXCEPT ![scall[c].relay].up = x]
  /\ home' = [y \in UpSession |-> IF y = x THEN goesTo[c] ELSE home[y]]
  /\ SCallAt(c, "done")
  /\ UNCHANGED <<table, goesTo, over, known, sseOpen>>

FinishUse(c) ==
  /\ scall[c].at \in {"finish", "refused"} /\ scall[c].kind = "use"
  /\ SCallAt(c, "done")
  /\ UNCHANGED <<table, relay, goesTo, home, over, known, sseOpen>>

\* mutant: only a request that was answered is followed by the deletion
FinishIfAnswered(c) ==
  /\ scall[c].kind = "oneshot" /\ scall[c].at \in {"finish", "refused"}
  /\ SCallAt(c, IF scall[c].at = "finish" THEN "drop" ELSE "done")
  /\ UNCHANGED <<table, relay, goesTo, home, over, known, sseOpen>>

(* A stateless request is sent after an initialize of its own; if that     *)
(* fails it is not sent.                                                   *)
InitializedStateless(c, x) ==
  /\ scall[c].kind = "stateless" /\ scall[c].at = "finish"
  /\ Given(c, x)
  /\ relay' = [relay EXCEPT ![scall[c].relay].up = x]
  /\ home' = [y \in UpSession |-> IF y = x THEN goesTo[c] ELSE home[y]]
  /\ scall' = [scall EXCEPT ![c] = [@ EXCEPT !.kind = "oneshot", !.at = "send"]]
  /\ UNCHANGED <<table, goesTo, over, known, sseOpen>>

(* Whatever became of the two, the deletion follows, if the request's      *)
(* future is still there: nothing guards it.                               *)
FinishStateless(c) ==
  /\ \/ scall[c].kind = "stateless" /\ scall[c].at = "refused"
     \/ scall[c].kind = "oneshot" /\ scall[c].at \in {"finish", "refused"}
  /\ SCallAt(c, "drop")
  /\ UNCHANGED <<table, relay, goesTo, home, over, known, sseOpen>>

-----------------------------------------------------------------------------
(* Deletions                                                               *)

(* delete_session: out of the table first, then the upstream is told.      *)
DeleteSession(c, i) ==
  /\ scall[c].at = "idle" /\ i \in known /\ table[i] # 0
  /\ SCall(c, "drop", table[i], "delete", i)
  /\ table' = [table EXCEPT ![i] = 0]
  /\ UNCHANGED <<relay, goesTo, home, over, known, sseOpen>>

TellUpstream(c) ==
  /\ scall[c].at = "drop"
  /\ over' = over \cup ({relay[scall[c].relay].up} \ {NoUp})
  /\ SCallAt(c, "done")
  /\ UNCHANGED <<table, relay, goesTo, home, known, sseOpen>>

(* create_legacy_session, and the stream that carries its dropper.         *)
OpenLegacy(c) ==
  /\ scall[c].at = "idle" /\ Unmade # {} /\ UnusedIds # {}
  /\ LET r == CHOOSE q \in Unmade : TRUE
         i == CHOOSE q \in UnusedIds : TRUE
     IN /\ relay' = [relay EXCEPT ![r] = [@ EXCEPT !.made = TRUE, !.id = i]]
        /\ table' = [table EXCEPT ![i] = r] /\ known' = known \cup {i}
        /\ sseOpen' = sseOpen \cup {r}
        /\ SCall(c, "done", r, "sse", i)
  /\ UNCHANGED <<goesTo, home, over>>

(* SessionDropper: removed at once, the upstream is told by a task.        *)
CloseLegacy(c) ==
  /\ scall[c].kind = "sse" /\ scall[c].at = "done" /\ scall[c].relay \in sseOpen
  /\ sseOpen' = sseOpen \ {scall[c].relay} /\ SCallAt(c, "drop")
  /\ table' = [table EXCEPT ![scall[c].id] = 0]
  /\ UNCHANGED <<relay, goesTo, home, over, known>>

(* The client goes away and the future of its request with it, at whatever *)
(* it awaits.  What a closed legacy session leaves to do is a task's.      *)
ClientLeaves(c) ==
  /\ scall[c].at \in {"send", "sent", "drop"} /\ scall[c].kind # "sse"
  /\ SCallAt(c, "left")
  /\ UNCHANGED <<table, relay, goesTo, home, over, known, sseOpen>>

(* The gateway restarts; clients keep their ids.                           *)
RestartGateway ==
  /\ table' = [i \in SessionId |-> 0] /\ sseOpen' = {}
  /\ scall' = [c \in SessionCall |->
       IF scall[c].at = "idle" THEN scall[c]
       ELSE [RestingCall EXCEPT !.at = "done"]]
  /\ UNCHANGED <<relay, goesTo, home, over, known>>

\* A client's next request.
NextCall(c) ==
  /\ scall[c].at \in {"done", "left"} /\ scall[c].relay \notin sseOpen
  /\ scall' = [scall EXCEPT ![c] = RestingCall]
  /\ goesTo' = [goesTo EXCEPT ![c] = NoEndpoint]
  /\ UNCHANGED <<table, relay, home, over, known, sseOpen>>

CallProgress(c) ==
  \/ Resume(c) \/ Pin(c) \/ FinishUse(c) \/ FinishStateless(c)
  \/ (\E x \in UpSession \cup {NoUp} :
           FinishInit(c, x) \/ FinishAgain(c, x) \/ InitializedStateless(c, x))
  \/ TellUpstream(c) \/ (\E e \in Endpoint : SendUp(c, e))
  \/ UpFails(c) \/ UpAnswers(c)

SessionNext ==
  \/ \E c \in SessionCall :
       \/ \E k \in {"init", "stateless"} : NewSession(c, k)
       \/ \E i \in SessionId, k \in {"use", "again"} : UseSession(c, i, k)
       \/ \E i \in SessionId : DeleteSession(c, i)
       \/ OpenLegacy(c) \/ CloseLegacy(c) \/ CallProgress(c)
       \/ ClientLeaves(c) \/ NextCall(c)
  \/ RestartGateway

SessionSpec == SessionInit /\ [][SessionNext]_sessionVars

-----------------------------------------------------------------------------
(* Properties                                                              *)

(* Affinity: a request under the id of an upstream session goes to the     *)
(* replica that has the session, through races, deletions and restarts; so *)
(* does a stateless request after its own initialize.                      *)
GoesHome ==
  \A c \in SessionCall : goesTo[c] # NoEndpoint =>
    /\ scall[c].id \in UpSession => goesTo[c] = home[scall[c].id]
    /\ scall[c].kind = "oneshot" /\ relay[scall[c].relay].up # NoUp
         => goesTo[c] = home[relay[scall[c].relay].up]

(* What the table has under an id stands for that id: an encoded id has a  *)
(* relay that can reach the upstream session's replica.                    *)
TableMatchesIds ==
  \A i \in SessionId : table[i] # 0 =>
    /\ relay[table[i]].id = i
    /\ i \in UpSession => relay[table[i]].pinned = home[i]

(* A stateless request that ends, refused or answered at either of its two *)
(* messages, leaves no session behind at an upstream.                      *)
NothingLeftBehind ==
  \A c \in SessionCall :
    scall[c].kind \in {"stateless", "oneshot"} /\ scall[c].at = "done"
      => relay[scall[c].relay].up \in over \cup {NoUp}

(* Sessions stay with the replica that has them, and a stateless request   *)
(* that is answered or refused leaves none behind.                         *)
SessionsConsistent ==
  /\ SessionTypeOK
  /\ GoesHome
  /\ TableMatchesIds
  /\ NothingLeftBehind

(* "Clean up upstream resources" (streamablehttp.rs:145), which a client   *)
(* that leaves skips: the deletion comes after an await, without a guard.  *)
CleanedUp ==
  \A c \in SessionCall :
    scall[c].kind \in {"stateless", "oneshot"} /\ scall[c].at \in {"done", "left"}
      => relay[scall[c].relay].up \in over \cup {NoUp}

(* "captures the resolved backend address from the first response and pins *)
(* all subsequent requests to that same endpoint".                         *)
PinnedOnce ==
  [][\A r \in Relay :
       relay[r].pinned # NoEndpoint => relay'[r].pinned = relay[r].pinned]_sessionVars
=============================================================================
