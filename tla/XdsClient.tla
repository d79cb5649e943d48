----------------------------- MODULE XdsClient ------------------------------
(***************************************************************************)
(* AdsClient (xds/src/client.rs): the delta xDS client, with the stream to *)
(* a control plane that may break at any moment.                           *)
(*                                                                         *)
(* The control plane is external: it sends a subscriber what changed since *)
(* the last response of the stream, in the first one everything, and the   *)
(* removal of what the client says it knows and is gone.  A resource is a  *)
(* name with a version; a "bad" version fails to decode or to convert.     *)
(* On-demand subscription, which nothing enables, is left out.             *)
(***************************************************************************)
EXTENDS Naturals, Sequences, FiniteSets

CONSTANTS
  Type, Name,
  TypeOf,      \* name -> its type
  MaxVersion,  \* bound on the changes of a resource
  Window,      \* responses in flight
  Capacity,    \* of the channel of outgoing requests
  MaxBackoff,  \* in units of INITIAL_BACKOFF
  Stale,       \* some earlier version, not known which
  None

ASSUME XdsAssumption ==
  /\ IsFiniteSet(Type) /\ TypeOf \in [Name -> Type]
  /\ MaxVersion \in Nat /\ MaxBackoff \in Nat \ {0}
  /\ Window \in Nat \ {0} /\ Capacity \in Nat \ {0}
  /\ None \notin Nat /\ Stale \notin Nat /\ None # Stale

(* For the instances that are checked: resources of one type, and types    *)
(* without resources.                                                      *)
AllOfOneType == [n \in Name |-> CHOOSE t \in Type : TRUE]

VARIABLES
  config,    \* control plane: name -> its version and kind
  phase,     \* control plane: type -> "none", "subscribed" or "served"
  sent,      \* control plane: name -> version last sent, Stale or None
  up,        \* the stream is established
  toClient,  \* responses on the stream
  toServer,  \* requests on the stream
  applied,   \* client: name -> version its handler holds, or None
  known,     \* client: known_resources
  expect,    \* client: types_to_expect
  ready,     \* client: block_ready has been dropped
  answer,    \* client: the ACK or NACK being sent, or None
  backoff,   \* client: in units of INITIAL_BACKOFF
  accepted   \* history: the types a response of which was accepted

serverVars == <<config, phase, sent>>
streamVars == <<up, toClient, toServer>>
storeVars  == <<applied, known>>
readyVars  == <<expect, ready, accepted>>
vars == <<serverVars, streamVars, storeVars, readyVars, answer, backoff>>

Version  == 0 .. MaxVersion
Resource == [version : Version, kind : {"good", "bad", "removed"}]
Response == [type : Type, resources : SUBSET [name : Name, version : Version,
                                    kind : {"good", "bad", "removed"}]]
Answer   == [type : Type, signal : {"Ack", "Nack"}]
Request  == Answer \cup [type : Type, signal : {"Subscribe"}, names : SUBSET Name]

TypeOK ==
  /\ config \in [Name -> Resource]
  /\ phase \in [Type -> {"none", "subscribed", "served"}]
  /\ sent \in [Name -> Version \cup {Stale, None}]
  /\ up \in BOOLEAN /\ ready \in BOOLEAN
  /\ toClient \in Seq(Response) /\ Len(toClient) <= Window
  /\ toServer \in Seq(Request)
  /\ applied \in [Name -> Version \cup {None}]
  /\ known \in SUBSET Name
  /\ expect \in SUBSET Type /\ accepted \in SUBSET Type
  /\ answer \in Answer \cup {None}
  /\ backoff \in 1 .. MaxBackoff

Init ==
  /\ config = [n \in Name |-> [version |-> 0, kind |-> "removed"]]
  /\ phase = [t \in Type |-> "none"]
  /\ sent = [n \in Name |-> None]
  /\ up = FALSE /\ toClient = <<>> /\ toServer = <<>>
  /\ applied = [n \in Name |-> None]
  /\ known = {} /\ expect = Type /\ ready = FALSE /\ accepted = {}
  /\ answer = None
  /\ backoff = 1

-----------------------------------------------------------------------------
(* The control plane                                                       *)

Change(n, kind) ==
  /\ config[n].version < MaxVersion
  /\ kind = "removed" => config[n].kind # "removed"
  /\ config' = [config EXCEPT ![n] = [version |-> @.version + 1, kind |-> kind]]
  /\ UNCHANGED <<phase, sent, streamVars, storeVars, readyVars, answer, backoff>>

ReceiveRequest ==
  /\ up /\ toServer # <<>>
  /\ toServer' = Tail(toServer)
  /\ LET r == Head(toServer)
     IN  IF r.signal = "Subscribe"
         THEN /\ phase' = [phase EXCEPT ![r.type] = "subscribed"]
              /\ sent' = [n \in Name |-> IF n \in r.names THEN Stale ELSE sent[n]]
         ELSE UNCHANGED <<phase, sent>>
  /\ UNCHANGED <<config, up, toClient, storeVars, readyVars, answer, backoff>>

Due(t) ==
  {n \in Name : /\ TypeOf[n] = t
                /\ sent[n] # config[n].version
                /\ sent[n] = None => config[n].kind # "removed"}

(* The first response of a type is sent even if it is empty.               *)
Push(t) ==
  /\ up /\ Len(toClient) < Window
  /\ phase[t] = "subscribed" \/ (phase[t] = "served" /\ Due(t) # {})
  /\ phase' = [phase EXCEPT ![t] = "served"]
  /\ sent' = [n \in Name |-> IF n \in Due(t) THEN config[n].version ELSE sent[n]]
  /\ toClient' = Append(toClient,
       [type |-> t, resources |->
          {[name |-> n, version |-> config[n].version, kind |-> config[n].kind] :
             n \in Due(t)}])
  /\ UNCHANGED <<config, up, toServer, storeVars, readyVars, answer, backoff>>

-----------------------------------------------------------------------------
(* The client's connection                                                 *)

\* mutant: the names known from earlier streams are not announced
SubscribeAfresh(t) == [type |-> t, signal |-> "Subscribe", names |-> {}]

(* initial_resource_versions: known names, without their versions.         *)
Subscribe(t) ==
  [type |-> t, signal |-> "Subscribe", names |-> {n \in known : TypeOf[n] = t}]

Order == CHOOSE s \in [1 .. Cardinality(Type) -> Type] :
           \A t \in Type : \E i \in DOMAIN s : s[i] = t

(* The initial requests go out first.                                      *)
Connect ==
  /\ ~up
  /\ up' = TRUE
  /\ toServer' = [i \in DOMAIN Order |-> Subscribe(Order[i])]
  /\ UNCHANGED <<serverVars, toClient, storeVars, readyVars, answer, backoff>>

Doubled == IF 2 * backoff < MaxBackoff THEN 2 * backoff ELSE MaxBackoff

ConnectFails ==
  /\ ~up
  /\ backoff' = Doubled
  /\ UNCHANGED <<serverVars, streamVars, storeVars, readyVars, answer>>

(* The stream ends or fails, whatever the client was doing: what was on it *)
(* is lost, and the control plane forgets the subscription.  An orderly    *)
(* end resets the backoff.                                                 *)
Disconnect ==
  /\ up
  /\ up' = FALSE /\ toClient' = <<>> /\ toServer' = <<>>
  /\ phase' = [t \in Type |-> "none"]
  /\ sent' = [n \in Name |-> None]
  /\ answer' = None
  /\ backoff' \in {1, Doubled}
  /\ UNCHANGED <<config, storeVars, readyVars>>

-----------------------------------------------------------------------------
(* Handling a response                                                     *)

Named(r, kinds) == {x.name : x \in {y \in r.resources : y.kind \in kinds}}

Outcome(r) == IF Named(r, {"bad"}) = {} THEN "Ack" ELSE "Nack"

Effect(r) ==
  [n \in Name |->
     IF n \in Named(r, {"good"})
     THEN (CHOOSE x \in r.resources : x.name = n).version
     ELSE IF n \in Named(r, {"removed"}) THEN None ELSE applied[n]]

\* mutant: responses are handled in tasks of their own
HandleAnyOrder ==
  /\ toClient # <<>> /\ answer = None
  /\ \E i \in DOMAIN toClient :
       LET r == toClient[i]
       IN  /\ toClient' = SubSeq(toClient, 1, i - 1) \o
                            SubSeq(toClient, i + 1, Len(toClient))
           /\ applied' = Effect(r)
           /\ known' = (known \ Named(r, {"removed"})) \cup Named(r, {"good", "bad"})
           /\ answer' = [type |-> r.type, signal |-> Outcome(r)]
  /\ UNCHANGED <<serverVars, up, toServer, readyVars, backoff>>

(* Resources are handled one by one and a bad one does not stop the rest;  *)
(* its name is recorded like the others.                                   *)
Handle ==
  /\ toClient # <<>> /\ answer = None
  /\ toClient' = Tail(toClient)
  /\ LET r == Head(toClient)
     IN  /\ applied' = Effect(r)
         /\ known' = (known \ Named(r, {"removed"})) \cup Named(r, {"good", "bad"})
         /\ answer' = [type |-> r.type, signal |-> Outcome(r)]
  /\ UNCHANGED <<serverVars, up, toServer, readyVars, backoff>>

\* mutant: a rejected response counts towards readiness
SendAnswerCountsNack ==
  /\ answer # None /\ Len(toServer) < Capacity
  /\ toServer' = Append(toServer, answer)
  /\ answer' = None
  /\ accepted' = IF answer.signal = "Ack" THEN accepted \cup {answer.type} ELSE accepted
  /\ expect' = expect \ {answer.type}
  /\ ready' = (ready \/ expect' = {})
  /\ UNCHANGED <<serverVars, up, toClient, storeVars, backoff>>

\* mutant: the types left are looked at before this one is struck off
SendAnswerTestsFirst ==
  /\ answer # None /\ Len(toServer) < Capacity
  /\ toServer' = Append(toServer, answer)
  /\ answer' = None
  /\ IF answer.signal = "Ack"
     THEN /\ accepted' = accepted \cup {answer.type}
          /\ expect' = expect \ {answer.type}
          /\ ready' = (ready \/ expect = {})
     ELSE UNCHANGED readyVars
  /\ UNCHANGED <<serverVars, up, toClient, storeVars, backoff>>

(* The answer waits for room in the channel; the first ACK of a type is    *)
(* counted once it has been sent.                                          *)
SendAnswer ==
  /\ answer # None /\ Len(toServer) < Capacity
  /\ toServer' = Append(toServer, answer)
  /\ answer' = None
  /\ IF answer.signal = "Ack"
     THEN /\ accepted' = accepted \cup {answer.type}
          /\ expect' = expect \ {answer.type}
          /\ ready' = (ready \/ expect' = {})
     ELSE UNCHANGED readyVars
  /\ UNCHANGED <<serverVars, up, toClient, storeVars, backoff>>

Next ==
  \/ \E n \in Name, kind \in {"good", "bad", "removed"} : Change(n, kind)
  \/ ReceiveRequest
  \/ \E t \in Type : Push(t)
  \/ Connect \/ ConnectFails \/ Disconnect
  \/ Handle \/ SendAnswer

(* The client retries for ever and its task is polled; the control plane   *)
(* reads and pushes.  Nothing makes the stream stay up.                    *)
Fairness ==
  /\ WF_vars(Connect) /\ WF_vars(Handle) /\ WF_vars(SendAnswer)
  /\ WF_vars(ReceiveRequest)
  /\ \A t \in Type : WF_vars(Push(t))

Spec == Init /\ [][Next]_vars
FairSpec == Spec /\ Fairness

-----------------------------------------------------------------------------
(* Properties                                                              *)

(* Whatever the handler holds is announced when the stream is opened again,*)
(* or its removal in the meantime would never be heard of.                 *)
AppliedKnown == \A n \in Name : applied[n] # None => n \in known

(* Readiness waits for an accepted response of every type.                 *)
ReadyMeansServed == ready => accepted = Type

(* What the client announces and reports follows what its handlers accepted. *)
AcceptedServed ==
  /\ TypeOK
  /\ AppliedKnown
  /\ ReadyMeansServed

(* A resource never falls back to an older version.                        *)
NeverOlder ==
  [][\A n \in Name :
       applied[n] # None /\ applied'[n] # None => applied[n] <= applied'[n]]_vars

Synced ==
  \A n \in Name :
    /\ config[n].kind = "good" => applied[n] = config[n].version
    /\ config[n].kind = "removed" => applied[n] = None

(* Once the stream stays up, the handler ends up with the configuration,   *)
(* however often the stream broke before.                                  *)
Converges == <>[]up => <>[]Synced

(* Without bad resources the client becomes ready once the stream holds.   *)
BecomesReady ==
  <>[]up /\ [](\A n \in Name : config[n].kind # "bad") => <>ready
=============================================================================
