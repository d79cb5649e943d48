--------------------------- MODULE UpstreamConnect ---------------------------
(* A call to a backend (client/mod.rs): the transport its endpoint and its    *)
(* policies ask for (httpproxy.rs build_service_call, build_transport), the   *)
(* pool key, and the connection behind it, which may be plain, through a      *)
(* proxy, through one HBONE tunnel or through two, and TLS on top of it.      *)
EXTENDS Naturals, Sequences, FiniteSets

CONSTANTS
  UpCall,        \* callers, each of which calls MaxCalls times
  MaxCalls,
  Asks,          \* what calls may ask for: [backend, tls, override]
  HostIps,       \* the addresses DNS may give
  ServerCerts,   \* certificates servers may show: [chain, names]
  NoConnection

(* A backend is a service's endpoint or an opaque target:                     *)
(*   [kind, host, ip, port, protocol, id, gateway]                            *)
(* kind "service": `port` says whether endpoint or service maps the port,     *)
(* `gateway` whether the workload is remote and what is known of the gateway. *)

ASSUME UpAssumption ==
  /\ MaxCalls \in Nat \ {0}
  /\ \A a \in Asks : a.override \in {"none", "h1", "h2"}
  /\ NoConnection \notin ServerCerts

VARIABLES
  caHas,       \* whether the certificate client has an identity to give
  timed,       \* whether requests have a timeout
  upcall,      \* the calls
  made,        \* how many calls each caller has made
  idle         \* connections kept for reuse: [key, path, tls, cert]

upVars == <<caHas, timed, upcall, made, idle>>

NoTlsPolicy == [absent |-> TRUE, host |-> ""]
Plain == [kind |-> "plain"]
NewCall == [phase |-> "new", backend |-> Plain, tls |-> NoTlsPolicy,
            override |-> "none", target |-> "", transport |-> Plain, ep |-> "",
            path |-> <<>>, unread |-> <<>>, read |-> <<>>, cert |-> NoConnection,
            shaken |-> NoConnection]

Settled == {"ready", "failed"}
UpPhases == Settled \cup {"new", "chosen", "built", "resolved",
                          "tunnel", "outer", "certificate", "inner", "carried"}

UpTypeOK ==
  /\ caHas \in BOOLEAN
  /\ \A c \in UpCall : /\ upcall[c].phase \in UpPhases
                       /\ upcall[c].tls \in {a.tls : a \in Asks} \cup {NoTlsPolicy}
                       /\ made[c] \in 1..MaxCalls
                       /\ upcall[c].override \in {"none", "h1", "h2"}

(* Answers of a tunnel proxy: the status may come in two pieces.              *)
ProxyAnswers ==
  {<<"status", "end">>, <<"status">>, <<"half", "half", "end">>, <<"refused">>,
   <<"status", "end", "payload">>}

UpInit ==
  /\ caHas \in BOOLEAN /\ timed \in BOOLEAN
  /\ upcall = [c \in UpCall |-> NewCall] /\ made = [c \in UpCall |-> 1] /\ idle = {}

Go(c, u) ==
  /\ upcall' = [upcall EXCEPT ![c] = u]
  /\ UNCHANGED <<caHas, timed, made, idle>>
Fail(c) == Go(c, [upcall[c] EXCEPT !.phase = "failed"])

-----------------------------------------------------------------------------
(* What to connect to                                                         *)

(* A remote workload is reached through its network's gateway, when that is   *)
(* given by address and known; the gateway resolves the name of the service.  *)
ThroughGateway(b) == b.gateway = "known"

(* build_service_call and the opaque target; the override of the HTTP version *)
(* comes from the protocol of the service's port.                             *)
Choose(c, a) ==
  /\ upcall[c].phase = "new"
  /\ LET b == a.backend IN
     IF b.kind = "service" /\ (b.port = "unmapped" \/ (b.ip = "" /\ ~ThroughGateway(b)))
     THEN Fail(c)
     ELSE Go(c, [upcall[c] EXCEPT !.phase = "chosen", !.backend = b, !.tls = a.tls,
                 !.override = a.override,
                 !.target = IF b.kind = "service" /\ ~ThroughGateway(b) THEN b.ip ELSE b.host])

(* A TLS config is told from another by the object it is. One for a version   *)
(* is made for every call: the request has a copy of the policy, and the copy *)
(* keeps it. A policy that sets its own ALPN is not changed for the version.  *)
ConfigFor(c) ==
  LET p == upcall[c].tls
      v == IF p.alpn THEN "none" ELSE upcall[c].override
  IN  [policy |-> p, version |-> v, madeFor |-> IF v = "none" THEN 0 ELSE made[c]]

Application(c) == IF upcall[c].tls = NoTlsPolicy THEN Plain
                  ELSE [kind |-> "tls", config |-> ConfigFor(c)]

(* build_transport. What the endpoint asks for is not done without a CA that  *)
(* has an identity: the call is made without the mesh's TLS.                  *)
Transport(c) ==
  LET b == upcall[c].backend
      app == Application(c)
  IN  IF b.kind # "service" \/ ~caHas THEN [kind |-> "direct", app |-> app]
      ELSE CASE b.protocol = "HBONE" /\ b.gateway = "known" ->
                  [kind |-> "double", app |-> app, id |-> b.id]
             [] b.protocol = "HBONE" /\ b.gateway # "known" ->
                  [kind |-> "hbone", app |-> app, id |-> b.id]
             [] b.protocol = "mTLS" /\ app = Plain ->
                  [kind |-> "direct", app |-> [kind |-> "mesh", id |-> b.id, madeFor |-> made[c]]]
             [] OTHER -> [kind |-> "direct", app |-> app]

BuildTransport(c) ==
  /\ upcall[c].phase = "chosen"
  /\ Go(c, [upcall[c] EXCEPT !.phase = "built",
            !.transport = IF upcall[c].backend.kind = "proxied"
                          THEN [kind |-> "tunnel", app |-> Application(c)]
                          ELSE Transport(c)])

(* Names are resolved here, unless the gateway does; a failure ends the call. *)
NoResolution(c) == upcall[c].transport.kind = "double" \/ upcall[c].backend.kind = "unix"
ResolveTarget(c) ==
  /\ upcall[c].phase = "built"
  /\ IF NoResolution(c) THEN Go(c, [upcall[c] EXCEPT !.phase = "resolved", !.ep = "placeholder"])
     ELSE IF upcall[c].target = upcall[c].backend.ip
     THEN Go(c, [upcall[c] EXCEPT !.phase = "resolved", !.ep = upcall[c].target])
     ELSE \/ \E ip \in HostIps : Go(c, [upcall[c] EXCEPT !.phase = "resolved", !.ep = ip])
          \/ Fail(c)

-----------------------------------------------------------------------------
(* The pool                                                                   *)

\* mutant: a connection is pooled under its target only, whatever its transport
PoolKeyOfTarget(c) == [target |-> upcall[c].target, ep |-> upcall[c].ep,
                       version |-> upcall[c].override]

PoolKey(c) == [target |-> upcall[c].target, ep |-> upcall[c].ep,
               transport |-> upcall[c].transport, version |-> upcall[c].override]

ReuseIdle(c) ==
  /\ upcall[c].phase = "resolved"
  /\ \E k \in idle :
       /\ k.key = PoolKey(c)
       /\ upcall' = [upcall EXCEPT ![c] =
                       [@ EXCEPT !.phase = "ready", !.path = k.path, !.cert = k.cert,
                                 !.shaken = k.shaken]]
       /\ idle' = idle \ {k}
  /\ UNCHANGED <<caHas, timed, made>>

(* The answer has been read: the connection may be used by the next call.     *)
GiveBack(c) ==
  /\ upcall[c].phase = "ready" /\ made[c] < MaxCalls
  /\ made' = [made EXCEPT ![c] = @ + 1]
  /\ idle' = idle \cup {[key |-> PoolKey(c), path |-> upcall[c].path,
                         cert |-> upcall[c].cert, shaken |-> upcall[c].shaken]}
  /\ upcall' = [upcall EXCEPT ![c] = NewCall]
  /\ UNCHANGED <<caHas, timed>>

-----------------------------------------------------------------------------
(* Connecting                                                                 *)

Hop(kind, to) == [kind |-> kind, to |-> to]

(* A connection of its own: to the endpoint, to the proxy, to a tunnel of the *)
(* HBONE pool.                                                                *)
Dial(c) ==
  /\ upcall[c].phase = "resolved"
  /\ \/ CASE upcall[c].transport.kind = "direct" ->
               Go(c, [upcall[c] EXCEPT !.phase = "carried", !.path = <<Hop("dial", upcall[c].ep)>>])
          [] upcall[c].transport.kind = "tunnel" ->
               \E answer \in ProxyAnswers :
                 Go(c, [upcall[c] EXCEPT !.phase = "tunnel", !.path = <<Hop("dial", "proxy")>>,
                        !.unread = answer])
          [] upcall[c].transport.kind = "hbone" ->
               Go(c, [upcall[c] EXCEPT !.phase = "carried",
                      !.path = <<Hop("tunnel", upcall[c].transport.id),
                                 Hop("connect", upcall[c].ep)>>])
          [] upcall[c].transport.kind = "double" ->
               Go(c, [upcall[c] EXCEPT !.phase = "outer",
                      !.path = <<Hop("tunnel", "gateway"), Hop("connect", upcall[c].target)>>])
     \/ Fail(c)

(* connect_tunnel: the answer is read until what has been read ends with the  *)
(* empty line. A status that is not there as a whole counts as a refusal.     *)
ReadAnswer(c, n) ==
  LET got == upcall[c].read \o SubSeq(upcall[c].unread, 1, n)
      rest == SubSeq(upcall[c].unread, n + 1, Len(upcall[c].unread))
      started == got[1] = "status" \/ (Len(got) > 1 /\ got[1] = "half" /\ got[2] = "half")
  IN  IF ~started THEN Fail(c)
      ELSE IF got[Len(got)] = "end"
      THEN Go(c, [upcall[c] EXCEPT !.phase = "carried", !.read = got, !.unread = rest,
                  !.path = Append(upcall[c].path, Hop("connect", upcall[c].target))])
      ELSE Go(c, [upcall[c] EXCEPT !.read = got, !.unread = rest])
TunnelAnswer(c) ==
  /\ upcall[c].phase = "tunnel"
  /\ \/ \E n \in 1..Len(upcall[c].unread) : ReadAnswer(c, n)
     \/ Fail(c)                                       \* the proxy hangs up

(* The second tunnel is made inside the first, with the waypoint, and asks    *)
(* for the target once more.                                                  *)
FetchCertificate(c) ==
  /\ upcall[c].phase = "outer"
  /\ IF caHas THEN Go(c, [upcall[c] EXCEPT !.phase = "certificate"]) \/ Fail(c) ELSE Fail(c)
InnerTls(c) ==
  /\ upcall[c].phase = "certificate"
  /\ \/ Go(c, [upcall[c] EXCEPT !.phase = "inner",
               !.path = Append(upcall[c].path, Hop("tunnel", upcall[c].transport.id))])
     \/ Fail(c)
InnerConnect(c) ==
  /\ upcall[c].phase = "inner"
  /\ \/ Go(c, [upcall[c] EXCEPT !.phase = "carried",
               !.path = Append(upcall[c].path, Hop("connect", upcall[c].target))])
     \/ Fail(c)

(* The verifier of a policy: the first of the ways not to be strict that it   *)
(* sets is the one that counts (ResolvedBackendTLS).                          *)
VerifierOf(p) ==
  IF p.insecureHost THEN "anyHost"
  ELSE IF p.insecure THEN "none"
  ELSE IF p.alts # {} THEN "alts" ELSE "name"

ServerName(c) == IF upcall[c].tls.host # "" THEN upcall[c].tls.host ELSE upcall[c].target

Verified(c, cert) ==
  LET app == upcall[c].transport.app IN
  IF app.kind = "mesh" THEN cert.chain /\ app.id \in cert.names
  ELSE CASE VerifierOf(upcall[c].tls) = "none" -> TRUE
         [] VerifierOf(upcall[c].tls) = "anyHost" -> cert.chain
         [] VerifierOf(upcall[c].tls) = "alts" ->
              cert.chain /\ upcall[c].tls.alts \cap cert.names # {}
         [] OTHER -> cert.chain /\ ServerName(c) \in cert.names

(* TLS for the application, over whatever carries it.                         *)
ApplicationTls(c) ==
  /\ upcall[c].phase = "carried"
  /\ IF upcall[c].transport.app = Plain THEN Go(c, [upcall[c] EXCEPT !.phase = "ready"])
     ELSE \E cert \in ServerCerts :
            IF Verified(c, cert)
            THEN Go(c, [upcall[c] EXCEPT !.phase = "ready", !.cert = cert,
                        !.shaken = [app |-> upcall[c].transport.app, name |-> ServerName(c)]])
            ELSE Fail(c)

(* A request with a timeout fails when it passes, wherever its call stands.   *)
TimesOut(c) ==
  /\ timed /\ upcall[c].phase \notin Settled \cup {"new", "chosen", "built"}
  /\ Fail(c)

(* The certificate client gets an identity, or loses it to a failed renewal.  *)
CaChanges == caHas' = ~caHas /\ UNCHANGED <<timed, upcall, made, idle>>

UpStep(c) ==
  \/ BuildTransport(c) \/ ResolveTarget(c) \/ ReuseIdle(c) \/ Dial(c) \/ TunnelAnswer(c)
  \/ FetchCertificate(c) \/ InnerTls(c) \/ InnerConnect(c) \/ ApplicationTls(c)
UpNext ==
  \/ CaChanges
  \/ \E c \in UpCall :
       \/ UpStep(c) \/ GiveBack(c) \/ TimesOut(c)
       \/ \E a \in Asks : Choose(c, a)

UpFairness ==
  \A c \in UpCall : /\ WF_upVars(BuildTransport(c)) /\ WF_upVars(ResolveTarget(c))
                    /\ WF_upVars(TimesOut(c))
UpSpec == UpInit /\ [][UpNext]_upVars /\ UpFairness

-----------------------------------------------------------------------------
(* Properties                                                                 *)

(* A call that is made goes where its transport says and nowhere else, also   *)
(* when the connection was made for another call: each tunnel ends at the     *)
(* peer that was asked for, and the last hop names the target.                *)
ExpectedPath(c) ==
  CASE upcall[c].transport.kind = "direct" -> <<Hop("dial", upcall[c].ep)>>
    [] upcall[c].transport.kind = "tunnel" ->
         <<Hop("dial", "proxy"), Hop("connect", upcall[c].target)>>
    [] upcall[c].transport.kind = "hbone" ->
         <<Hop("tunnel", upcall[c].backend.id), Hop("connect", upcall[c].ep)>>
    [] upcall[c].transport.kind = "double" ->
         <<Hop("tunnel", "gateway"), Hop("connect", upcall[c].target),
           Hop("tunnel", upcall[c].backend.id), Hop("connect", upcall[c].target)>>
GoesWhereAsked ==
  \A c \in UpCall : upcall[c].phase = "ready" => upcall[c].path = ExpectedPath(c)

(* A connection with TLS, new or reused, was verified as the policy of this   *)
(* call says, under the name this call would have asked for; one without TLS  *)
(* is never used for a policy that asks for it.                               *)
VerifiedAsAsked ==
  \A c \in UpCall : upcall[c].phase = "ready" =>
    IF upcall[c].transport.app = Plain
    THEN upcall[c].tls = NoTlsPolicy /\ upcall[c].cert = NoConnection
    ELSE /\ upcall[c].cert # NoConnection /\ Verified(c, upcall[c].cert)
         /\ upcall[c].shaken.name = ServerName(c)

(* Nothing the far end sent through a tunnel proxy is taken for the answer of *)
(* the proxy: what follows the empty line is left to the application.         *)
TunnelEndsExactly ==
  \A c \in UpCall : upcall[c].phase \in {"carried", "ready"} =>
    \A i \in DOMAIN upcall[c].read : upcall[c].read[i] # "payload"

UpstreamsConsistent == UpTypeOK /\ GoesWhereAsked /\ VerifiedAsAsked /\ TunnelEndsExactly

(* A request with a timeout ends, whatever the far ends do.                   *)
TimedCallsSettle ==
  \A c \in UpCall : (timed /\ upcall[c].phase # "new") ~>
                      (upcall[c].phase \in Settled \cup {"new"})

(* An endpoint of the mesh is reached through HBONE: it is not while the      *)
(* certificate client has no identity, build_transport goes on without.       *)
MeshAlwaysUsed ==
  \A c \in UpCall : upcall[c].phase = "ready" /\ upcall[c].backend.kind = "service" =>
    (upcall[c].backend.protocol = "HBONE" => upcall[c].transport.kind \in {"hbone", "double"})
=============================================================================
