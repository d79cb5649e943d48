--------------------------- MODULE MCConnections ----------------------------
(* The life of a connection, for model checking: accepted and handshaken   *)
(* with (Connections), made to a backend (UpstreamConnect), copied to it   *)
(* (Relay), and closed when its bind shuts down (BindDrain).  They share   *)
(* no state, and `part` picks the one that moves in a behaviour.           *)
EXTENDS BindDrain, Connections, UpstreamConnect, Relay

CONSTANTS c1, c2, c3

VARIABLE part

(* Listeners that ask for certificates, that anybody may use, *)
(* that pass TLS through, whose certificate is broken, that are plain.     *)
TlsListener(host, protocol, cert, versions, auth, routes) ==
  [host |-> host, protocol |-> protocol, cert |-> cert, versions |-> versions,
   auth |-> auth, routes |-> routes]
Terminating == {TlsListener("a", "HTTPS", "good", {13}, TRUE, {}),
                TlsListener("*", "HTTPS", "good", {12, 13}, FALSE, {})}
Passing == {TlsListener("a", "TLS", "none", {}, FALSE, {"a", ""}),
            TlsListener("", "HTTPS", "invalid", {}, FALSE, {})}
PlainTcp == {TlsListener("", "TCP", "none", {}, FALSE, {""})}
BindOf(protocol, listeners) == [protocol |-> protocol, listeners |-> listeners]
TwoBinds(x, y) == [b \in {"b1", "b2"} |-> IF b = "b1" THEN x ELSE y]
SomeTables ==
  {TwoBinds(BindOf("tls", Terminating), Gone),
   TwoBinds(BindOf("http", {}), BindOf("tls", Terminating)),
   TwoBinds(BindOf("tcp", PlainTcp), BindOf("tcp", PlainTcp)),
   TwoBinds(BindOf("tls", Passing), BindOf("tls", Passing))}

(* Calls to backends: to endpoints of the mesh, here and in another        *)
(* network, to opaque targets, through a proxy and to a socket of a file.  *)
Endpoint(ip, port, protocol, id, gateway) ==
  [kind |-> "service", host |-> "svc", ip |-> ip, port |-> port,
   protocol |-> protocol, id |-> id, gateway |-> gateway]
OpaqueBackend(kind, host) == [kind |-> kind, host |-> host, ip |-> "none"]
StrictTls(host) == [host |-> host, insecureHost |-> FALSE, insecure |-> FALSE,
                    alts |-> {}, alpn |-> host # ""]
LaxTls(any, alts) == [host |-> "", insecureHost |-> any, insecure |-> any,
                      alts |-> alts, alpn |-> FALSE]
Ask(b, p, v) == [backend |-> b, tls |-> p, override |-> v]
SomeAsks ==
  {Ask(Endpoint("10", "mapped", pr, id, "none"), p, "none") :
     pr \in {"HBONE", "mTLS"}, id \in {"w1", "w2"}, p \in {NoTlsPolicy, StrictTls("")}}
  \cup {Ask(Endpoint("", port, "HBONE", id, "known"), NoTlsPolicy, "none") :
          id \in {"w1", "w2"}, port \in {"mapped", "unmapped"}}
  \cup {Ask(OpaqueBackend(kind, host), p, "none") :
          kind \in {"opaque", "proxied"}, host \in {"h1", "h2"},
          p \in {NoTlsPolicy, StrictTls("")}}
  \cup {Ask(OpaqueBackend("opaque", "h1"), p, v) :
          p \in {StrictTls("h2"), LaxTls(TRUE, {"x"}), LaxTls(FALSE, {"x", "h2"})},
          v \in {"none", "h2"}}
  \cup {Ask(OpaqueBackend("unix", "sock"), NoTlsPolicy, "h1")}
SomeCerts == {[chain |-> TRUE, names |-> {"h1", "w1"}],
                 [chain |-> TRUE, names |-> {"h2", "x"}],
                 [chain |-> FALSE, names |-> {"h1"}]}

(* Raw connections: of a TCP route through HBONE, of an HBONE client.      *)
Joined(c, b) == [e \in End |-> IF e = "client" THEN c ELSE b]
SomeKinds == {Joined("tcp", "rw"), Joined("h2", "tcp")}
SomeBytes == Joined(3, 1)

(* The one bind that the tables at rest have is a table of the model. *)
ASSUME EndsAssumption == TwoBinds(BindOf("tls", Terminating), Gone) \in BindTables

ends == <<part, vars, connVars, upVars, relayVars>>

(* The parts that do not move have nothing left to do, so that no fairness *)
(* speaks of them: a connection that is closed already.                    *)
ConnAtRest ==
  /\ tunnel = "Direct" /\ caReady = TRUE /\ frontend = NoOverride
  /\ tables = TwoBinds(BindOf("tls", Terminating), Gone)
  /\ changes = 0 /\ caches = {}
  /\ sock = [s \in Sock |-> [Unopened EXCEPT !.phase = "closed"]]

EndsInit ==
  /\ part \in {"drain", "connection", "upstream", "relay"}
  /\ Init
  /\ IF part = "connection" THEN ConnInit ELSE ConnAtRest
  /\ UpInit /\ (part # "upstream" => caHas /\ timed)
  /\ RelayInit /\ (part # "relay" => kindOf = Joined("tcp", "rw"))

EndsNext ==
  /\ UNCHANGED part
  /\ \/ part = "drain" /\ Next /\ UNCHANGED <<connVars, upVars, relayVars>>
     \/ part = "connection" /\ ConnNext /\ UNCHANGED <<vars, upVars, relayVars>>
     \/ part = "upstream" /\ UpNext /\ UNCHANGED <<vars, connVars, relayVars>>
     \/ part = "relay" /\ RelayNext /\ UNCHANGED <<vars, connVars, upVars>>

EndsSpec ==
  /\ EndsInit /\ [][EndsNext]_ends
  /\ Fairness
  /\ ConnFairness
  /\ UpFairness
  /\ RelayFairness

(* A client of a listener and a call to a backend each have the peer that  *)
(* they ask for, and know it as who it is (Connections, UpstreamConnect);  *)
(* what is copied between the two arrives, in order (Relay).               *)
RightPeers == ConnectionsConsistent /\ UpstreamsConsistent /\ BytesRelayed

(* A handshake with a client ends, a call with a deadline is answered, a   *)
(* copy ends when its peers are gone, and a bind that shuts down is gone   *)
(* in bounded time.                                                        *)
ConnectionsEnd ==
  /\ ShutdownBounded
  /\ HandshakesEnd
  /\ TimedCallsSettle
  /\ RelayEnds
=============================================================================
