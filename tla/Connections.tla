----------------------------- MODULE Connections -----------------------------
(* A connection from its accept to the proxy that serves it (gateway.rs): the *)
(* tunnel it is taken out of, the listener its ClientHello selects, the TLS   *)
(* that is terminated or passed through, the route of a TCP proxy, and what   *)
(* the sockets carry of it on the way (stream.rs, rewind.rs, tls.rs).         *)
EXTENDS Integers, Sequences, FiniteSets

CONSTANTS
  Stream,          \* the CONNECT requests of an HBONE tunnel
  BindAt,          \* the addresses that binds listen on, which name them here
  EntryBind,       \* the bind that accepts the connection
  BindTables,      \* the contents the store may have, functions of BindAt
  ServerNames,     \* the names a ClientHello may ask for, "" for none
  Overrides,       \* the TLS versions frontend policies ask for, or NoOverride
  NoOverride,
  Peer, NoPeer,    \* the identities of clients
  MaxConfigs       \* bound on changes of the configuration

RawSocket == "raw"
Sock == {RawSocket} \cup Stream
Gone == [protocol |-> "gone", listeners |-> {}]  \* at an address without a bind
NoTls == [peer |-> NoPeer, name |-> "no tls"]

ASSUME ConnAssumption ==
  /\ EntryBind \in BindAt /\ MaxConfigs \in Nat
  /\ RawSocket \notin Stream /\ NoTls.name \notin ServerNames

TlsVersions == {12, 13}
HelloLength == 2                     \* pieces of a ClientHello
MaxPieces == 3                       \* a ClientHello and what follows it

VARIABLES
  tunnel,    \* how EntryBind unwraps connections
  caReady,   \* whether there is a client of the certificate authority
  tables,    \* the binds in the store
  frontend,  \* the TLS versions the frontend policies ask for
  changes,   \* changes of the configuration so far
  caches,    \* the TLS configs built for a listener: <<listener, versions, how often>>
  sock       \* the sockets

connVars == <<tunnel, caReady, tables, frontend, changes, caches, sock>>

Unopened ==
  [phase |-> "idle", bind |-> EntryBind, protocol |-> "gone", asks |-> NoOverride,
   seen |-> {}, listener |-> {}, versions |-> {}, name |-> "", tls |-> NoTls,
   target |-> "", layers |-> <<>>, sent |-> 0, wire |-> <<>>, kept |-> <<>>,
   held |-> <<>>, out |-> <<>>, counted |-> 0, exported |-> 0]

Waiting == {"header", "identity", "outerTls", "hello", "innerTls"}
Proxied == {"http", "relay"}
ConnPhases == Waiting \cup Proxied \cup
  {"idle", "tunnelled", "enter", "tcp", "selected", "config", "closed"}

ConnTypeOK ==
  /\ tunnel \in {"Direct", "Proxy", "HboneWaypoint", "HboneGateway"}
  /\ caReady \in BOOLEAN /\ tables \in BindTables
  /\ frontend \in Overrides \cup {NoOverride} /\ changes \in 0..MaxConfigs
  /\ \A s \in Sock :
       /\ sock[s].phase \in ConnPhases
       /\ sock[s].tls \in [peer : Peer \cup {NoPeer}, name : ServerNames \cup {"none", "no tls"}]
       /\ sock[s].target \in BindAt \cup {"", "nowhere"}
       /\ sock[s].counted \in 0..2 * MaxPieces

ConnInit ==
  /\ tunnel \in {"Direct", "Proxy", "HboneWaypoint", "HboneGateway"}
  /\ caReady \in BOOLEAN
  /\ tables \in BindTables /\ tables[EntryBind] # Gone
  /\ frontend \in Overrides \cup {NoOverride}
  /\ changes = 0 /\ caches = {}
  /\ sock = [s \in Sock |-> Unopened]

Becomes(s, u) == sock' = [sock EXCEPT ![s] = u]

ConfigStays == UNCHANGED <<tunnel, caReady, tables, frontend, changes, caches>>

(* The connection ends. Its bytes are exported when it was proxied and the    *)
(* socket is logged, which only the accepted one is.                          *)
Closed(s) ==
  [sock[s] EXCEPT !.phase = "closed",
     !.exported = IF sock[s].phase \in Proxied /\ s = RawSocket THEN sock[s].counted ELSE 0]
Drop(s) == Becomes(s, Closed(s))

-----------------------------------------------------------------------------
(* What a socket carries                                                      *)

(* A stream of a tunnel wraps what its tunnel carries: its own comes first.   *)
TlsOf(s) ==
  IF sock[s].tls # NoTls THEN sock[s].tls
  ELSE IF s \in Stream THEN sock[RawSocket].tls ELSE NoTls

TargetOf(s) == IF sock[s].target # "" THEN sock[s].target ELSE EntryBind

(* Reading what the client sent: a socket that rewinds keeps a copy while it  *)
(* is filling, and gives the copy first once it is draining.                  *)
Filling(s, n) ==
  LET took == SubSeq(sock[s].wire, 1, n) IN
    [sock[s] EXCEPT !.wire = SubSeq(sock[s].wire, n + 1, Len(sock[s].wire)),
                    !.kept = sock[s].kept \o took, !.held = sock[s].held \o took]
Draining(s, n) ==
  IF sock[s].kept # <<>>
  THEN [sock[s] EXCEPT !.kept = SubSeq(sock[s].kept, n + 1, Len(sock[s].kept)),
                       !.out = sock[s].out \o SubSeq(sock[s].kept, 1, n)]
  ELSE [sock[s] EXCEPT !.wire = SubSeq(sock[s].wire, n + 1, Len(sock[s].wire)),
                       !.out = sock[s].out \o SubSeq(sock[s].wire, 1, n)]
Readable(s) == IF sock[s].kept # <<>> THEN Len(sock[s].kept) ELSE Len(sock[s].wire)

-----------------------------------------------------------------------------
(* Tunnels                                                                    *)

(* handle_tunnel: without a certificate authority HBONE ends at once.         *)
AcceptSocket ==
  /\ sock[RawSocket].phase = "idle"
  /\ Becomes(RawSocket, [sock[RawSocket] EXCEPT !.phase =
       CASE tunnel = "Direct" -> "enter"
         [] tunnel = "Proxy" -> "header"
         [] OTHER -> IF caReady THEN "identity" ELSE "closed"])
  /\ ConfigStays

(* The PROXY header is read to its last byte and no further. It replaces the  *)
(* addresses of the socket, and states an identity when it has one to state.  *)
ReadHeader(p) ==
  /\ sock[RawSocket].phase = "header"
  /\ LET u == [sock[RawSocket] EXCEPT !.phase = "enter", !.target = EntryBind,
                                       !.counted = 1]
     IN  Becomes(RawSocket,
           IF p = NoPeer THEN u
           ELSE [u EXCEPT !.tls = [peer |-> p, name |-> "none"],
                          !.layers = <<[kind |-> "header", peer |-> p]>>])
  /\ ConfigStays

CaAnswers ==
  /\ sock[RawSocket].phase = "identity"
  /\ \/ Becomes(RawSocket, [sock[RawSocket] EXCEPT !.phase = "outerTls"])
     \/ Drop(RawSocket)
  /\ ConfigStays

(* Without a certificate that the roots vouch for in the trust domain of this *)
(* workload the handshake of the tunnel fails (TrustDomainVerifier).          *)
OuterHandshake(p) ==
  /\ sock[RawSocket].phase = "outerTls"
  /\ Becomes(RawSocket, [sock[RawSocket] EXCEPT !.phase = "tunnelled",
       !.tls = [peer |-> p, name |-> "none"],
       !.layers = <<[kind |-> "hbone", peer |-> p]>>])
  /\ ConfigStays

(* A CONNECT of the tunnel. A waypoint serves it as HTTP of the bind that     *)
(* accepted the tunnel; a gateway looks for the bind that has the address.    *)
(* An authority that is no address takes the handler down.                    *)
OpenStream(s, a) ==
  /\ sock[RawSocket].phase = "tunnelled" /\ sock[s].phase = "idle"
  /\ \/ /\ tunnel = "HboneWaypoint"
        /\ Becomes(s, [sock[s] EXCEPT !.phase = "http", !.target = a])
     \/ /\ tunnel = "HboneGateway"
        /\ IF a \in BindAt /\ tables[a] # Gone
           THEN Becomes(s, [sock[s] EXCEPT !.phase = "enter", !.bind = a, !.target = a,
                                           !.protocol = tables[a].protocol])
           ELSE Drop(s)
  /\ ConfigStays
OpenNonsense(s) ==
  /\ sock[RawSocket].phase = "tunnelled" /\ sock[s].phase = "idle"
  /\ Drop(s) /\ ConfigStays

(* The tunnel ends, and every stream in it.                                   *)
TunnelEnds ==
  /\ sock[RawSocket].phase = "tunnelled"
  /\ sock' = [s \in Sock |-> Closed(s)]
  /\ ConfigStays

-----------------------------------------------------------------------------
(* The protocol of the bind                                                   *)

(* proxy_bind reads the frontend policies once, for all of the connection.    *)
ProtocolOf(s) ==
  IF s = RawSocket THEN tables[EntryBind].protocol ELSE sock[s].protocol

EnterHttp(s) ==
  Becomes(s, [sock[s] EXCEPT !.phase = "http", !.asks = frontend])
EnterTcp(s) ==
  LET b == tables[sock[s].bind] IN
  IF b = Gone \/ Cardinality(b.listeners) # 1 THEN Drop(s)
  ELSE Becomes(s, [sock[s] EXCEPT !.phase = "tcp", !.asks = frontend,
                                  !.listener = b.listeners])
(* The listeners are those of the moment the handshake begins.                *)
EnterTls(s) ==
  IF tables[sock[s].bind] = Gone THEN Drop(s)
  ELSE Becomes(s, [sock[s] EXCEPT !.phase = "hello", !.asks = frontend,
                                  !.seen = tables[sock[s].bind].listeners])

(* The protocol of the accepting bind is that of the start of its task, while *)
(* the store may have moved on; here the table keeps it.                      *)
EnterBind(s) ==
  /\ sock[s].phase = "enter"
  /\ IF ProtocolOf(s) = "http" THEN EnterHttp(s)
     ELSE IF ProtocolOf(s) = "tcp" THEN EnterTcp(s) ELSE EnterTls(s)
  /\ ConfigStays

-----------------------------------------------------------------------------
(* maybe_terminate_tls                                                        *)

(* A piece of what the client sends arrives: of the ClientHello, of what      *)
(* follows when the TLS is not for this proxy, of a plain request.            *)
Arrives(s) ==
  /\ sock[s].phase \in {"hello", "http", "relay"}
  /\ sock[s].sent < MaxPieces
  /\ Becomes(s, [sock[s] EXCEPT !.sent = sock[s].sent + 1,
                                !.wire = Append(sock[s].wire, sock[s].sent + 1)])
  /\ ConfigStays

(* The acceptor reads as much as there is, the end of the hello or beyond it. *)
ReadHello(s, n) ==
  /\ sock[s].phase = "hello" /\ Len(sock[s].held) < HelloLength
  /\ n \in 1..Len(sock[s].wire)
  /\ Becomes(s, Filling(s, n))
  /\ ConfigStays

HelloComplete(s, name) ==
  /\ sock[s].phase = "hello" /\ Len(sock[s].held) >= HelloLength
  /\ Becomes(s, [sock[s] EXCEPT !.phase = "selected", !.name = name])
  /\ ConfigStays

(* ListenerSet::best_match: the name itself, then the longest wildcard, then  *)
(* a listener without a name.                                                 *)
BestMatch(listeners, name) ==
  LET named(host) == {l \in listeners : l.host = host} IN
  IF named(name) # {} THEN named(name)
  ELSE IF named("*") # {} THEN named("*") ELSE named("")

(* ServerTLSConfig::config_for: an override replaces all the listener had.    *)
Versions(l, asks) == IF asks = NoOverride THEN l.versions ELSE asks

Terminates(l) == l.protocol = "HTTPS" \/ (l.protocol = "TLS" /\ l.cert # "none")

(* The acceptor has what it read, the copy is given up.                       *)
Discarded(s) == [sock[s] EXCEPT !.kept = <<>>]

PassThrough(s, l) ==
  IF l.protocol = "TLS"
  THEN Becomes(s, [sock[s] EXCEPT !.phase = "tcp", !.listener = {l}, !.held = <<>>,
         !.tls = [peer |-> NoPeer, name |-> sock[s].name],
         !.layers = Append(sock[s].layers, [kind |-> "passed", peer |-> NoPeer])])
  ELSE Drop(s)

(* Without overrides the base config serves, else one of the profile that is  *)
(* found under the read lock, or is to be built.                              *)
Found(l, asks) == asks = NoOverride \/ \E c \in caches : c[1] = l /\ c[2] = asks

SelectListener(s) ==
  /\ sock[s].phase = "selected"
  /\ \/ /\ BestMatch(sock[s].seen, sock[s].name) = {}
        /\ Drop(s)
     \/ \E l \in BestMatch(sock[s].seen, sock[s].name) :
          IF ~Terminates(l) THEN PassThrough(s, l)
          ELSE IF l.cert = "invalid" THEN Drop(s)
          ELSE Becomes(s, [Discarded(s) EXCEPT !.listener = {l},
                 !.versions = Versions(l, sock[s].asks),
                 !.phase = IF Found(l, sock[s].asks) THEN "innerTls" ELSE "config"])
  /\ ConfigStays

(* Under the write lock the profile is looked for again before it is built.   *)
Build(s) ==
  \E l \in sock[s].listener :
    caches' = IF Found(l, sock[s].asks) THEN caches
              ELSE caches \cup {<<l, sock[s].asks,
                                Cardinality({c \in caches : c[1] = l /\ c[2] = sock[s].asks})>>}
BuildConfig(s) ==
  /\ sock[s].phase = "config"
  /\ Build(s) /\ Becomes(s, [sock[s] EXCEPT !.phase = "innerTls"])
  /\ UNCHANGED <<tunnel, caReady, tables, frontend, changes>>
(* Another connection to the listener, which found nothing either, is faster. *)
BuildElsewhere(s) ==
  /\ sock[s].phase = "config"
  /\ Build(s) /\ UNCHANGED <<tunnel, caReady, tables, frontend, changes, sock>>

(* from_tls: what the handshake showed replaces what the socket had. A client *)
(* shows a certificate only to a listener that has roots to verify it.        *)
TlsShown(s, p) ==
  LET l == CHOOSE l \in sock[s].listener : TRUE
      peer == IF l.auth THEN p ELSE NoPeer
      name == IF sock[s].name = "" THEN "none" ELSE sock[s].name
  IN  [sock[s] EXCEPT !.tls = [peer |-> peer, name |-> name],
         !.layers = Append(sock[s].layers, [kind |-> "tls", peer |-> peer])]

InnerHandshake(s, p, v) ==
  /\ sock[s].phase = "innerTls" /\ v \in sock[s].versions
  /\ \E l \in sock[s].listener :
       /\ l.auth => p # NoPeer
       /\ Becomes(s, [TlsShown(s, p) EXCEPT !.held = <<>>, !.wire = <<>>, !.sent = 0,
                        !.phase = IF l.protocol = "HTTPS" THEN "http" ELSE "tcp"])
  /\ ConfigStays

(* What is sent makes no sense, the client is not trusted, no version fits;   *)
(* or the timeout of the handshake or of the header passes. Only waiting for  *)
(* the certificate authority has no timeout.                                  *)
Fails(s) ==
  /\ sock[s].phase \in Waiting \ {"identity"}
  /\ Drop(s) /\ ConfigStays

-----------------------------------------------------------------------------
(* TCPProxy and what is proxied                                               *)

(* select_best_route: the most specific host of the name that has a route.    *)
TcpRoutes(l, name) ==
  IF name \in l.routes THEN {name}
  ELSE IF name \notin {"none", "no tls", ""} /\ "*" \in l.routes THEN {"*"}
  ELSE l.routes \cap {""}

RouteTcp(s) ==
  /\ sock[s].phase = "tcp"
  /\ LET l == CHOOSE l \in sock[s].listener : TRUE IN
       \/ TcpRoutes(l, TlsOf(s).name) # {} /\ Becomes(s, [sock[s] EXCEPT !.phase = "relay"])
       \/ Drop(s)                    \* no route, no backend, no connection to it
  /\ ConfigStays

(* A read of what is proxied, counted as it goes through the socket.          *)
Deliver(s, n) ==
  /\ sock[s].phase \in Proxied
  /\ n \in 1..Readable(s)
  /\ Becomes(s, [Draining(s, n) EXCEPT !.counted = sock[s].counted + n])
  /\ ConfigStays

ProxiedEnds(s) == sock[s].phase \in Proxied /\ Drop(s) /\ ConfigStays

(* The store and the policies change under the connections.                   *)
Reconfigure ==
  /\ changes < MaxConfigs
  /\ changes' = changes + 1
  /\ \/ /\ tables' \in BindTables \ {tables} /\ UNCHANGED frontend
        /\ tables'[EntryBind] # Gone =>
             tables'[EntryBind].protocol = tables[EntryBind].protocol
     \/ frontend' \in (Overrides \cup {NoOverride}) \ {frontend} /\ UNCHANGED tables
  /\ UNCHANGED <<tunnel, caReady, caches, sock>>

StreamNext(s) ==
  \/ \E a \in BindAt \cup {"nowhere"} : OpenStream(s, a)
  \/ OpenNonsense(s)
SockNext(s) ==
  \/ EnterBind(s) \/ Arrives(s) \/ SelectListener(s) \/ BuildConfig(s)
  \/ BuildElsewhere(s)
  \/ \E n \in 1..MaxPieces : ReadHello(s, n) \/ Deliver(s, n)
  \/ \E name \in ServerNames : HelloComplete(s, name)
  \/ \E p \in Peer \cup {NoPeer}, v \in TlsVersions : InnerHandshake(s, p, v)
  \/ Fails(s) \/ RouteTcp(s) \/ ProxiedEnds(s)

ConnNext ==
  \/ AcceptSocket \/ CaAnswers \/ TunnelEnds \/ Reconfigure
  \/ \E p \in Peer \cup {NoPeer} : ReadHeader(p)
  \/ \E p \in Peer : OuterHandshake(p)
  \/ \E s \in Stream : StreamNext(s)
  \/ \E s \in Sock : SockNext(s)

(* The runtime runs every task, timers fire, and the certificate client       *)
(* answers whoever waits for an identity (Certificates).                      *)
ConnFairness ==
  /\ WF_connVars(AcceptSocket) /\ WF_connVars(CaAnswers)
  /\ \A s \in Sock :
       /\ WF_connVars(EnterBind(s)) /\ WF_connVars(SelectListener(s))
       /\ WF_connVars(BuildConfig(s)) /\ WF_connVars(RouteTcp(s))
       /\ WF_connVars(Fails(s))

ConnSpec == ConnInit /\ [][ConnNext]_connVars /\ ConnFairness

-----------------------------------------------------------------------------
(* Properties                                                                 *)

(* A stream inherits what its tunnel proved, until a layer of its own speaks. *)
AllLayers(s) ==
  (IF s \in Stream THEN sock[RawSocket].layers ELSE <<>>) \o sock[s].layers

(* The identity that requests and policies see is the one shown to the        *)
(* innermost layer that terminated or announced TLS: an identity of the       *)
(* tunnel never speaks for the client of a TLS inside it.                     *)
IdentityOfInnermost ==
  \A s \in Sock : sock[s].phase \in Proxied \cup {"tcp"} =>
    TlsOf(s).peer = IF AllLayers(s) = <<>> THEN NoPeer
                    ELSE AllLayers(s)[Len(AllLayers(s))].peer

(* Whatever the sizes of the reads, every piece a client sent is delivered or *)
(* still to be delivered, once and in order: a ClientHello that was looked at *)
(* reaches the backend of a passed-through connection whole.                  *)
NothingLost ==
  \A s \in Sock : sock[s].phase \notin {"tunnelled", "closed"} =>
    LET seen == IF sock[s].phase \in {"hello", "selected", "config", "innerTls"}
                THEN sock[s].held ELSE sock[s].out \o sock[s].kept
    IN  seen \o sock[s].wire = [i \in 1..sock[s].sent |-> i]

(* What is served as HTTP after TLS, or relayed, belongs to a listener of the *)
(* bind as it was when the handshake began, whose certificates are valid and  *)
(* whose name no better match contradicts; the TLS versions are those the     *)
(* policies of the connection ask for.                                        *)
ServedByListener ==
  \A s \in Sock : sock[s].phase \in Proxied /\ sock[s].seen # {} =>
    \E l \in sock[s].listener :
      /\ l \in sock[s].seen /\ l.cert # "invalid"
      /\ sock[s].phase = "http" <=> l.protocol = "HTTPS"
      /\ l.host \in {sock[s].name, "*", ""}
      /\ \A o \in sock[s].seen : o.host = sock[s].name => l.host = sock[s].name
      /\ Terminates(l) => /\ sock[s].versions = Versions(l, sock[s].asks)
                          /\ l.auth => sock[s].tls.peer # NoPeer

(* However many connections ask at once, one config is built for a profile.   *)
BuiltOnce ==
  \A c, d \in caches : c[1] = d[1] /\ c[2] = d[2] => c = d

(* The bytes of a proxied connection are exported when it ends, those of the  *)
(* PROXY header and of every read included.                                   *)
BytesExported ==
  sock[RawSocket].phase = "closed" /\ sock[RawSocket].out # <<>> =>
    sock[RawSocket].exported =
      Len(sock[RawSocket].out) + IF tunnel = "Proxy" THEN 1 ELSE 0

ConnectionsConsistent ==
  /\ ConnTypeOK /\ IdentityOfInnermost /\ NothingLost
  /\ ServedByListener /\ BuiltOnce /\ BytesExported

(* Whatever a client does or leaves undone, its handshake ends.               *)
HandshakesEnd ==
  \A s \in Sock : sock[s].phase \in Waiting ~> sock[s].phase \notin Waiting
=============================================================================
