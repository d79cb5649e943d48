------------------------- MODULE Connections_proofs ------------------------
(***************************************************************************)
(* Proofs about the life of a connection: the shutdown of a bind for any   *)
(* set of connections, the sockets of clients for any configuration, the   *)
(* calls to backends for any calls and peers, and the copy between the     *)
(* two for any number of bytes.                                            *)
(***************************************************************************)
EXTENDS MCConnections, Integers, SequenceTheorems, TLAPS

(* The variables hold values of their types, and a blocker belongs to a    *)
(* connection that was accepted.                                           *)
THEOREM TypeCorrect == Spec => []TypeOK
<1>1. Init => TypeOK
  BY DEF Init, TypeOK
<1>2. TypeOK /\ [Next]_vars => TypeOK'
  <2> SUFFICES ASSUME TypeOK, [Next]_vars PROVE TypeOK'
    OBVIOUS
  <2> USE DEF TypeOK
  <2>1. ASSUME NEW mode \in {"Graceful", "Immediate"}, SignalDrain(mode)
        PROVE TypeOK'
    BY <2>1 DEF SignalDrain
  <2>2. CASE SeeDrain
    BY <2>2 DEF SeeDrain
  <2>3. CASE MinDelayElapsed
    BY <2>3 DEF MinDelayElapsed
  <2>4. CASE AllReleased
    BY <2>4 DEF AllReleased
  <2>5. CASE DeadlineExpired
    BY <2>5 DEF DeadlineExpired
  <2>6. CASE GoLame
    BY <2>6 DEF GoLame
  <2>7. CASE AcceptLoopReturns
    BY <2>7 DEF AcceptLoopReturns
  <2>8. ASSUME NEW c \in Conn, Accept(c) PROVE TypeOK'
    BY <2>8 DEF Accept
  <2>9. ASSUME NEW c \in Conn, Close(c) PROVE TypeOK'
    BY <2>9 DEF Close
  <2>10. ASSUME NEW c \in Conn, ForceShutdown(c) PROVE TypeOK'
    BY <2>10 DEF ForceShutdown
  <2>11. CASE UNCHANGED vars
    BY <2>11 DEF vars
  <2> QED
    BY <2>1, <2>2, <2>3, <2>4, <2>5, <2>6, <2>7, <2>8, <2>9, <2>10, <2>11
    DEF Next
<1> QED
  BY <1>1, <1>2, PTL DEF Spec

-----------------------------------------------------------------------------
(* The bind's own drain starts only after the minimum delay of a graceful  *)
(* drain, and everything that ends the bind comes after that.              *)
DrainOrder ==
  /\ sub => minPassed /\ watch = "waiting"
  /\ accept = "lame" => sub
  /\ watch = "waiting" => sub
  /\ watch \in {"delay", "waiting"} => outer = "Graceful"
  /\ ended \in {"drained", "deadline"} => watch = "waiting"
  /\ ended = "accept" => accept = "lame"
  /\ ended = "immediate" => outer = "Immediate"
  /\ outer = "none" => ended = "no" /\ watch = "idle"

(* A graceful drain leaves the bind serving for the minimum time.          *)
THEOREM MinimumIsHonoured == Spec => []MinimumHonoured
<1>1. Init => DrainOrder
  BY DEF Init, DrainOrder
<1>2. TypeOK /\ DrainOrder /\ [Next]_vars => DrainOrder'
  <2> SUFFICES ASSUME TypeOK, DrainOrder, [Next]_vars PROVE DrainOrder'
    OBVIOUS
  <2> USE DEF TypeOK, DrainOrder
  <2>1. ASSUME NEW mode \in {"Graceful", "Immediate"}, SignalDrain(mode)
        PROVE DrainOrder'
    BY <2>1 DEF SignalDrain
  <2>2. CASE SeeDrain
    BY <2>2 DEF SeeDrain
  <2>3. CASE MinDelayElapsed
    BY <2>3 DEF MinDelayElapsed
  <2>4. CASE AllReleased
    BY <2>4 DEF AllReleased
  <2>5. CASE DeadlineExpired
    BY <2>5 DEF DeadlineExpired
  <2>6. CASE GoLame
    BY <2>6 DEF GoLame
  <2>7. CASE AcceptLoopReturns
    BY <2>7 DEF AcceptLoopReturns
  <2>8. ASSUME NEW c \in Conn, Accept(c) \/ Close(c) \/ ForceShutdown(c)
        PROVE DrainOrder'
    BY <2>8 DEF Accept, Close, ForceShutdown
  <2>9. CASE UNCHANGED vars
    BY <2>9 DEF vars
  <2> QED
    BY <2>1, <2>2, <2>3, <2>4, <2>5, <2>6, <2>7, <2>8, <2>9 DEF Next
<1>3. TypeOK /\ DrainOrder => MinimumHonoured
  BY DEF TypeOK, DrainOrder, MinimumHonoured
<1> QED
  BY <1>1, <1>2, <1>3, TypeCorrect, PTL DEF Spec

(* Nothing is accepted once the bind has ended, so a drain that completed  *)
(* by itself stays complete.                                               *)
THEOREM DrainedIsReleased == Spec => []DrainedMeansReleased
<1>1. Init => DrainedMeansReleased
  BY DEF Init, DrainedMeansReleased
<1>2. TypeOK /\ DrainedMeansReleased /\ [Next]_vars => DrainedMeansReleased'
  <2> SUFFICES ASSUME TypeOK, DrainedMeansReleased, [Next]_vars
               PROVE DrainedMeansReleased'
    OBVIOUS
  <2> USE DEF TypeOK, DrainedMeansReleased
  <2>1. ASSUME NEW mode \in {"Graceful", "Immediate"}, SignalDrain(mode)
        PROVE DrainedMeansReleased'
    BY <2>1 DEF SignalDrain
  <2>2. CASE SeeDrain \/ MinDelayElapsed \/ DeadlineExpired
             \/ GoLame \/ AcceptLoopReturns
    BY <2>2 DEF SeeDrain, MinDelayElapsed, DeadlineExpired, GoLame, AcceptLoopReturns
  <2>3. CASE AllReleased
    BY <2>3 DEF AllReleased, Released
  <2>4. ASSUME NEW c \in Conn, Accept(c) PROVE DrainedMeansReleased'
    BY <2>4 DEF Accept
  <2>5. ASSUME NEW c \in Conn, Close(c) \/ ForceShutdown(c)
        PROVE DrainedMeansReleased'
    BY <2>5 DEF Close, ForceShutdown
  <2>6. CASE UNCHANGED vars
    BY <2>6 DEF vars
  <2> QED
    BY <2>1, <2>2, <2>3, <2>4, <2>5, <2>6 DEF Next
<1> QED
  BY <1>1, <1>2, TypeCorrect, PTL DEF Spec

(* In every reachable state the minimum time has been honoured, and a drain *)
(* that completed left no blocking connection.                             *)
THEOREM DrainStaysHonoured == Spec => []DrainHonoured
  BY TypeCorrect, MinimumIsHonoured, DrainedIsReleased, PTL DEF DrainHonoured

-----------------------------------------------------------------------------
(* Sequences of numbered bytes.                                            *)

(* The bytes of s are those that follow the first k. *)
Numbered(s, k) == \A i \in 1..Len(s) : s[i] = k + i

LEMMA NumberedEmpty ==
  ASSUME NEW k \in Nat
  PROVE  <<>> \in Seq(Nat) /\ Len(<<>>) = 0 /\ Numbered(<<>>, k)
BY DEF Numbered

LEMMA NumberedConcat ==
  ASSUME NEW s \in Seq(Nat), NEW u \in Seq(Nat), NEW k \in Nat,
         Numbered(s, k), Numbered(u, k + Len(s))
  PROVE  /\ s \o u \in Seq(Nat) /\ Len(s \o u) = Len(s) + Len(u)
         /\ Numbered(s \o u, k)
<1> DEFINE c == s \o u
<1>1. /\ c \in Seq(Nat) /\ Len(c) = Len(s) + Len(u) /\ Len(s) \in Nat /\ Len(u) \in Nat
      /\ \A i \in 1..Len(s) : c[i] = s[i]
      /\ \A i \in 1..Len(c) : i > Len(s) => i - Len(s) \in 1..Len(u) /\ c[i] = u[i - Len(s)]
  OBVIOUS
<1> HIDE DEF c
<1>2. ASSUME NEW i \in 1..Len(c)  PROVE c[i] = k + i
  <2>1. CASE i <= Len(s)
    BY <1>1, <2>1 DEF Numbered
  <2>2. CASE i > Len(s)
    <3>1. u[i - Len(s)] = k + Len(s) + (i - Len(s))
      BY <1>1, <2>2 DEF Numbered
    <3> QED BY <1>1, <2>2, <3>1
  <2> QED BY <1>1, <2>1, <2>2
<1>3. Numbered(c, k)
  BY <1>2 DEF Numbered
<1> QED BY <1>1, <1>3 DEF c

LEMMA NumberedSplit ==
  ASSUME NEW s \in Seq(Nat), NEW k \in Nat, NEW n \in 1..Len(s), Numbered(s, k)
  PROVE  /\ SubSeq(s, 1, n) \in Seq(Nat) /\ Len(SubSeq(s, 1, n)) = n
         /\ Numbered(SubSeq(s, 1, n), k)
         /\ SubSeq(s, n + 1, Len(s)) \in Seq(Nat)
         /\ Len(SubSeq(s, n + 1, Len(s))) = Len(s) - n
         /\ Numbered(SubSeq(s, n + 1, Len(s)), k + n)
<1> DEFINE a == SubSeq(s, 1, n)
           b == SubSeq(s, n + 1, Len(s))
<1>0. Len(s) \in Nat /\ n \in Nat /\ n <= Len(s) /\ \A i \in 1..Len(s) : s[i] \in Nat
  OBVIOUS
<1>5. a \in Seq(Nat) /\ Len(a) = n /\ \A i \in 1..n : a[i] = s[i]
  <2>1. \A i \in 1..n : s[i] \in Nat
    BY <1>0
  <2> QED BY <1>0, <2>1, SubSeqProperties
<1>6. b \in Seq(Nat) /\ Len(b) = Len(s) - n /\ \A i \in 1..(Len(s) - n) : b[i] = s[n + i]
  <2>1. \A i \in (n + 1)..Len(s) : s[i] \in Nat
    BY <1>0
  <2>2. /\ b \in Seq(Nat)
        /\ Len(b) = IF n + 1 <= Len(s) THEN Len(s) - (n + 1) + 1 ELSE 0
        /\ \A i \in 1..(Len(s) - (n + 1) + 1) : b[i] = s[(n + 1) + i - 1]
    BY <1>0, <2>1, SubSeqProperties
  <2> HIDE DEF b
  <2>3. \A i \in 1..(Len(s) - n) : (n + 1) + i - 1 = n + i
    BY <1>0
  <2> QED BY <1>0, <2>2, <2>3
<1>1. /\ Len(s) \in Nat /\ n \in Nat
      /\ a \in Seq(Nat) /\ Len(a) = n /\ \A i \in 1..n : a[i] = s[i]
      /\ b \in Seq(Nat) /\ Len(b) = Len(s) - n /\ \A i \in 1..(Len(s) - n) : b[i] = s[n + i]
  BY <1>0, <1>5, <1>6
<1> HIDE DEF a, b
<1>2. Numbered(a, k)
  BY SMTT(60), <1>1 DEF Numbered
<1>3. ASSUME NEW i \in 1..Len(b)  PROVE b[i] = (k + n) + i
  <2>1. n + i \in 1..Len(s) /\ b[i] = s[n + i]
    BY SMTT(60), <1>1
  <2>2. s[n + i] = k + (n + i)
    BY <2>1 DEF Numbered
  <2> QED BY <1>1, <2>1, <2>2
<1>4. Numbered(b, k + n)
  BY <1>3 DEF Numbered
<1> QED BY <1>1, <1>2, <1>4 DEF a, b

LEMMA NumberedFrom ==
  ASSUME NEW k \in Nat, NEW n \in Nat
  PROVE  /\ [i \in 1..n |-> k + i] \in Seq(Nat) /\ Len([i \in 1..n |-> k + i]) = n
         /\ Numbered([i \in 1..n |-> k + i], k)
BY DEF Numbered

LEMMA NumberedIs ==
  ASSUME NEW s \in Seq(Nat), Numbered(s, 0)
  PROVE  s = [i \in 1..Len(s) |-> i]
<1>1. /\ Len(s) \in Nat /\ DOMAIN s = 1..Len(s) /\ s = [i \in DOMAIN s |-> s[i]]
  OBVIOUS
<1>2. \A i \in 1..Len(s) : s[i] = i
  BY DEF Numbered
<1> QED BY <1>1, <1>2

-----------------------------------------------------------------------------
(* The connections of clients (Connections).                               *)

IsSocket(x) ==
  x = [phase |-> x.phase, bind |-> x.bind, protocol |-> x.protocol, asks |-> x.asks,
       seen |-> x.seen, listener |-> x.listener, versions |-> x.versions, name |-> x.name,
       tls |-> x.tls, target |-> x.target, layers |-> x.layers, sent |-> x.sent,
       wire |-> x.wire, kept |-> x.kept, held |-> x.held, out |-> x.out,
       counted |-> x.counted, exported |-> x.exported]

Layers == [kind : {"header", "hbone", "passed", "tls"}, peer : Peer \cup {NoPeer}]
Shown == [peer : Peer \cup {NoPeer}, name : ServerNames \cup {"none", "no tls"}]
Before == {"idle", "header", "identity", "outerTls", "tunnelled", "enter"}
Chosen == {"config", "innerTls"}
Served == Proxied \cup {"tcp"}

SocketTyped(x) ==
  /\ x.phase \in ConnPhases /\ x.tls \in Shown
  /\ x.target \in BindAt \cup {"", "nowhere"}
  /\ x.phase \in Chosen \cup {"selected"} => x.name \in ServerNames

(* What a socket knows of its client was shown to the last of its layers. *)
LayersFit(x) ==
  /\ x.layers \in Seq(Layers)
  /\ IF x.layers = <<>> THEN x.tls = NoTls
     ELSE x.tls # NoTls /\ x.tls.peer = x.layers[Len(x.layers)].peer

(* The pieces are delivered, kept or on the wire, in this order; while TLS *)
(* is terminated the acceptor holds those that were read.                  *)
PiecesFit(a, b, c, n) ==
  /\ Numbered(a, 0) /\ Numbered(b, Len(a)) /\ Numbered(c, Len(a) + Len(b))
  /\ Len(a) + Len(b) + Len(c) = n

BytesFit(x) ==
  /\ x.sent \in 0..MaxPieces
  /\ x.wire \in Seq(Nat) /\ x.kept \in Seq(Nat) /\ x.held \in Seq(Nat) /\ x.out \in Seq(Nat)
  /\ x.phase \notin Proxied \cup {"closed"} => x.out = <<>>
  /\ x.phase \in Before => x.kept = <<>> /\ x.held = <<>>
  /\ x.phase \in {"hello", "selected"} => x.kept = x.held
  /\ x.phase \in Chosen => x.kept = <<>> /\ PiecesFit(x.out, x.held, x.wire, x.sent)
  /\ x.phase \notin Chosen \cup {"closed"} => PiecesFit(x.out, x.kept, x.wire, x.sent)

(* One listener was chosen, the best match among those of the handshake.   *)
ListenerFits(x) ==
  /\ x.phase \in Before => x.seen = {}
  /\ x.phase \in Chosen =>
       \E l \in x.listener :
         /\ x.listener = {l} /\ l \in BestMatch(x.seen, x.name) /\ Terminates(l)
         /\ l.cert # "invalid" /\ x.versions = Versions(l, x.asks)
  /\ x.phase \in Served /\ x.seen # {} =>
       \E l \in x.listener :
         /\ x.listener = {l} /\ l \in BestMatch(x.seen, x.name) /\ l.cert # "invalid"
         /\ x.phase = "http" <=> l.protocol = "HTTPS"
         /\ Terminates(l) => /\ x.versions = Versions(l, x.asks)
                             /\ l.auth => x.tls.peer # NoPeer

(* The header of a PROXY tunnel is a piece that is counted, not delivered. *)
HeaderOf(s, t) == IF s = RawSocket /\ t = "Proxy" THEN 1 ELSE 0

CountFits(s, x, t) ==
  /\ x.counted \in 0..2 * MaxPieces
  /\ x.phase = "header" => t = "Proxy"
  /\ x.phase \in {"idle", "header"} => x.counted = 0
  /\ x.phase \notin {"idle", "header", "closed"} => x.counted = Len(x.out) + HeaderOf(s, t)
  /\ x.phase = "closed" /\ x.out # <<>> /\ s = RawSocket =>
       x.exported = Len(x.out) + HeaderOf(s, t)

SocketFits(s, x, t) ==
  /\ IsSocket(x) /\ SocketTyped(x) /\ LayersFit(x) /\ BytesFit(x) /\ ListenerFits(x)
  /\ CountFits(s, x, t)

ConfigTyped ==
  /\ tunnel \in {"Direct", "Proxy", "HboneWaypoint", "HboneGateway"}
  /\ caReady \in BOOLEAN /\ tables \in BindTables
  /\ frontend \in Overrides \cup {NoOverride} /\ changes \in 0..MaxConfigs

ConnInvariant ==
  /\ ConfigTyped /\ BuiltOnce
  /\ sock = [s \in Sock |-> sock[s]]
  /\ \A s \in Sock : SocketFits(s, sock[s], tunnel)


-----------------------------------------------------------------------------
(* Pieces that arrive, are looked at and are delivered.                    *)

LEMMA NoPieces == <<>> \in Seq(Nat) /\ Len(<<>>) = 0 /\ PiecesFit(<<>>, <<>>, <<>>, 0)
BY DEF PiecesFit, Numbered

LEMMA PieceArrived ==
  ASSUME NEW a \in Seq(Nat), NEW b \in Seq(Nat), NEW c \in Seq(Nat), NEW n \in Nat,
         PiecesFit(a, b, c, n)
  PROVE  Append(c, n + 1) \in Seq(Nat) /\ PiecesFit(a, b, Append(c, n + 1), n + 1)
<1> DEFINE d == Append(c, n + 1)
<1>1. /\ Len(a) \in Nat /\ Len(b) \in Nat /\ Len(c) \in Nat
      /\ d \in Seq(Nat) /\ Len(d) = Len(c) + 1 /\ d[Len(c) + 1] = n + 1
      /\ \A i \in 1..Len(c) : d[i] = c[i]
  OBVIOUS
<1> HIDE DEF d
<1>2. n = Len(a) + Len(b) + Len(c)
  BY DEF PiecesFit
<1>3. ASSUME NEW i \in 1..Len(d)  PROVE d[i] = (Len(a) + Len(b)) + i
  <2>1. CASE i \in 1..Len(c)
    BY <1>1, <2>1 DEF PiecesFit, Numbered
  <2>2. CASE i = Len(c) + 1
    BY <1>1, <1>2, <2>2
  <2> QED BY <1>1, <2>1, <2>2
<1>4. PiecesFit(a, b, d, n + 1)
  BY <1>1, <1>2, <1>3 DEF PiecesFit, Numbered
<1> QED BY <1>1, <1>4 DEF d

LEMMA PiecesLookedAt ==
  ASSUME NEW a \in Seq(Nat), NEW b \in Seq(Nat), NEW c \in Seq(Nat), NEW n \in Nat,
         PiecesFit(a, b, c, n), NEW k \in 1..Len(c)
  PROVE  LET took == SubSeq(c, 1, k)
             rest == SubSeq(c, k + 1, Len(c))
         IN  b \o took \in Seq(Nat) /\ rest \in Seq(Nat) /\ PiecesFit(a, b \o took, rest, n)
<1> DEFINE took == SubSeq(c, 1, k)
           rest == SubSeq(c, k + 1, Len(c))
           more == b \o took
<1>1. Len(a) \in Nat /\ Len(b) \in Nat /\ Len(c) \in Nat /\ k \in Nat /\ k <= Len(c)
  OBVIOUS
<1>2. /\ took \in Seq(Nat) /\ Len(took) = k /\ Numbered(took, Len(a) + Len(b))
      /\ rest \in Seq(Nat) /\ Len(rest) = Len(c) - k
      /\ Numbered(rest, (Len(a) + Len(b)) + k)
  BY <1>1, NumberedSplit DEF PiecesFit
<1> HIDE DEF took, rest
<1>3. more \in Seq(Nat) /\ Len(more) = Len(b) + k /\ Numbered(more, Len(a))
  BY <1>1, <1>2, NumberedConcat DEF PiecesFit
<1> HIDE DEF more
<1>4. (Len(a) + Len(b)) + k = Len(a) + Len(more)
      /\ Len(a) + Len(more) + Len(rest) = Len(a) + Len(b) + Len(c)
  BY <1>1, <1>2, <1>3
<1>5. PiecesFit(a, more, rest, n)
  BY <1>2, <1>3, <1>4 DEF PiecesFit
<1> QED BY <1>2, <1>3, <1>5 DEF more, took, rest

LEMMA PiecesGiven ==
  ASSUME NEW a \in Seq(Nat), NEW b \in Seq(Nat), NEW c \in Seq(Nat), NEW n \in Nat,
         PiecesFit(a, b, c, n), NEW k \in 1..Len(b)
  PROVE  LET took == SubSeq(b, 1, k)
             rest == SubSeq(b, k + 1, Len(b))
         IN  /\ a \o took \in Seq(Nat) /\ Len(a \o took) = Len(a) + k /\ rest \in Seq(Nat)
             /\ PiecesFit(a \o took, rest, c, n)
<1> DEFINE took == SubSeq(b, 1, k)
           rest == SubSeq(b, k + 1, Len(b))
           more == a \o took
<1>1. Len(a) \in Nat /\ Len(b) \in Nat /\ Len(c) \in Nat /\ k \in Nat /\ k <= Len(b)
  OBVIOUS
<1>2. /\ took \in Seq(Nat) /\ Len(took) = k /\ Numbered(took, Len(a))
      /\ rest \in Seq(Nat) /\ Len(rest) = Len(b) - k /\ Numbered(rest, Len(a) + k)
  BY <1>1, NumberedSplit DEF PiecesFit
<1> HIDE DEF took, rest
<1>6. Numbered(a, 0) /\ Numbered(took, 0 + Len(a))
  BY <1>1, <1>2 DEF PiecesFit
<1>3. more \in Seq(Nat) /\ Len(more) = Len(a) + k /\ Numbered(more, 0)
  BY <1>1, <1>2, <1>6, NumberedConcat
<1> HIDE DEF more
<1>4. Len(more) + Len(rest) = Len(a) + Len(b)
  BY <1>1, <1>2, <1>3
<1>5. PiecesFit(more, rest, c, n)
  BY <1>2, <1>3, <1>4 DEF PiecesFit
<1> QED BY <1>2, <1>3, <1>5 DEF more, took, rest

LEMMA PiecesMoved ==
  ASSUME NEW a \in Seq(Nat), NEW c \in Seq(Nat), NEW n
  PROVE  PiecesFit(a, <<>>, c, n) <=> PiecesFit(a, c, <<>>, n)
<1>1. Len(<<>>) = 0 /\ Len(a) \in Nat /\ Len(c) \in Nat
  OBVIOUS
<1>2. \A k : Numbered(<<>>, k)
  BY <1>1 DEF Numbered
<1> QED BY <1>1, <1>2 DEF PiecesFit

LEMMA PiecesWhole ==
  ASSUME NEW a \in Seq(Nat), NEW b \in Seq(Nat), NEW c \in Seq(Nat), NEW n \in Nat,
         PiecesFit(a, b, c, n)
  PROVE  (a \o b) \o c = [i \in 1..n |-> i]
<1> DEFINE ab == a \o b
           w == ab \o c
<1>1. Numbered(a, 0) /\ Numbered(b, 0 + Len(a)) /\ Len(a) \in Nat /\ Len(b) \in Nat
  BY DEF PiecesFit
<1>2. ab \in Seq(Nat) /\ Len(ab) = Len(a) + Len(b) /\ Numbered(ab, 0)
  BY <1>1, NumberedConcat
<1> HIDE DEF ab
<1>3. Numbered(c, 0 + Len(ab))
  BY <1>1, <1>2 DEF PiecesFit
<1>4. w \in Seq(Nat) /\ Len(w) = Len(ab) + Len(c) /\ Numbered(w, 0)
  BY <1>2, <1>3, NumberedConcat
<1> HIDE DEF w
<1>5. Len(w) = n
  BY <1>2, <1>4 DEF PiecesFit
<1>6. w = [i \in 1..n |-> i]
  BY <1>4, <1>5, NumberedIs
<1> QED BY <1>6 DEF w, ab

(* What most steps leave alone. *)
SameLayers(u, v) == u.layers = v.layers /\ u.tls = v.tls
SamePieces(u, v) ==
  u.sent = v.sent /\ u.wire = v.wire /\ u.kept = v.kept /\ u.held = v.held /\ u.out = v.out
SameChoice(u, v) ==
  /\ u.seen = v.seen /\ u.listener = v.listener /\ u.versions = v.versions
  /\ u.name = v.name /\ u.asks = v.asks
SameCount(u, v) == u.counted = v.counted /\ u.exported = v.exported

LEMMA SocketAdvances ==
  ASSUME ConnInvariant, NEW s \in Sock, NEW u, SocketFits(s, u, tunnel), Becomes(s, u),
         ConfigStays
  PROVE  ConnInvariant'
<1>1. /\ sock' = [sock EXCEPT ![s] = u] /\ tunnel' = tunnel /\ caReady' = caReady
      /\ tables' = tables /\ frontend' = frontend /\ changes' = changes /\ caches' = caches
  BY DEF Becomes, ConfigStays
<1>2. ConfigTyped' /\ BuiltOnce'
  BY <1>1 DEF ConnInvariant, ConfigTyped, BuiltOnce
<1>3. \A r \in Sock : SocketFits(r, sock'[r], tunnel)
  BY <1>1 DEF ConnInvariant
<1>4. \A r \in Sock : SocketFits(r, sock[r], tunnel)'
  BY <1>1, <1>3
<1> QED BY <1>1, <1>2, <1>4 DEF ConnInvariant

LEMMA ClosedFits ==
  ASSUME ConnInvariant, NEW s \in Sock, s = RawSocket => sock[s].phase # "closed"
  PROVE  SocketFits(s, Closed(s), tunnel)
<1> DEFINE v == sock[s]
           e == IF v.phase \in Proxied /\ s = RawSocket THEN v.counted ELSE 0
           u == [v EXCEPT !.phase = "closed", !.exported = e]
<1>1. SocketFits(s, v, tunnel) /\ Closed(s) = u
  BY DEF ConnInvariant, Closed
<1>2. v.phase \in Proxied /\ s = RawSocket => e = v.counted
  OBVIOUS
<1> HIDE DEF v, e
<1>3. u = [v EXCEPT !.phase = "closed", !.exported = e]
  OBVIOUS
<1> HIDE DEF u
<1>4. /\ IsSocket(u) /\ u.phase = "closed" /\ u.exported = e /\ u.counted = v.counted
      /\ SameLayers(u, v) /\ SamePieces(u, v) /\ u.target = v.target /\ IsSocket(v)
  BY <1>1, <1>3 DEF IsSocket, SocketFits, SameLayers, SamePieces
<1>5. SocketTyped(u) /\ LayersFit(u)
  BY <1>1, <1>4 DEF SocketFits, SocketTyped, LayersFit, SameLayers, ConnPhases, Chosen
<1>6. BytesFit(u)
  BY <1>1, <1>4 DEF SocketFits, BytesFit, SamePieces, Before, Chosen
<1>7. ListenerFits(u)
  BY <1>4 DEF ListenerFits, Before, Chosen, Served, Proxied
<1>8. CountFits(s, u, tunnel)
  <2>1. CASE v.phase \in Proxied
    BY <1>1, <1>2, <1>4, <2>1 DEF SocketFits, CountFits, SamePieces, Proxied
  <2>2. CASE v.phase = "closed"
    <3>1. s # RawSocket
      BY <2>2 DEF v
    <3> QED BY <1>1, <1>4, <3>1 DEF SocketFits, CountFits
  <2>3. CASE v.phase \notin Proxied \cup {"closed"}
    BY <1>1, <1>4, <2>3 DEF SocketFits, CountFits, BytesFit, SamePieces
  <2> QED BY <2>1, <2>2, <2>3
<1> QED BY <1>1, <1>4, <1>5, <1>6, <1>7, <1>8 DEF SocketFits

LEMMA Dropped ==
  ASSUME ConnInvariant, NEW s \in Sock, sock[s].phase # "closed", Drop(s), ConfigStays
  PROVE  ConnInvariant'
BY ClosedFits, SocketAdvances DEF Drop

(* A layer that is added is the last one. *)
LEMMA LayerAdded ==
  ASSUME NEW w \in Seq(Layers), NEW e \in Layers
  PROVE  /\ Append(w, e) \in Seq(Layers) /\ Append(w, e) # <<>>
         /\ Append(w, e)[Len(Append(w, e))] = e
BY AppendProperties

LEMMA FirstLayer ==
  ASSUME NEW e \in Layers
  PROVE  /\ <<e>> \in Seq(Layers) /\ <<e>> # <<>> /\ <<e>>[Len(<<e>>)] = e
OBVIOUS

(* One step of a socket from its phase to the next, with nothing but what  *)
(* the steps before the handshake change.                                  *)
LEMMA SocketAccepted ==
  ASSUME ConnInvariant, AcceptSocket
  PROVE  ConnInvariant'
<1> DEFINE s == RawSocket
           v == sock[s]
           p == CASE tunnel = "Direct" -> "enter"
                  [] tunnel = "Proxy" -> "header"
                  [] OTHER -> IF caReady THEN "identity" ELSE "closed"
           u == [v EXCEPT !.phase = p]
<1>1. SocketFits(s, v, tunnel) /\ v.phase = "idle" /\ s \in Sock
  BY DEF ConnInvariant, AcceptSocket, Sock
<1>2. p \in {"enter", "header", "identity", "closed"} /\ (p = "header" <=> tunnel = "Proxy")
  OBVIOUS
<1>3. Becomes(s, u) /\ ConfigStays
  BY DEF AcceptSocket
<1> HIDE DEF v, p
<1>4. u = [v EXCEPT !.phase = p]
  OBVIOUS
<1> HIDE DEF u
<1>5. /\ IsSocket(u) /\ u.phase = p /\ SameLayers(u, v) /\ SamePieces(u, v)
      /\ SameChoice(u, v) /\ SameCount(u, v) /\ u.target = v.target
  BY <1>1, <1>4 DEF SocketFits, IsSocket, SameLayers, SamePieces, SameChoice, SameCount
<1>6. SocketTyped(u) /\ LayersFit(u)
  BY <1>1, <1>2, <1>5
  DEF SocketFits, SocketTyped, LayersFit, SameLayers, ConnPhases, Chosen, Waiting
<1>7. BytesFit(u)
  BY <1>1, <1>2, <1>5 DEF SocketFits, BytesFit, SamePieces, Before, Chosen, Proxied
<1>8. ListenerFits(u)
  BY <1>1, <1>2, <1>5 DEF SocketFits, ListenerFits, SameChoice, Before, Chosen, Served, Proxied
<1>9. CountFits(s, u, tunnel)
  <2>1. u.out = <<>> /\ Len(u.out) = 0 /\ u.counted = 0
    BY <1>1, <1>5 DEF SocketFits, CountFits, BytesFit, SamePieces, SameCount, Proxied
  <2> QED BY <1>1, <1>2, <1>5, <2>1 DEF CountFits, HeaderOf, MaxPieces
<1> QED BY <1>1, <1>3, <1>5, <1>6, <1>7, <1>8, <1>9, SocketAdvances DEF SocketFits

LEMMA HeaderRead ==
  ASSUME ConnInvariant, NEW p \in Peer \cup {NoPeer}, ReadHeader(p)
  PROVE  ConnInvariant'
<1> DEFINE s == RawSocket
           v == sock[s]
           tls == [peer |-> p, name |-> "none"]
           layer == [kind |-> "header", peer |-> p]
           u == [v EXCEPT !.phase = "enter", !.target = EntryBind, !.counted = 1]
           w == [u EXCEPT !.tls = tls, !.layers = <<layer>>]
<1>1. SocketFits(s, v, tunnel) /\ v.phase = "header" /\ s \in Sock /\ tunnel = "Proxy"
  BY DEF ConnInvariant, ReadHeader, Sock, SocketFits, CountFits
<1>2. (Becomes(s, u) \/ Becomes(s, w)) /\ ConfigStays
  BY DEF ReadHeader
<1>3. layer \in Layers /\ tls \in Shown /\ tls # NoTls /\ tls.peer = layer.peer
  BY DEF Layers, Shown, NoTls
<1> HIDE DEF v, tls, layer
<1>4. u = [v EXCEPT !.phase = "enter", !.target = EntryBind, !.counted = 1]
  OBVIOUS
<1> HIDE DEF u
<1>5. /\ IsSocket(u) /\ u.phase = "enter" /\ SameLayers(u, v) /\ SamePieces(u, v)
      /\ SameChoice(u, v) /\ u.counted = 1 /\ u.target = EntryBind
  BY <1>1, <1>4 DEF SocketFits, IsSocket, SameLayers, SamePieces, SameChoice
<1>6. SocketTyped(u) /\ LayersFit(u)
  BY <1>1, <1>5, ConnAssumption
  DEF SocketFits, SocketTyped, LayersFit, SameLayers, ConnPhases, Chosen
<1>7. BytesFit(u)
  BY <1>1, <1>5 DEF SocketFits, BytesFit, SamePieces, Before, Chosen, Proxied
<1>8. ListenerFits(u)
  BY <1>1, <1>5 DEF SocketFits, ListenerFits, SameChoice, Before, Chosen, Served, Proxied
<1>9. CountFits(s, u, tunnel)
  <2>1. u.out = <<>> /\ Len(u.out) = 0
    BY <1>1, <1>5 DEF SocketFits, BytesFit, SamePieces, Proxied
  <2> QED BY <1>1, <1>5, <2>1 DEF CountFits, HeaderOf, MaxPieces
<1>10. w = [u EXCEPT !.tls = tls, !.layers = <<layer>>]
  OBVIOUS
<1> HIDE DEF w
<1>11. /\ IsSocket(w) /\ w.phase = "enter" /\ w.tls = tls /\ w.layers = <<layer>>
       /\ SamePieces(w, u) /\ SameChoice(w, u) /\ SameCount(w, u) /\ w.target = u.target
  BY <1>5, <1>10 DEF IsSocket, SamePieces, SameChoice, SameCount
<1>12. SocketTyped(w) /\ LayersFit(w)
  BY <1>3, <1>5, <1>6, <1>11, FirstLayer DEF SocketTyped, LayersFit, ConnPhases, Chosen
<1>13. BytesFit(w) /\ ListenerFits(w)
  BY <1>5, <1>7, <1>8, <1>11
  DEF BytesFit, ListenerFits, SamePieces, SameChoice, Before, Chosen, Served, Proxied
<1>14. CountFits(s, w, tunnel)
  BY <1>5, <1>9, <1>11 DEF CountFits, SamePieces, SameCount
<1> QED BY <1>1, <1>2, <1>5, <1>6, <1>7, <1>8, <1>9, <1>11, <1>12, <1>13, <1>14, SocketAdvances
        DEF SocketFits

LEMMA IdentityFetched ==
  ASSUME ConnInvariant, CaAnswers
  PROVE  ConnInvariant'
<1> DEFINE s == RawSocket
           v == sock[s]
           u == [v EXCEPT !.phase = "outerTls"]
<1>1. SocketFits(s, v, tunnel) /\ v.phase = "identity" /\ s \in Sock
  BY DEF ConnInvariant, CaAnswers, Sock
<1>2. (Becomes(s, u) \/ Drop(s)) /\ ConfigStays
  BY DEF CaAnswers
<1>3. CASE Drop(s)
  BY <1>1, <1>2, <1>3, Dropped
<1>4. CASE Becomes(s, u)
  <2> HIDE DEF v
  <2>1. u = [v EXCEPT !.phase = "outerTls"]
    OBVIOUS
  <2> HIDE DEF u
  <2>2. /\ IsSocket(u) /\ u.phase = "outerTls" /\ SameLayers(u, v) /\ SamePieces(u, v)
        /\ SameChoice(u, v) /\ SameCount(u, v) /\ u.target = v.target
    BY <1>1, <2>1 DEF SocketFits, IsSocket, SameLayers, SamePieces, SameChoice, SameCount
  <2>3. SocketTyped(u) /\ LayersFit(u)
    BY <1>1, <2>2
    DEF SocketFits, SocketTyped, LayersFit, SameLayers, ConnPhases, Chosen, Waiting
  <2>4. BytesFit(u)
    BY <1>1, <2>2 DEF SocketFits, BytesFit, SamePieces, Before, Chosen, Proxied
  <2>5. ListenerFits(u) /\ CountFits(s, u, tunnel)
    BY <1>1, <2>2 DEF SocketFits, ListenerFits, CountFits, SamePieces, SameChoice, SameCount,
                      Before, Chosen, Served, Proxied
  <2> QED BY <1>1, <1>2, <1>4, <2>2, <2>3, <2>4, <2>5, SocketAdvances DEF SocketFits
<1> QED BY <1>2, <1>3, <1>4

LEMMA TunnelOpened ==
  ASSUME ConnInvariant, NEW p \in Peer, OuterHandshake(p)
  PROVE  ConnInvariant'
<1> DEFINE s == RawSocket
           v == sock[s]
           tls == [peer |-> p, name |-> "none"]
           layer == [kind |-> "hbone", peer |-> p]
           u == [v EXCEPT !.phase = "tunnelled", !.tls = tls, !.layers = <<layer>>]
<1>1. /\ SocketFits(s, v, tunnel) /\ v.phase = "outerTls" /\ s \in Sock
      /\ Becomes(s, u) /\ ConfigStays
  BY DEF ConnInvariant, OuterHandshake, Sock
<1>2. layer \in Layers /\ tls \in Shown /\ tls # NoTls /\ tls.peer = layer.peer
  BY DEF Layers, Shown, NoTls
<1> HIDE DEF v, tls, layer
<1>3. u = [v EXCEPT !.phase = "tunnelled", !.tls = tls, !.layers = <<layer>>]
  OBVIOUS
<1> HIDE DEF u
<1>4. /\ IsSocket(u) /\ u.phase = "tunnelled" /\ u.tls = tls /\ u.layers = <<layer>>
      /\ SamePieces(u, v) /\ SameChoice(u, v) /\ SameCount(u, v) /\ u.target = v.target
  BY <1>1, <1>3 DEF SocketFits, IsSocket, SamePieces, SameChoice, SameCount
<1>5. SocketTyped(u) /\ LayersFit(u)
  BY <1>1, <1>2, <1>4, FirstLayer DEF SocketFits, SocketTyped, LayersFit, ConnPhases, Chosen
<1>6. BytesFit(u)
  BY <1>1, <1>4 DEF SocketFits, BytesFit, SamePieces, Before, Chosen, Proxied
<1>7. ListenerFits(u) /\ CountFits(s, u, tunnel)
  BY <1>1, <1>4 DEF SocketFits, ListenerFits, CountFits, SamePieces, SameChoice, SameCount,
                    Before, Chosen, Served, Proxied
<1> QED BY <1>1, <1>4, <1>5, <1>6, <1>7, SocketAdvances DEF SocketFits

LEMMA StreamOpened ==
  ASSUME ConnInvariant, NEW s \in Stream, StreamNext(s)
  PROVE  ConnInvariant'
<1> DEFINE v == sock[s]
           served(a) == [v EXCEPT !.phase = "http", !.target = a]
           entered(a) == [v EXCEPT !.phase = "enter", !.bind = a, !.target = a,
                                   !.protocol = tables[a].protocol]
<1>1. SocketFits(s, v, tunnel) /\ v.phase = "idle" /\ s \in Sock /\ s # RawSocket
      /\ ConfigStays
  BY ConnAssumption DEF ConnInvariant, StreamNext, OpenStream, OpenNonsense, Sock
<1>2. \/ Drop(s)
      \/ \E a \in BindAt \cup {"nowhere"} : Becomes(s, served(a)) \/ Becomes(s, entered(a))
  BY DEF StreamNext, OpenStream, OpenNonsense
<1>3. v.out = <<>> /\ Len(v.out) = 0 /\ v.counted = 0 /\ v.seen = {}
  BY <1>1 DEF SocketFits, CountFits, BytesFit, ListenerFits, Before, Proxied
<1>4. CASE Drop(s)
  BY <1>1, <1>4, Dropped
<1> HIDE DEF v
<1>5. ASSUME NEW a \in BindAt \cup {"nowhere"}, NEW u, IsSocket(u),
             u.phase \in {"http", "enter"}, u.target = a,
             SameLayers(u, v), SamePieces(u, v), SameChoice(u, v), SameCount(u, v)
      PROVE  SocketFits(s, u, tunnel)
  <2>1. SocketTyped(u) /\ LayersFit(u)
    BY <1>1, <1>5 DEF SocketFits, SocketTyped, LayersFit, SameLayers, ConnPhases, Chosen, Proxied
  <2>2. BytesFit(u)
    BY <1>1, <1>5 DEF SocketFits, BytesFit, SamePieces, Before, Chosen, Proxied
  <2>3. ListenerFits(u)
    BY <1>3, <1>5 DEF ListenerFits, SameChoice, Before, Chosen, Served, Proxied
  <2>4. CountFits(s, u, tunnel)
    BY <1>1, <1>3, <1>5 DEF CountFits, HeaderOf, SamePieces, SameCount, MaxPieces
  <2> QED BY <1>5, <2>1, <2>2, <2>3, <2>4 DEF SocketFits
<1>6. ASSUME NEW a \in BindAt \cup {"nowhere"}  PROVE SocketFits(s, served(a), tunnel)
  <2> DEFINE u == served(a)
  <2>1. u = [v EXCEPT !.phase = "http", !.target = a]
    OBVIOUS
  <2> HIDE DEF u
  <2>2. /\ IsSocket(u) /\ u.phase = "http" /\ u.target = a /\ SameLayers(u, v)
        /\ SamePieces(u, v) /\ SameChoice(u, v) /\ SameCount(u, v)
    BY <1>1, <2>1 DEF SocketFits, IsSocket, SameLayers, SamePieces, SameChoice, SameCount
  <2>3. SocketFits(s, u, tunnel)
    BY <1>5, <2>2
  <2> QED BY <2>3 DEF u
<1>7. ASSUME NEW a \in BindAt \cup {"nowhere"}  PROVE SocketFits(s, entered(a), tunnel)
  <2> DEFINE u == entered(a)
  <2>1. u = [v EXCEPT !.phase = "enter", !.bind = a, !.target = a,
                      !.protocol = tables[a].protocol]
    OBVIOUS
  <2> HIDE DEF u
  <2>2. /\ IsSocket(u) /\ u.phase = "enter" /\ u.target = a /\ SameLayers(u, v)
        /\ SamePieces(u, v) /\ SameChoice(u, v) /\ SameCount(u, v)
    BY <1>1, <2>1 DEF SocketFits, IsSocket, SameLayers, SamePieces, SameChoice, SameCount
  <2>3. SocketFits(s, u, tunnel)
    BY <1>5, <2>2
  <2> QED BY <2>3 DEF u
<1> HIDE DEF served, entered
<1> QED BY <1>1, <1>2, <1>4, <1>6, <1>7, SocketAdvances

LEMMA TunnelEnded ==
  ASSUME ConnInvariant, TunnelEnds
  PROVE  ConnInvariant'
<1>1. /\ sock' = [s \in Sock |-> Closed(s)] /\ sock[RawSocket].phase = "tunnelled"
      /\ tunnel' = tunnel /\ caReady' = caReady /\ tables' = tables
      /\ frontend' = frontend /\ changes' = changes /\ caches' = caches
  BY DEF TunnelEnds, ConfigStays
<1>2. \A s \in Sock : SocketFits(s, sock'[s], tunnel)
  BY <1>1, ClosedFits
<1>3. ConfigTyped' /\ BuiltOnce'
  BY <1>1 DEF ConnInvariant, ConfigTyped, BuiltOnce
<1>4. sock' = [s \in Sock |-> sock'[s]]
  BY <1>1
<1> QED BY <1>1, <1>2, <1>3, <1>4 DEF ConnInvariant

LEMMA BindEntered ==
  ASSUME ConnInvariant, NEW s \in Sock, EnterBind(s)
  PROVE  ConnInvariant'
<1> DEFINE v == sock[s]
           bound == tables[v.bind].listeners
           http == [v EXCEPT !.phase = "http", !.asks = frontend]
           tcp == [v EXCEPT !.phase = "tcp", !.asks = frontend, !.listener = bound]
           hello == [v EXCEPT !.phase = "hello", !.asks = frontend, !.seen = bound]
<1>1. SocketFits(s, v, tunnel) /\ v.phase = "enter" /\ ConfigStays
  BY DEF ConnInvariant, EnterBind
<1>2. Drop(s) \/ Becomes(s, http) \/ Becomes(s, tcp) \/ Becomes(s, hello)
  BY DEF EnterBind, EnterHttp, EnterTcp, EnterTls
<1>3. CASE Drop(s)
  BY <1>1, <1>3, Dropped
<1>4. v.seen = {} /\ v.kept = v.held /\ v.out = <<>>
  BY <1>1 DEF SocketFits, BytesFit, ListenerFits, Before, Proxied
<1> HIDE DEF v, bound
<1>5. ASSUME NEW u, IsSocket(u), u.phase \in {"http", "tcp", "hello"}, u.target = v.target,
             u.phase # "hello" => u.seen = v.seen,
             SameLayers(u, v), SamePieces(u, v), SameCount(u, v)
      PROVE  SocketFits(s, u, tunnel)
  <2>1. SocketTyped(u) /\ LayersFit(u)
    BY <1>1, <1>5
    DEF SocketFits, SocketTyped, LayersFit, SameLayers, ConnPhases, Chosen, Proxied, Waiting
  <2>2. BytesFit(u)
    BY <1>1, <1>4, <1>5 DEF SocketFits, BytesFit, SamePieces, Before, Chosen, Proxied
  <2>3. ListenerFits(u)
    BY <1>4, <1>5 DEF ListenerFits, Before, Chosen, Served, Proxied
  <2>4. CountFits(s, u, tunnel)
    BY <1>1, <1>5 DEF SocketFits, CountFits, SamePieces, SameCount
  <2> QED BY <1>5, <2>1, <2>2, <2>3, <2>4 DEF SocketFits
<1>6. SocketFits(s, http, tunnel)
  <2> DEFINE u == http
  <2>1. u = [v EXCEPT !.phase = "http", !.asks = frontend]
    OBVIOUS
  <2> HIDE DEF u
  <2>2. /\ IsSocket(u) /\ u.phase = "http" /\ u.target = v.target /\ u.seen = v.seen
        /\ SameLayers(u, v) /\ SamePieces(u, v) /\ SameCount(u, v)
    BY <1>1, <2>1 DEF SocketFits, IsSocket, SameLayers, SamePieces, SameCount
  <2>3. SocketFits(s, u, tunnel)
    BY <1>5, <2>2
  <2> QED BY <2>3 DEF u
<1>7. SocketFits(s, tcp, tunnel)
  <2> DEFINE u == tcp
  <2>1. u = [v EXCEPT !.phase = "tcp", !.asks = frontend, !.listener = bound]
    OBVIOUS
  <2> HIDE DEF u
  <2>2. /\ IsSocket(u) /\ u.phase = "tcp" /\ u.target = v.target /\ u.seen = v.seen
        /\ SameLayers(u, v) /\ SamePieces(u, v) /\ SameCount(u, v)
    BY <1>1, <2>1 DEF SocketFits, IsSocket, SameLayers, SamePieces, SameCount
  <2>3. SocketFits(s, u, tunnel)
    BY <1>5, <2>2
  <2> QED BY <2>3 DEF u
<1>8. SocketFits(s, hello, tunnel)
  <2> DEFINE u == hello
  <2>1. u = [v EXCEPT !.phase = "hello", !.asks = frontend, !.seen = bound]
    OBVIOUS
  <2> HIDE DEF u
  <2>2. /\ IsSocket(u) /\ u.phase = "hello" /\ u.target = v.target
        /\ SameLayers(u, v) /\ SamePieces(u, v) /\ SameCount(u, v)
    BY <1>1, <2>1 DEF SocketFits, IsSocket, SameLayers, SamePieces, SameCount
  <2>3. SocketFits(s, u, tunnel)
    BY <1>5, <2>2
  <2> QED BY <2>3 DEF u
<1> HIDE DEF http, tcp, hello
<1> QED BY <1>1, <1>2, <1>3, <1>6, <1>7, <1>8, SocketAdvances

LEMMA PieceArrives ==
  ASSUME ConnInvariant, NEW s \in Sock, Arrives(s)
  PROVE  ConnInvariant'
<1> DEFINE v == sock[s]
           n == v.sent + 1
           wire == Append(v.wire, n)
           u == [v EXCEPT !.sent = n, !.wire = wire]
<1>1. /\ SocketFits(s, v, tunnel) /\ v.phase \in {"hello", "http", "relay"}
      /\ v.sent < MaxPieces /\ Becomes(s, u) /\ ConfigStays
  BY DEF ConnInvariant, Arrives
<1> HIDE DEF v
<1>2. /\ v.sent \in Nat /\ v.out \in Seq(Nat) /\ v.kept \in Seq(Nat) /\ v.wire \in Seq(Nat)
      /\ PiecesFit(v.out, v.kept, v.wire, v.sent)
  BY SMTT(60), <1>1 DEF SocketFits, BytesFit, Chosen
<1>3. wire \in Seq(Nat) /\ PiecesFit(v.out, v.kept, wire, n)
  BY <1>2, PieceArrived
<1>4. n \in 0..MaxPieces
  BY <1>1, <1>2 DEF MaxPieces
<1> HIDE DEF n, wire
<1>5. u = [v EXCEPT !.sent = n, !.wire = wire]
  OBVIOUS
<1> HIDE DEF u
<1>6. /\ IsSocket(u) /\ u.phase = v.phase /\ SameLayers(u, v) /\ SameChoice(u, v)
      /\ SameCount(u, v) /\ u.target = v.target /\ u.sent = n /\ u.wire = wire
      /\ u.kept = v.kept /\ u.held = v.held /\ u.out = v.out
  BY <1>1, <1>5 DEF SocketFits, IsSocket, SameLayers, SameChoice, SameCount
<1>7. SocketTyped(u) /\ LayersFit(u)
  BY <1>1, <1>6 DEF SocketFits, SocketTyped, LayersFit, SameLayers, Chosen
<1>8. BytesFit(u)
  BY <1>1, <1>3, <1>4, <1>6 DEF SocketFits, BytesFit, Before, Chosen, Proxied
<1>9. ListenerFits(u) /\ CountFits(s, u, tunnel)
  BY <1>1, <1>6
  DEF SocketFits, ListenerFits, CountFits, SameChoice, SameCount, SameLayers, Before, Chosen
<1> QED BY <1>1, <1>6, <1>7, <1>8, <1>9, SocketAdvances DEF SocketFits

LEMMA HelloRead ==
  ASSUME ConnInvariant, NEW s \in Sock, NEW n, ReadHello(s, n)
  PROVE  ConnInvariant'
<1> DEFINE v == sock[s]
           rest == SubSeq(v.wire, n + 1, Len(v.wire))
           kept == v.kept \o SubSeq(v.wire, 1, n)
           held == v.held \o SubSeq(v.wire, 1, n)
           u == [v EXCEPT !.wire = rest, !.kept = kept, !.held = held]
<1>1. /\ SocketFits(s, v, tunnel) /\ v.phase = "hello" /\ n \in 1..Len(v.wire)
      /\ Becomes(s, u) /\ ConfigStays
  BY DEF ConnInvariant, ReadHello, Filling
<1> HIDE DEF v
<1>2. /\ v.sent \in Nat /\ v.out \in Seq(Nat) /\ v.kept \in Seq(Nat) /\ v.wire \in Seq(Nat)
      /\ PiecesFit(v.out, v.kept, v.wire, v.sent) /\ v.held = v.kept
  BY <1>1 DEF SocketFits, BytesFit, Chosen, MaxPieces
<1>3. /\ kept \in Seq(Nat) /\ rest \in Seq(Nat) /\ PiecesFit(v.out, kept, rest, v.sent)
      /\ held = kept
  BY <1>1, <1>2, PiecesLookedAt
<1> HIDE DEF rest, kept, held
<1>5. u = [v EXCEPT !.wire = rest, !.kept = kept, !.held = held]
  OBVIOUS
<1> HIDE DEF u
<1>6. /\ IsSocket(u) /\ u.phase = v.phase /\ SameLayers(u, v) /\ SameChoice(u, v)
      /\ SameCount(u, v) /\ u.target = v.target /\ u.sent = v.sent /\ u.wire = rest
      /\ u.kept = kept /\ u.held = held /\ u.out = v.out
  BY <1>1, <1>5 DEF SocketFits, IsSocket, SameLayers, SameChoice, SameCount
<1>7. SocketTyped(u) /\ LayersFit(u)
  BY <1>1, <1>6 DEF SocketFits, SocketTyped, LayersFit, SameLayers, Chosen
<1>8. BytesFit(u)
  BY <1>1, <1>3, <1>6 DEF SocketFits, BytesFit, Before, Chosen, Proxied
<1>9. ListenerFits(u) /\ CountFits(s, u, tunnel)
  BY <1>1, <1>6
  DEF SocketFits, ListenerFits, CountFits, SameChoice, SameCount, Before, Chosen, Served, Proxied
<1> QED BY <1>1, <1>6, <1>7, <1>8, <1>9, SocketAdvances DEF SocketFits

LEMMA HelloTaken ==
  ASSUME ConnInvariant, NEW s \in Sock, NEW name \in ServerNames, HelloComplete(s, name)
  PROVE  ConnInvariant'
<1> DEFINE v == sock[s]
           u == [v EXCEPT !.phase = "selected", !.name = name]
<1>1. /\ SocketFits(s, v, tunnel) /\ v.phase = "hello" /\ Becomes(s, u) /\ ConfigStays
  BY DEF ConnInvariant, HelloComplete
<1> HIDE DEF v
<1>2. u = [v EXCEPT !.phase = "selected", !.name = name]
  OBVIOUS
<1> HIDE DEF u
<1>3. /\ IsSocket(u) /\ u.phase = "selected" /\ u.name = name /\ u.target = v.target
      /\ SameLayers(u, v) /\ SamePieces(u, v) /\ SameCount(u, v)
  BY <1>1, <1>2 DEF SocketFits, IsSocket, SameLayers, SamePieces, SameCount
<1>4. SocketTyped(u) /\ LayersFit(u)
  BY <1>1, <1>3 DEF SocketFits, SocketTyped, LayersFit, SameLayers, ConnPhases, Chosen
<1>5. BytesFit(u)
  BY <1>1, <1>3 DEF SocketFits, BytesFit, SamePieces, Before, Chosen, Proxied
<1>6. ListenerFits(u) /\ CountFits(s, u, tunnel)
  BY <1>1, <1>3
  DEF SocketFits, ListenerFits, CountFits, SamePieces, SameCount, Before, Chosen, Served, Proxied
<1> QED BY <1>1, <1>3, <1>4, <1>5, <1>6, SocketAdvances DEF SocketFits

LEMMA ListenerSelected ==
  ASSUME ConnInvariant, NEW s \in Sock, SelectListener(s)
  PROVE  ConnInvariant'
<1> DEFINE v == sock[s]
           tls == [peer |-> NoPeer, name |-> v.name]
           layer == [kind |-> "passed", peer |-> NoPeer]
           passed(l) == [v EXCEPT !.phase = "tcp", !.listener = {l}, !.held = <<>>,
                                  !.tls = tls, !.layers = Append(v.layers, layer)]
           d == [v EXCEPT !.kept = <<>>]
           p(l) == IF Found(l, v.asks) THEN "innerTls" ELSE "config"
           chosen(l) == [d EXCEPT !.listener = {l}, !.versions = Versions(l, v.asks),
                                  !.phase = p(l)]
<1>1. SocketFits(s, v, tunnel) /\ v.phase = "selected" /\ ConfigStays
  BY DEF ConnInvariant, SelectListener
<1>2. \/ Drop(s)
      \/ \E l \in BestMatch(v.seen, v.name) :
           \/ ~Terminates(l) /\ l.protocol = "TLS" /\ Becomes(s, passed(l))
           \/ Terminates(l) /\ l.cert # "invalid" /\ Becomes(s, chosen(l))
  BY DEF SelectListener, PassThrough, Discarded
<1>3. CASE Drop(s)
  BY <1>1, <1>3, Dropped
<1>4. \A l : p(l) \in Chosen
  BY DEF Chosen
<1>5. layer \in Layers /\ tls \in Shown /\ tls # NoTls /\ tls.peer = layer.peer
  <2>1. v.name \in ServerNames
    BY <1>1 DEF SocketFits, SocketTyped
  <2> HIDE DEF v
  <2> QED BY <2>1, ConnAssumption DEF Layers, Shown, NoTls
<1> HIDE DEF v, tls, layer, p
<1>6. ASSUME NEW l \in BestMatch(v.seen, v.name), ~Terminates(l), l.protocol = "TLS"
      PROVE  SocketFits(s, passed(l), tunnel)
  <2> DEFINE u == passed(l)
             layers == Append(v.layers, layer)
  <2>1. u = [v EXCEPT !.phase = "tcp", !.listener = {l}, !.held = <<>>, !.tls = tls,
                      !.layers = layers]
    OBVIOUS
  <2>2. /\ layers \in Seq(Layers) /\ layers # <<>> /\ layers[Len(layers)] = layer
    BY <1>1, <1>5, LayerAdded DEF SocketFits, LayersFit
  <2> HIDE DEF u, layers
  <2>3. /\ IsSocket(u) /\ u.phase = "tcp" /\ u.listener = {l} /\ u.held = <<>>
        /\ u.tls = tls /\ u.layers = layers /\ u.target = v.target /\ SameCount(u, v)
        /\ u.sent = v.sent /\ u.wire = v.wire /\ u.kept = v.kept /\ u.out = v.out
        /\ u.seen = v.seen /\ u.name = v.name
    BY <1>1, <2>1 DEF SocketFits, IsSocket, SameCount
  <2>4. SocketTyped(u) /\ LayersFit(u)
    BY <1>1, <1>5, <2>2, <2>3 DEF SocketFits, SocketTyped, LayersFit, ConnPhases, Chosen
  <2>5. BytesFit(u)
    BY <1>1, <2>3, NoPieces DEF SocketFits, BytesFit, Before, Chosen, Proxied
  <2>6. l.cert # "invalid" /\ l.protocol # "HTTPS"
    BY <1>6 DEF Terminates
  <2>7. ListenerFits(u)
    BY <1>6, <2>3, <2>6 DEF ListenerFits, Before, Chosen
  <2>8. CountFits(s, u, tunnel)
    BY <1>1, <2>3 DEF SocketFits, CountFits, SameCount
  <2> QED BY <2>3, <2>4, <2>5, <2>7, <2>8 DEF SocketFits, u
<1>7. ASSUME NEW l \in BestMatch(v.seen, v.name), Terminates(l), l.cert # "invalid"
      PROVE  SocketFits(s, chosen(l), tunnel)
  <2> DEFINE u == chosen(l)
  <2>1. d = [v EXCEPT !.kept = <<>>]
    OBVIOUS
  <2>2. u = [d EXCEPT !.listener = {l}, !.versions = Versions(l, v.asks), !.phase = p(l)]
    OBVIOUS
  <2> HIDE DEF d, u
  <2>3. /\ IsSocket(d) /\ SameLayers(d, v) /\ SameChoice(d, v) /\ SameCount(d, v)
        /\ d.target = v.target /\ d.sent = v.sent /\ d.wire = v.wire /\ d.kept = <<>>
        /\ d.held = v.held /\ d.out = v.out
    BY <1>1, <2>1 DEF SocketFits, IsSocket, SameLayers, SameChoice, SameCount
  <2>4. /\ IsSocket(u) /\ u.phase = p(l) /\ u.listener = {l}
        /\ u.versions = Versions(l, v.asks) /\ u.seen = v.seen /\ u.name = v.name
        /\ u.asks = v.asks /\ SameLayers(u, v) /\ SameCount(u, v) /\ u.target = v.target
        /\ u.sent = v.sent /\ u.wire = v.wire /\ u.kept = <<>> /\ u.held = v.held
        /\ u.out = v.out
    BY <2>2, <2>3 DEF IsSocket, SameLayers, SameChoice, SameCount
  <2>5. SocketTyped(u) /\ LayersFit(u)
    BY <1>1, <1>4, <2>4
    DEF SocketFits, SocketTyped, LayersFit, SameLayers, ConnPhases, Chosen, Waiting
  <2>6. BytesFit(u)
    BY <1>1, <1>4, <2>4, NoPieces DEF SocketFits, BytesFit, Before, Chosen, Proxied
  <2>7. ListenerFits(u)
    BY <1>4, <1>7, <2>4 DEF ListenerFits, Before, Chosen, Served, Proxied
  <2>8. CountFits(s, u, tunnel)
    BY <1>1, <1>4, <2>4 DEF SocketFits, CountFits, SameCount, Chosen
  <2> QED BY <2>4, <2>5, <2>6, <2>7, <2>8 DEF SocketFits, u
<1> HIDE DEF passed, d, chosen
<1> QED BY <1>1, <1>2, <1>3, <1>6, <1>7, SocketAdvances

(* A config that is built is the only one of its listener and versions. *)
LEMMA BuiltOnceMore ==
  ASSUME ConnInvariant, NEW s \in Sock, Build(s)
  PROVE  BuiltOnce'
<1>1. PICK l \in sock[s].listener :
        \/ caches' = caches
        \/ /\ ~Found(l, sock[s].asks)
           /\ \E k : caches' = caches \cup {<<l, sock[s].asks, k>>}
  BY DEF Build
<1>2. BuiltOnce
  BY DEF ConnInvariant
<1>3. CASE caches' = caches
  BY <1>2, <1>3 DEF BuiltOnce
<1>4. ASSUME ~Found(l, sock[s].asks), NEW k, caches' = caches \cup {<<l, sock[s].asks, k>>}
      PROVE  BuiltOnce'
  <2> DEFINE e == <<l, sock[s].asks, k>>
  <2>1. e[1] = l /\ e[2] = sock[s].asks
    OBVIOUS
  <2>2. \A c \in caches : ~(c[1] = l /\ c[2] = sock[s].asks)
    BY <1>4 DEF Found
  <2>3. \A c, d \in caches : c[1] = d[1] /\ c[2] = d[2] => c = d
    BY <1>2 DEF BuiltOnce
  <2> HIDE DEF e
  <2>4. caches' = caches \cup {e}
    BY <1>4 DEF e
  <2>5. \A c, d \in caches' : c[1] = d[1] /\ c[2] = d[2] => c = d
    BY <2>1, <2>2, <2>3, <2>4
  <2> QED BY <2>5 DEF BuiltOnce
<1> QED BY <1>1, <1>3, <1>4

LEMMA BuiltByAnother ==
  ASSUME ConnInvariant, NEW s \in Sock, BuildElsewhere(s)
  PROVE  ConnInvariant'
<1>1. BuiltOnce'
  BY BuiltOnceMore DEF BuildElsewhere
<1>2. /\ sock' = sock /\ tunnel' = tunnel /\ caReady' = caReady /\ tables' = tables
      /\ frontend' = frontend /\ changes' = changes
  BY DEF BuildElsewhere
<1> QED BY <1>1, <1>2 DEF ConnInvariant, ConfigTyped

LEMMA ConfigBuilt ==
  ASSUME ConnInvariant, NEW s \in Sock, BuildConfig(s)
  PROVE  ConnInvariant'
<1> DEFINE v == sock[s]
           u == [v EXCEPT !.phase = "innerTls"]
<1>1. BuiltOnce'
  BY BuiltOnceMore DEF BuildConfig
<1>2. /\ SocketFits(s, v, tunnel) /\ v.phase = "config" /\ sock' = [sock EXCEPT ![s] = u]
      /\ tunnel' = tunnel /\ caReady' = caReady /\ tables' = tables
      /\ frontend' = frontend /\ changes' = changes
  BY DEF ConnInvariant, BuildConfig, Becomes
<1> HIDE DEF v
<1>3. u = [v EXCEPT !.phase = "innerTls"]
  OBVIOUS
<1> HIDE DEF u
<1>4. /\ IsSocket(u) /\ u.phase = "innerTls" /\ u.target = v.target
      /\ SameLayers(u, v) /\ SamePieces(u, v) /\ SameCount(u, v) /\ SameChoice(u, v)
  BY <1>2, <1>3 DEF SocketFits, IsSocket, SameLayers, SamePieces, SameCount, SameChoice
<1>5. SocketTyped(u) /\ LayersFit(u)
  BY <1>2, <1>4
  DEF SocketFits, SocketTyped, LayersFit, SameLayers, SameChoice, ConnPhases, Chosen, Waiting
<1>6. BytesFit(u)
  BY <1>2, <1>4 DEF SocketFits, BytesFit, SamePieces, Before, Chosen, Proxied
<1>7. ListenerFits(u)
  BY <1>2, <1>4 DEF SocketFits, ListenerFits, SameChoice, Before, Chosen, Served, Proxied
<1>8. CountFits(s, u, tunnel)
  BY <1>2, <1>4 DEF SocketFits, CountFits, SamePieces, SameCount
<1>9. \A r \in Sock : SocketFits(r, sock'[r], tunnel)
  BY <1>2, <1>4, <1>5, <1>6, <1>7, <1>8 DEF ConnInvariant, SocketFits
<1> QED BY <1>1, <1>2, <1>9 DEF ConnInvariant, ConfigTyped

LEMMA TlsTerminated ==
  ASSUME ConnInvariant, NEW s \in Sock, NEW p \in Peer \cup {NoPeer}, NEW n,
         InnerHandshake(s, p, n)
  PROVE  ConnInvariant'
<1> DEFINE v == sock[s]
<1>1. SocketFits(s, v, tunnel) /\ v.phase = "innerTls" /\ ConfigStays
  BY DEF ConnInvariant, InnerHandshake
<1>2. PICK l \in v.listener :
        /\ l.auth => p # NoPeer
        /\ Becomes(s, [TlsShown(s, p) EXCEPT !.held = <<>>, !.wire = <<>>, !.sent = 0,
                          !.phase = IF l.protocol = "HTTPS" THEN "http" ELSE "tcp"])
  BY DEF InnerHandshake
<1>3. /\ v.listener = {l} /\ l \in BestMatch(v.seen, v.name) /\ Terminates(l)
      /\ l.cert # "invalid" /\ v.versions = Versions(l, v.asks)
  BY <1>1, <1>2 DEF SocketFits, ListenerFits, Chosen
<1> DEFINE shown == IF l.auth THEN p ELSE NoPeer
           name == IF v.name = "" THEN "none" ELSE v.name
           tls == [peer |-> shown, name |-> name]
           layer == [kind |-> "tls", peer |-> shown]
           layers == Append(v.layers, layer)
           d == [v EXCEPT !.tls = tls, !.layers = layers]
           phase == IF l.protocol = "HTTPS" THEN "http" ELSE "tcp"
           u == [d EXCEPT !.held = <<>>, !.wire = <<>>, !.sent = 0, !.phase = phase]
<1>4. (CHOOSE k \in v.listener : TRUE) = l
  BY <1>3
<1>5. TlsShown(s, p) = d
  BY <1>4 DEF TlsShown
<1>6. Becomes(s, u)
  BY <1>2, <1>5
<1>7. /\ phase \in {"http", "tcp"} /\ (phase = "http" <=> l.protocol = "HTTPS")
      /\ l.auth => shown # NoPeer
  BY <1>2
<1>8. layer \in Layers /\ tls \in Shown /\ tls # NoTls /\ tls.peer = layer.peer
  <2>1. v.name \in ServerNames /\ shown \in Peer \cup {NoPeer}
    BY <1>1 DEF SocketFits, SocketTyped, Chosen
  <2> HIDE DEF v, shown
  <2> QED BY <2>1, ConnAssumption DEF Layers, Shown, NoTls
<1>9. tls.peer = shown
  OBVIOUS
<1> HIDE DEF v, shown, name, tls, layer, phase
<1>10. layers \in Seq(Layers) /\ layers # <<>> /\ layers[Len(layers)] = layer
  BY <1>1, <1>8, LayerAdded DEF SocketFits, LayersFit
<1> HIDE DEF layers
<1>11. d = [v EXCEPT !.tls = tls, !.layers = layers]
  OBVIOUS
<1>12. u = [d EXCEPT !.held = <<>>, !.wire = <<>>, !.sent = 0, !.phase = phase]
  OBVIOUS
<1> HIDE DEF d, u
<1>13. /\ IsSocket(d) /\ d.tls = tls /\ d.layers = layers /\ SameChoice(d, v)
       /\ SameCount(d, v) /\ d.target = v.target /\ d.kept = v.kept /\ d.out = v.out
  BY <1>1, <1>11 DEF SocketFits, IsSocket, SameChoice, SameCount
<1>14. /\ IsSocket(u) /\ u.phase = phase /\ u.tls = tls /\ u.layers = layers
       /\ SameChoice(u, v) /\ SameCount(u, v) /\ u.target = v.target /\ u.kept = v.kept
       /\ u.out = v.out /\ u.held = <<>> /\ u.wire = <<>> /\ u.sent = 0
  BY <1>12, <1>13 DEF IsSocket, SameChoice, SameCount
<1>15. SocketTyped(u) /\ LayersFit(u)
  BY <1>1, <1>7, <1>8, <1>10, <1>14
  DEF SocketFits, SocketTyped, LayersFit, ConnPhases, Chosen, Proxied
<1>16. v.kept = <<>> /\ v.out = <<>>
  BY <1>1 DEF SocketFits, BytesFit, Chosen, Proxied
<1>17. BytesFit(u)
  BY <1>7, <1>14, <1>16, NoPieces DEF BytesFit, Before, Chosen, Proxied, MaxPieces
<1>18. ListenerFits(u)
  BY <1>3, <1>7, <1>9, <1>14 DEF ListenerFits, SameChoice, Before, Chosen, Served, Proxied
<1>19. CountFits(s, u, tunnel)
  BY <1>1, <1>7, <1>14 DEF SocketFits, CountFits, SameCount
<1> QED BY <1>1, <1>6, <1>14, <1>15, <1>17, <1>18, <1>19, SocketAdvances DEF SocketFits

LEMMA TcpRouted ==
  ASSUME ConnInvariant, NEW s \in Sock, RouteTcp(s)
  PROVE  ConnInvariant'
<1> DEFINE v == sock[s]
           u == [v EXCEPT !.phase = "relay"]
<1>1. /\ SocketFits(s, v, tunnel) /\ v.phase = "tcp" /\ (Drop(s) \/ Becomes(s, u))
      /\ ConfigStays
  BY DEF ConnInvariant, RouteTcp
<1>2. CASE Drop(s)
  BY <1>1, <1>2, Dropped
<1> HIDE DEF v
<1>3. u = [v EXCEPT !.phase = "relay"]
  OBVIOUS
<1> HIDE DEF u
<1>4. /\ IsSocket(u) /\ u.phase = "relay" /\ u.target = v.target
      /\ SameLayers(u, v) /\ SamePieces(u, v) /\ SameCount(u, v) /\ SameChoice(u, v)
  BY <1>1, <1>3 DEF SocketFits, IsSocket, SameLayers, SamePieces, SameCount, SameChoice
<1>5. SocketTyped(u) /\ LayersFit(u)
  BY <1>1, <1>4
  DEF SocketFits, SocketTyped, LayersFit, SameLayers, SameChoice, ConnPhases, Chosen, Proxied
<1>6. BytesFit(u)
  BY <1>1, <1>4 DEF SocketFits, BytesFit, SamePieces, Before, Chosen, Proxied
<1>7. ListenerFits(u)
  BY <1>1, <1>4
  DEF SocketFits, ListenerFits, SameChoice, SameLayers, Before, Chosen, Served, Proxied
<1>8. CountFits(s, u, tunnel)
  BY <1>1, <1>4 DEF SocketFits, CountFits, SamePieces, SameCount
<1> QED BY <1>1, <1>2, <1>4, <1>5, <1>6, <1>7, <1>8, SocketAdvances DEF SocketFits

LEMMA PieceDelivered ==
  ASSUME ConnInvariant, NEW s \in Sock, NEW n, Deliver(s, n)
  PROVE  ConnInvariant'
<1> DEFINE v == sock[s]
           ofKept == [v EXCEPT !.kept = SubSeq(v.kept, n + 1, Len(v.kept)),
                               !.out = v.out \o SubSeq(v.kept, 1, n)]
           ofWire == [v EXCEPT !.wire = SubSeq(v.wire, n + 1, Len(v.wire)),
                               !.out = v.out \o SubSeq(v.wire, 1, n)]
           counting(d) == [d EXCEPT !.counted = v.counted + n]
<1>1. SocketFits(s, v, tunnel) /\ v.phase \in Proxied /\ ConfigStays
  BY DEF ConnInvariant, Deliver
<1>2. \/ n \in 1..Len(v.kept) /\ Becomes(s, counting(ofKept))
      \/ v.kept = <<>> /\ n \in 1..Len(v.wire) /\ Becomes(s, counting(ofWire))
  BY DEF Deliver, Draining, Readable
<1> HIDE DEF v
<1>3. /\ v.sent \in 0..MaxPieces /\ v.sent \in Nat /\ v.out \in Seq(Nat)
      /\ v.kept \in Seq(Nat) /\ v.wire \in Seq(Nat) /\ v.held \in Seq(Nat)
      /\ PiecesFit(v.out, v.kept, v.wire, v.sent)
      /\ v.counted = Len(v.out) + HeaderOf(s, tunnel) /\ Len(v.out) \in Nat
      /\ HeaderOf(s, tunnel) \in 0..1
  <2>1. SocketFits(s, v, tunnel) /\ v.phase \notin {"idle", "header", "closed", "config", "innerTls"}
    BY <1>1 DEF Proxied
  <2>2. v.counted = Len(v.out) + HeaderOf(s, tunnel)
    BY <2>1 DEF SocketFits, CountFits
  <2>3. HeaderOf(s, tunnel) \in 0..1
    BY DEF HeaderOf
  <2>4. /\ v.sent \in 0..MaxPieces /\ v.out \in Seq(Nat) /\ v.kept \in Seq(Nat)
        /\ v.wire \in Seq(Nat) /\ v.held \in Seq(Nat)
        /\ PiecesFit(v.out, v.kept, v.wire, v.sent)
    BY <2>1 DEF SocketFits, BytesFit, Chosen
  <2>5. v.sent \in Nat /\ Len(v.out) \in Nat
    BY <2>4 DEF MaxPieces
  <2> QED BY <2>2, <2>3, <2>4, <2>5
<1>4. ASSUME NEW u, IsSocket(u), u.phase = v.phase, u.target = v.target, SameLayers(u, v),
             SameChoice(u, v), u.sent = v.sent, u.held = v.held, n \in Nat,
             u.wire \in Seq(Nat), u.kept \in Seq(Nat), u.out \in Seq(Nat),
             PiecesFit(u.out, u.kept, u.wire, u.sent), Len(u.out) = Len(v.out) + n,
             u.counted = v.counted + n
      PROVE  SocketFits(s, u, tunnel)
  <2>1. SocketTyped(u) /\ LayersFit(u)
    BY <1>1, <1>4 DEF SocketFits, SocketTyped, LayersFit, SameLayers, Chosen, Proxied
  <2>2. BytesFit(u)
    BY <1>1, <1>3, <1>4 DEF BytesFit, Before, Chosen, Proxied
  <2>3. ListenerFits(u)
    BY <1>1, <1>4
    DEF SocketFits, ListenerFits, SameChoice, SameLayers, Before, Chosen, Served, Proxied
  <2>4. u.counted = Len(u.out) + HeaderOf(s, tunnel) /\ Len(u.out) <= u.sent
    <3> DEFINE a == Len(u.out)
               b == Len(u.kept)
               c == Len(u.wire)
               d == Len(v.out)
               h == HeaderOf(s, tunnel)
    <3>1. a \in Nat /\ b \in Nat /\ c \in Nat /\ d \in Nat /\ n \in Nat /\ h \in Nat
      BY <1>3, <1>4
    <3>2. a + b + c = u.sent
      BY <1>4 DEF PiecesFit
    <3>3. a = d + n /\ u.counted = v.counted + n /\ v.counted = d + h
      BY <1>3, <1>4
    <3> HIDE DEF a, b, c, d, h
    <3>4. u.counted = a + h /\ a <= u.sent
      BY <3>1, <3>2, <3>3
    <3> QED BY <3>4 DEF a, h
  <2>5. u.counted \in 0..2 * MaxPieces
    <3>3. Len(u.out) \in Nat
      BY <1>4
    <3>4. u.sent \in 0..3
      BY <1>3, <1>4 DEF MaxPieces
    <3>1. Len(u.out) \in 0..3
      <4> DEFINE a == Len(u.out)
      <4>1. a \in Nat /\ u.sent \in 0..3 /\ a <= u.sent
        BY <2>4, <3>3, <3>4
      <4> HIDE DEF a
      <4>2. a \in 0..3
        BY <4>1
      <4> QED BY <4>2 DEF a
    <3>2. Len(u.out) + HeaderOf(s, tunnel) \in 0..6
      <4> DEFINE a == Len(u.out)
                 h == HeaderOf(s, tunnel)
      <4>1. a \in 0..3 /\ h \in 0..1
        BY <1>3, <3>1
      <4> HIDE DEF a, h
      <4>2. a + h \in 0..6
        BY <4>1
      <4> QED BY <4>2 DEF a, h
    <3> QED BY <2>4, <3>2 DEF MaxPieces
  <2>6. CountFits(s, u, tunnel)
    BY <1>1, <1>4, <2>4, <2>5 DEF CountFits, Proxied
  <2> QED BY <1>4, <2>1, <2>2, <2>3, <2>6 DEF SocketFits
<1>5. ASSUME n \in 1..Len(v.kept)  PROVE SocketFits(s, counting(ofKept), tunnel)
  <2> DEFINE rest == SubSeq(v.kept, n + 1, Len(v.kept))
             out == v.out \o SubSeq(v.kept, 1, n)
             d == ofKept
             u == counting(d)
  <2>1. /\ out \in Seq(Nat) /\ Len(out) = Len(v.out) + n /\ rest \in Seq(Nat)
        /\ PiecesFit(out, rest, v.wire, v.sent)
    BY <1>3, <1>5, PiecesGiven
  <2> HIDE DEF rest, out
  <2>2. d = [v EXCEPT !.kept = rest, !.out = out]
    BY DEF rest, out
  <2>3. u = [d EXCEPT !.counted = v.counted + n]
    OBVIOUS
  <2> HIDE DEF d, u
  <2>4. /\ IsSocket(d) /\ d.phase = v.phase /\ d.target = v.target /\ SameLayers(d, v)
        /\ SameChoice(d, v) /\ d.sent = v.sent /\ d.held = v.held /\ d.wire = v.wire
        /\ d.kept = rest /\ d.out = out
    BY <1>1, <2>2 DEF SocketFits, IsSocket, SameLayers, SameChoice
  <2>5. /\ IsSocket(u) /\ u.phase = v.phase /\ u.target = v.target /\ SameLayers(u, v)
        /\ SameChoice(u, v) /\ u.sent = v.sent /\ u.held = v.held /\ u.wire = v.wire
        /\ u.kept = rest /\ u.out = out /\ u.counted = v.counted + n
    BY <2>3, <2>4 DEF IsSocket, SameLayers, SameChoice
  <2>8. n \in Nat
    BY <1>3, <1>5
  <2>6. SocketFits(s, u, tunnel)
    BY <1>3, <1>4, <2>1, <2>5, <2>8
  <2> QED BY <2>6 DEF u, d
<1>6. ASSUME v.kept = <<>>, n \in 1..Len(v.wire)  PROVE SocketFits(s, counting(ofWire), tunnel)
  <2> DEFINE rest == SubSeq(v.wire, n + 1, Len(v.wire))
             out == v.out \o SubSeq(v.wire, 1, n)
             d == ofWire
             u == counting(d)
  <2>0. PiecesFit(v.out, v.wire, <<>>, v.sent)
    BY <1>3, <1>6, PiecesMoved
  <2>1. /\ out \in Seq(Nat) /\ Len(out) = Len(v.out) + n /\ rest \in Seq(Nat)
        /\ PiecesFit(out, rest, <<>>, v.sent)
    BY <1>3, <1>6, <2>0, NoPieces, PiecesGiven
  <2> HIDE DEF rest, out
  <2>7. PiecesFit(out, <<>>, rest, v.sent)
    BY <2>1, PiecesMoved
  <2>2. d = [v EXCEPT !.wire = rest, !.out = out]
    BY DEF rest, out
  <2>3. u = [d EXCEPT !.counted = v.counted + n]
    OBVIOUS
  <2> HIDE DEF d, u
  <2>4. /\ IsSocket(d) /\ d.phase = v.phase /\ d.target = v.target /\ SameLayers(d, v)
        /\ SameChoice(d, v) /\ d.sent = v.sent /\ d.held = v.held /\ d.wire = rest
        /\ d.kept = v.kept /\ d.out = out
    BY <1>1, <2>2 DEF SocketFits, IsSocket, SameLayers, SameChoice
  <2>5. /\ IsSocket(u) /\ u.phase = v.phase /\ u.target = v.target /\ SameLayers(u, v)
        /\ SameChoice(u, v) /\ u.sent = v.sent /\ u.held = v.held /\ u.wire = rest
        /\ u.kept = v.kept /\ u.out = out /\ u.counted = v.counted + n
    BY <2>3, <2>4 DEF IsSocket, SameLayers, SameChoice
  <2>8. n \in Nat
    BY <1>3, <1>6
  <2>6. SocketFits(s, u, tunnel)
    BY <1>3, <1>4, <1>6, <2>1, <2>5, <2>7, <2>8
  <2> QED BY <2>6 DEF u, d
<1> HIDE DEF ofKept, ofWire, counting
<1> QED BY <1>1, <1>2, <1>5, <1>6, SocketAdvances

LEMMA Reconfigured ==
  ASSUME ConnInvariant, Reconfigure
  PROVE  ConnInvariant'
<1>1. /\ tunnel' = tunnel /\ caReady' = caReady /\ caches' = caches /\ sock' = sock
      /\ changes' = changes + 1 /\ changes < MaxConfigs
      /\ tables' \in BindTables \/ tables' = tables
      /\ frontend' \in Overrides \cup {NoOverride} \/ frontend' = frontend
  BY DEF Reconfigure
<1>2. ConfigTyped'
  BY <1>1, ConnAssumption DEF ConnInvariant, ConfigTyped
<1>3. BuiltOnce'
  BY <1>1 DEF ConnInvariant, BuiltOnce
<1> QED BY <1>1, <1>2, <1>3 DEF ConnInvariant

LEMMA SocketSteps ==
  ASSUME ConnInvariant, NEW s \in Sock, SockNext(s)
  PROVE  ConnInvariant'
<1>1. CASE Fails(s) \/ ProxiedEnds(s)
  <2>1. sock[s].phase # "closed" /\ Drop(s) /\ ConfigStays
    BY <1>1 DEF Fails, ProxiedEnds, Waiting, Proxied
  <2> QED BY <2>1, Dropped
<1>2. CASE EnterBind(s) \/ Arrives(s) \/ SelectListener(s)
  BY <1>2, BindEntered, PieceArrives, ListenerSelected
<1>3. CASE BuildConfig(s) \/ BuildElsewhere(s) \/ RouteTcp(s)
  BY <1>3, ConfigBuilt, BuiltByAnother, TcpRouted
<1>4. ASSUME NEW n \in 1..MaxPieces, ReadHello(s, n) \/ Deliver(s, n)
      PROVE  ConnInvariant'
  BY <1>4, HelloRead, PieceDelivered
<1>5. ASSUME NEW name \in ServerNames, HelloComplete(s, name)  PROVE ConnInvariant'
  BY <1>5, HelloTaken
<1>6. ASSUME NEW p \in Peer \cup {NoPeer}, NEW n \in TlsVersions, InnerHandshake(s, p, n)
      PROVE  ConnInvariant'
  BY <1>6, TlsTerminated
<1> QED BY <1>1, <1>2, <1>3, <1>4, <1>5, <1>6 DEF SockNext

LEMMA ConnSteps == ConnInvariant /\ [ConnNext]_connVars => ConnInvariant'
<1> SUFFICES ASSUME ConnInvariant, [ConnNext]_connVars  PROVE ConnInvariant'
  OBVIOUS
<1>1. CASE AcceptSocket \/ CaAnswers \/ TunnelEnds \/ Reconfigure
  BY <1>1, SocketAccepted, IdentityFetched, TunnelEnded, Reconfigured
<1>2. ASSUME NEW p \in Peer \cup {NoPeer}, ReadHeader(p)  PROVE ConnInvariant'
  BY <1>2, HeaderRead
<1>3. ASSUME NEW p \in Peer, OuterHandshake(p)  PROVE ConnInvariant'
  BY <1>3, TunnelOpened
<1>4. ASSUME NEW s \in Stream, StreamNext(s)  PROVE ConnInvariant'
  BY <1>4, StreamOpened
<1>5. ASSUME NEW s \in Sock, SockNext(s)  PROVE ConnInvariant'
  BY <1>5, SocketSteps
<1>6. CASE UNCHANGED connVars
  BY <1>6 DEF connVars, ConnInvariant, ConfigTyped, BuiltOnce
<1> QED BY <1>1, <1>2, <1>3, <1>4, <1>5, <1>6 DEF ConnNext

LEMMA NothingShown == NoTls \in Shown /\ <<>> \in Seq(Layers)
<1>1. NoTls \in Shown
  BY DEF NoTls, Shown
<1>2. <<>> \in Seq(Layers)
  OBVIOUS
<1> QED BY <1>1, <1>2

LEMMA NothingSent == 0 \in 0..MaxPieces /\ 0 \in 0..2 * MaxPieces
BY DEF MaxPieces

(* A socket that nothing came through, before its accept or closed. *)
LEMMA UnopenedFits ==
  ASSUME NEW s, NEW t, NEW x, IsSocket(x), x.phase \in {"idle", "closed"}, x.seen = {},
         x.tls = NoTls, x.target = "", x.layers = <<>>, x.sent = 0, x.wire = <<>>,
         x.kept = <<>>, x.held = <<>>, x.out = <<>>, x.counted = 0
  PROVE  SocketFits(s, x, t)
<1>1. SocketTyped(x) /\ LayersFit(x)
  BY NothingShown DEF SocketTyped, LayersFit, ConnPhases, Chosen
<1>2. BytesFit(x)
  <2>1. x.sent \in 0..MaxPieces
    BY NothingSent
  <2>2. PiecesFit(x.out, x.kept, x.wire, x.sent) /\ x.wire \in Seq(Nat)
    BY NoPieces
  <2> QED BY <2>1, <2>2 DEF BytesFit, Chosen
<1>3. ListenerFits(x)
  BY DEF ListenerFits, Chosen, Served, Proxied
<1>4. CountFits(s, x, t)
  <2>1. x.counted \in 0..2 * MaxPieces
    BY NothingSent
  <2> QED BY <2>1 DEF CountFits
<1> QED BY <1>1, <1>2, <1>3, <1>4 DEF SocketFits

LEMMA ConnStarts == ConnInit => ConnInvariant
<1> SUFFICES ASSUME ConnInit  PROVE ConnInvariant
  OBVIOUS
<1>1. ConfigTyped /\ BuiltOnce /\ sock = [s \in Sock |-> Unopened]
  BY ConnAssumption DEF ConnInit, ConfigTyped, BuiltOnce
<1>2. IsSocket(Unopened)
  BY DEF Unopened, IsSocket
<1>3. \A s \in Sock : SocketFits(s, Unopened, tunnel)
  BY <1>2, UnopenedFits DEF Unopened
<1> QED BY <1>1, <1>3 DEF ConnInvariant

LEMMA BestMatchFits ==
  ASSUME NEW listeners, NEW name, NEW l \in BestMatch(listeners, name)
  PROVE  /\ l \in listeners /\ l.host \in {name, "*", ""}
         /\ \A o \in listeners : o.host = name => l.host = name
BY DEF BestMatch

LEMMA LastOfConcat ==
  ASSUME NEW S, NEW a \in Seq(S), NEW b \in Seq(S), b # <<>>
  PROVE  a \o b # <<>> /\ (a \o b)[Len(a \o b)] = b[Len(b)]
<1> DEFINE c == a \o b
           m == Len(a)
           n == Len(b)
<1>1. m \in Nat /\ n \in Nat /\ n # 0
  BY EmptySeq
<1>2. /\ Len(c) = m + n
      /\ \A i \in 1..(m + n) : c[i] = IF i <= m THEN a[i] ELSE b[i - m]
  BY ConcatProperties
<1> HIDE DEF c, m, n
<1>3. m + n \in 1..(m + n) /\ ~(m + n <= m) /\ (m + n) - m = n
  BY <1>1
<1>4. c[m + n] = b[n]
  BY <1>2, <1>3
<1>5. c # <<>>
  BY <1>1, <1>2, EmptySeq
<1> QED BY <1>2, <1>4, <1>5 DEF c, n

LEMMA ConnInvariantSuffices == ConnInvariant => ConnectionsConsistent
<1> SUFFICES ASSUME ConnInvariant  PROVE ConnectionsConsistent
  OBVIOUS
<1>1. ConnTypeOK
  BY DEF ConnInvariant, ConnTypeOK, ConfigTyped, SocketFits, SocketTyped, CountFits, Shown
<1>2. IdentityOfInnermost
  <2> SUFFICES ASSUME NEW s \in Sock
               PROVE  TlsOf(s).peer = IF AllLayers(s) = <<>> THEN NoPeer
                                      ELSE AllLayers(s)[Len(AllLayers(s))].peer
    BY DEF IdentityOfInnermost
  <2> DEFINE r == sock[RawSocket]
             x == sock[s]
  <2>1. LayersFit(r) /\ LayersFit(x)
    BY DEF ConnInvariant, SocketFits, Sock
  <2>2. /\ r.layers \in Seq(Layers) /\ x.layers \in Seq(Layers)
        /\ IF r.layers = <<>> THEN r.tls = NoTls
           ELSE r.tls # NoTls /\ r.tls.peer = r.layers[Len(r.layers)].peer
        /\ IF x.layers = <<>> THEN x.tls = NoTls
           ELSE x.tls # NoTls /\ x.tls.peer = x.layers[Len(x.layers)].peer
    BY <2>1 DEF LayersFit
  <2>3. NoTls.peer = NoPeer
    BY DEF NoTls
  <2>4. CASE s \notin Stream
    <3>1. TlsOf(s) = x.tls
      BY <2>4 DEF TlsOf
    <3>2. AllLayers(s) = x.layers
      BY <2>2, <2>4, ConcatEmptySeq DEF AllLayers
    <3> HIDE DEF x
    <3> QED BY <2>2, <2>3, <3>1, <3>2
  <2>5. CASE s \in Stream /\ x.layers = <<>>
    <3>1. TlsOf(s) = r.tls
      BY <2>2, <2>5 DEF TlsOf
    <3>2. AllLayers(s) = r.layers
      BY <2>2, <2>5, ConcatEmptySeq DEF AllLayers
    <3> HIDE DEF r
    <3> QED BY <2>2, <2>3, <3>1, <3>2
  <2>6. CASE s \in Stream /\ x.layers # <<>>
    <3>1. TlsOf(s) = x.tls
      BY <2>2, <2>6 DEF TlsOf
    <3>2. AllLayers(s) = r.layers \o x.layers
      BY <2>6 DEF AllLayers
    <3>3. /\ r.layers \o x.layers # <<>>
          /\ (r.layers \o x.layers)[Len(r.layers \o x.layers)] = x.layers[Len(x.layers)]
      BY <2>2, <2>6, LastOfConcat
    <3> HIDE DEF r, x
    <3> QED BY <2>2, <2>6, <3>1, <3>2, <3>3
  <2> QED BY <2>4, <2>5, <2>6
<1>3. NothingLost
  <2> SUFFICES ASSUME NEW s \in Sock, sock[s].phase \notin {"tunnelled", "closed"}
               PROVE  (IF sock[s].phase \in {"hello", "selected", "config", "innerTls"}
                       THEN sock[s].held ELSE sock[s].out \o sock[s].kept) \o sock[s].wire
                        = [i \in 1..sock[s].sent |-> i]
    BY DEF NothingLost
  <2> DEFINE x == sock[s]
  <2>1. BytesFit(x) /\ x.phase \notin {"tunnelled", "closed"}
    BY DEF ConnInvariant, SocketFits
  <2> HIDE DEF x
  <2>2. /\ x.sent \in Nat /\ x.out \in Seq(Nat) /\ x.kept \in Seq(Nat)
        /\ x.held \in Seq(Nat) /\ x.wire \in Seq(Nat)
    <3>1. x.sent \in 0..3
      BY <2>1 DEF BytesFit, MaxPieces
    <3> QED BY <2>1, <3>1 DEF BytesFit
  <2>3. CASE x.phase \in {"hello", "selected", "config", "innerTls"}
    <3>1. x.out = <<>> /\ PiecesFit(x.out, x.held, x.wire, x.sent)
      BY <2>1, <2>3 DEF BytesFit, Chosen, Proxied
    <3>2. (x.out \o x.held) \o x.wire = [i \in 1..x.sent |-> i]
      BY <2>2, <3>1, PiecesWhole
    <3>3. x.out \o x.held = x.held
      BY <2>2, <3>1, ConcatEmptySeq
    <3> QED BY <2>3, <3>2, <3>3 DEF x
  <2>4. CASE x.phase \notin {"hello", "selected", "config", "innerTls"}
    <3>1. PiecesFit(x.out, x.kept, x.wire, x.sent)
      BY <2>1, <2>4 DEF BytesFit, Chosen
    <3>2. (x.out \o x.kept) \o x.wire = [i \in 1..x.sent |-> i]
      BY <2>2, <3>1, PiecesWhole
    <3> QED BY <2>4, <3>2 DEF x
  <2> QED BY <2>3, <2>4
<1>4. ServedByListener
  <2> SUFFICES ASSUME NEW s \in Sock, sock[s].phase \in Proxied, sock[s].seen # {}
               PROVE  \E l \in sock[s].listener :
                        /\ l \in sock[s].seen /\ l.cert # "invalid"
                        /\ sock[s].phase = "http" <=> l.protocol = "HTTPS"
                        /\ l.host \in {sock[s].name, "*", ""}
                        /\ \A o \in sock[s].seen : o.host = sock[s].name => l.host = sock[s].name
                        /\ Terminates(l) => /\ sock[s].versions = Versions(l, sock[s].asks)
                                            /\ l.auth => sock[s].tls.peer # NoPeer
    BY DEF ServedByListener
  <2>1. ListenerFits(sock[s])
    BY DEF ConnInvariant, SocketFits
  <2>2. PICK l \in sock[s].listener :
          /\ l \in BestMatch(sock[s].seen, sock[s].name) /\ l.cert # "invalid"
          /\ sock[s].phase = "http" <=> l.protocol = "HTTPS"
          /\ Terminates(l) => /\ sock[s].versions = Versions(l, sock[s].asks)
                              /\ l.auth => sock[s].tls.peer # NoPeer
    BY <2>1 DEF ListenerFits, Served
  <2>3. /\ l \in sock[s].seen /\ l.host \in {sock[s].name, "*", ""}
        /\ \A o \in sock[s].seen : o.host = sock[s].name => l.host = sock[s].name
    <3> DEFINE seen == sock[s].seen
               name == sock[s].name
    <3>1. l \in BestMatch(seen, name)
      BY <2>2
    <3> HIDE DEF seen, name
    <3>2. /\ l \in seen /\ l.host \in {name, "*", ""}
          /\ \A o \in seen : o.host = name => l.host = name
      BY <3>1, BestMatchFits
    <3> QED BY <3>2 DEF seen, name
  <2> QED BY <2>2, <2>3
<1>5. BuiltOnce
  BY DEF ConnInvariant
<1>6. BytesExported
  <2>1. CountFits(RawSocket, sock[RawSocket], tunnel)
    BY DEF ConnInvariant, SocketFits, Sock
  <2> QED BY <2>1 DEF BytesExported, CountFits, HeaderOf
<1> QED BY <1>1, <1>2, <1>3, <1>4, <1>5, <1>6 DEF ConnectionsConsistent

(* Whatever arrives and however often the configuration changes, a client  *)
(* of a listener is known as who its handshakes proved, its bytes arrive   *)
(* once and in order, its configuration is the one of its listener, built  *)
(* once, and every byte it sent is counted.                                *)
THEOREM ConnectionsStayConsistent == ConnSpec => []ConnectionsConsistent
BY ConnStarts, ConnSteps, ConnInvariantSuffices, PTL DEF ConnSpec

-----------------------------------------------------------------------------
(* The calls to backends (UpstreamConnect).                                *)

IsCall(u) ==
  u = [phase |-> u.phase, backend |-> u.backend, tls |-> u.tls, override |-> u.override,
       target |-> u.target, transport |-> u.transport, ep |-> u.ep, path |-> u.path,
       unread |-> u.unread, read |-> u.read, cert |-> u.cert, shaken |-> u.shaken]

(* A transport is for the endpoint and the policy of its call. *)
TransportFits(u) ==
  LET t == u.transport IN
  /\ t.kind \in {"direct", "tunnel", "hbone", "double"}
  /\ t.kind \in {"hbone", "double"} => t.id = u.backend.id
  /\ \/ t.app = Plain /\ u.tls = NoTlsPolicy
     \/ t.app # Plain /\ t.app.kind = "mesh" /\ u.tls = NoTlsPolicy
     \/ t.app # Plain /\ t.app.kind = "tls" /\ t.app.config.policy = u.tls

(* Where a transport leads, and what it verifies, by nothing but the key of *)
(* the pool.                                                               *)
PathOver(t, ep, target) ==
  CASE t.kind = "direct" -> <<Hop("dial", ep)>>
    [] t.kind = "tunnel" -> <<Hop("dial", "proxy"), Hop("connect", target)>>
    [] t.kind = "hbone" -> <<Hop("tunnel", t.id), Hop("connect", ep)>>
    [] t.kind = "double" ->
         <<Hop("tunnel", "gateway"), Hop("connect", target),
           Hop("tunnel", t.id), Hop("connect", target)>>

NameFor(p, target) == IF p.host # "" THEN p.host ELSE target

PolicyVerifies(p, target, cert) ==
  CASE VerifierOf(p) = "none" -> TRUE
    [] VerifierOf(p) = "anyHost" -> cert.chain
    [] VerifierOf(p) = "alts" -> cert.chain /\ p.alts \cap cert.names # {}
    [] OTHER -> cert.chain /\ NameFor(p, target) \in cert.names

VerifiedOver(t, target, cert, shaken) ==
  \/ t.app = Plain /\ cert = NoConnection
  \/ /\ t.app # Plain /\ t.app.kind = "mesh" /\ cert # NoConnection
     /\ cert.chain /\ t.app.id \in cert.names /\ shaken.name = target
  \/ /\ t.app # Plain /\ t.app.kind = "tls" /\ cert # NoConnection
     /\ PolicyVerifies(t.app.config.policy, target, cert)
     /\ shaken.name = NameFor(t.app.config.policy, target)

Pieces == {"status", "half", "end", "refused", "payload"}

(* What was read and what was not are one answer of the proxy. *)
Answering(r, w) ==
  /\ r \in Seq(Pieces) /\ w \in Seq(Pieces)
  /\ \E a \in ProxyAnswers :
       /\ Len(a) = Len(r) + Len(w)
       /\ \A i \in 1..Len(r) : r[i] = a[i]
       /\ \A i \in 1..Len(w) : w[i] = a[Len(r) + i]

CallFits(u) ==
  /\ u.phase \in UpPhases
  /\ u.tls \in {a.tls : a \in Asks} \cup {NoTlsPolicy} /\ u.override \in {"none", "h1", "h2"}
  /\ u.phase \notin {"new", "chosen", "failed"} => TransportFits(u)
  /\ u.phase \notin Settled => u.cert = NoConnection
  /\ u.phase \in {"new", "chosen", "built", "resolved", "outer", "certificate", "inner"} =>
       u.read = <<>>
  /\ u.phase = "tunnel" =>
       /\ u.transport.kind = "tunnel" /\ u.path = <<Hop("dial", "proxy")>>
       /\ Answering(u.read, u.unread)
  /\ u.phase \in {"outer", "certificate"} =>
       /\ u.transport.kind = "double"
       /\ u.path = <<Hop("tunnel", "gateway"), Hop("connect", u.target)>>
  /\ u.phase = "inner" =>
       /\ u.transport.kind = "double"
       /\ u.path = <<Hop("tunnel", "gateway"), Hop("connect", u.target),
                     Hop("tunnel", u.transport.id)>>
  /\ u.phase \in {"carried", "ready"} =>
       /\ u.path = PathOver(u.transport, u.ep, u.target)
       /\ \A i \in DOMAIN u.read : u.read[i] # "payload"
  /\ u.phase = "ready" => VerifiedOver(u.transport, u.target, u.cert, u.shaken)

UpInvariant ==
  /\ caHas \in BOOLEAN /\ made \in [UpCall -> 1..MaxCalls]
  /\ upcall = [c \in UpCall |-> upcall[c]]
  /\ \A c \in UpCall : IsCall(upcall[c]) /\ CallFits(upcall[c])
  /\ \A k \in idle :
       /\ k.path = PathOver(k.key.transport, k.key.ep, k.key.target)
       /\ VerifiedOver(k.key.transport, k.key.target, k.cert, k.shaken)

(* Appending to a path of known hops. *)
LEMMA Lengthened ==
  ASSUME NEW S, NEW s \in Seq(S), NEW e \in S, NEW r \in Seq(S), Len(r) = Len(s) + 1,
         \A i \in 1..Len(s) : r[i] = s[i], r[Len(s) + 1] = e
  PROVE  Append(s, e) = r
<1> DEFINE t == Append(s, e)
<1>1. /\ t \in Seq(S) /\ Len(t) = Len(s) + 1 /\ t[Len(s) + 1] = e
      /\ \A i \in 1..Len(s) : t[i] = s[i]
  BY AppendProperties
<1> HIDE DEF t
<1>2. Len(s) \in Nat
  OBVIOUS
<1>3. \A i \in 1..Len(t) : t[i] = r[i]
  BY <1>1, <1>2
<1>4. t = r
  BY <1>1, <1>3, SeqEqual
<1> QED BY <1>4 DEF t

LEMMA ThirdHop ==
  ASSUME NEW a, NEW b, NEW c  PROVE Append(<<a, b>>, c) = <<a, b, c>>
<1> DEFINE s == <<a, b>>
           r == <<a, b, c>>
<1>1. s \in Seq({a, b, c}) /\ Len(s) = 2 /\ s[1] = a /\ s[2] = b
  OBVIOUS
<1>2. r \in Seq({a, b, c}) /\ Len(r) = 3 /\ r[1] = a /\ r[2] = b /\ r[3] = c
  OBVIOUS
<1> HIDE DEF s, r
<1>3. Len(r) = Len(s) + 1 /\ r[Len(s) + 1] = c /\ \A i \in 1..Len(s) : r[i] = s[i]
  BY <1>1, <1>2
<1>4. c \in {a, b, c}
  OBVIOUS
<1>5. Append(s, c) = r
  BY <1>1, <1>2, <1>3, <1>4, Lengthened
<1> QED BY <1>5 DEF s, r

LEMMA FourthHop ==
  ASSUME NEW a, NEW b, NEW c, NEW d  PROVE Append(<<a, b, c>>, d) = <<a, b, c, d>>
<1> DEFINE s == <<a, b, c>>
           r == <<a, b, c, d>>
<1>1. s \in Seq({a, b, c, d}) /\ Len(s) = 3 /\ s[1] = a /\ s[2] = b /\ s[3] = c
  OBVIOUS
<1>2. r \in Seq({a, b, c, d}) /\ Len(r) = 4 /\ r[1] = a /\ r[2] = b /\ r[3] = c /\ r[4] = d
  OBVIOUS
<1> HIDE DEF s, r
<1>3. Len(r) = Len(s) + 1 /\ r[Len(s) + 1] = d /\ \A i \in 1..Len(s) : r[i] = s[i]
  BY <1>1, <1>2
<1>4. d \in {a, b, c, d}
  OBVIOUS
<1>5. Append(s, d) = r
  BY <1>1, <1>2, <1>3, <1>4, Lengthened
<1> QED BY <1>5 DEF s, r

LEMMA SecondHop ==
  ASSUME NEW a, NEW b  PROVE Append(<<a>>, b) = <<a, b>>
<1> DEFINE s == <<a>>
           r == <<a, b>>
<1>1. s \in Seq({a, b}) /\ Len(s) = 1 /\ s[1] = a
  OBVIOUS
<1>2. r \in Seq({a, b}) /\ Len(r) = 2 /\ r[1] = a /\ r[2] = b
  OBVIOUS
<1> HIDE DEF s, r
<1>3. Len(r) = Len(s) + 1 /\ r[Len(s) + 1] = b /\ \A i \in 1..Len(s) : r[i] = s[i]
  BY <1>1, <1>2
<1>4. b \in {a, b}
  OBVIOUS
<1>5. Append(s, b) = r
  BY <1>1, <1>2, <1>3, <1>4, Lengthened
<1> QED BY <1>5 DEF s, r

LEMMA UpStarts == UpInit => UpInvariant
<1> SUFFICES ASSUME UpInit PROVE UpInvariant
  OBVIOUS
<1>1. \A c \in UpCall : upcall[c] = NewCall
  BY DEF UpInit
<1>2. IsCall(NewCall)
  BY DEF IsCall, NewCall
<1>3. CallFits(NewCall)
  BY DEF CallFits, NewCall, UpPhases, Settled
<1> QED BY <1>1, <1>2, <1>3, UpAssumption DEF UpInit, UpInvariant

LEMMA CallGoes ==
  ASSUME UpInvariant, NEW c \in UpCall, NEW u, IsCall(u), CallFits(u), Go(c, u)
  PROVE  UpInvariant'
BY DEF UpInvariant, Go

LEMMA CallFails ==
  ASSUME UpInvariant, NEW c \in UpCall, Fail(c)
  PROVE  UpInvariant'
<1> DEFINE v == upcall[c]
           u == [v EXCEPT !.phase = "failed"]
<1>1. IsCall(v) /\ CallFits(v)
  BY DEF UpInvariant
<1> HIDE DEF v
<1>2. IsCall(u) /\ u.phase = "failed" /\ u.tls = v.tls /\ u.override = v.override
  BY <1>1 DEF IsCall
<1> HIDE DEF u
<1>3. CallFits(u)
  BY <1>1, <1>2 DEF CallFits, UpPhases, Settled
<1> QED BY <1>2, <1>3, CallGoes DEF Fail, u, v

LEMMA BackendChosen ==
  ASSUME UpInvariant, NEW c \in UpCall, NEW a \in Asks, Choose(c, a)
  PROVE  UpInvariant'
<1> DEFINE v == upcall[c]
           b == a.backend
           target == IF b.kind = "service" /\ ~ThroughGateway(b) THEN b.ip ELSE b.host
           u == [v EXCEPT !.phase = "chosen", !.backend = b, !.tls = a.tls,
                          !.override = a.override, !.target = target]
<1>1. IsCall(v) /\ CallFits(v) /\ v.phase = "new" /\ (Fail(c) \/ Go(c, u))
  BY DEF UpInvariant, Choose
<1> HIDE DEF v, b, target
<1>4. u = [v EXCEPT !.phase = "chosen", !.backend = b, !.tls = a.tls,
                    !.override = a.override, !.target = target]
  OBVIOUS
<1> HIDE DEF u
<1>2. /\ IsCall(u) /\ u.phase = "chosen" /\ u.tls = a.tls /\ u.override = a.override
      /\ u.cert = v.cert /\ u.read = v.read
  BY <1>1, <1>4 DEF IsCall
<1>3. CallFits(u)
  BY <1>1, <1>2, UpAssumption DEF CallFits, UpPhases, Settled
<1> QED BY <1>1, <1>2, <1>3, CallFails, CallGoes

LEMMA TransportBuilt ==
  ASSUME UpInvariant, NEW c \in UpCall, BuildTransport(c)
  PROVE  UpInvariant'
<1> DEFINE v == upcall[c]
           app == Application(c)
           t == IF v.backend.kind = "proxied" THEN [kind |-> "tunnel", app |-> app]
                ELSE Transport(c)
           u == [v EXCEPT !.phase = "built", !.transport = t]
<1>1. IsCall(v) /\ CallFits(v) /\ v.phase = "chosen" /\ Go(c, u)
  BY DEF UpInvariant, BuildTransport
<1>2. \/ app = Plain /\ v.tls = NoTlsPolicy
      \/ app # Plain /\ app.kind = "tls" /\ app.config.policy = v.tls
  BY DEF Application, ConfigFor, Plain
<1>3. \/ /\ t.kind \in {"direct", "tunnel", "hbone", "double"} /\ t.app = app
         /\ t.kind \in {"hbone", "double"} => t.id = v.backend.id
      \/ /\ t.kind = "direct" /\ app = Plain
         /\ t.app = [kind |-> "mesh", id |-> v.backend.id, madeFor |-> made[c]]
  <2> HIDE DEF app
  <2>1. CASE v.backend.kind = "proxied"
    BY <2>1
  <2>2. CASE v.backend.kind # "proxied"
    <3>1. t = Transport(c)
      BY <2>2
    <3> HIDE DEF t
    <3>2. \/ t = [kind |-> "direct", app |-> app]
          \/ t = [kind |-> "double", app |-> app, id |-> v.backend.id]
          \/ t = [kind |-> "hbone", app |-> app, id |-> v.backend.id]
          \/ /\ app = Plain
             /\ t = [kind |-> "direct",
                     app |-> [kind |-> "mesh", id |-> v.backend.id, madeFor |-> made[c]]]
      BY <3>1 DEF Transport, app
    <3> QED BY <3>2
  <2> QED BY <2>1, <2>2
<1> HIDE DEF v, app, t
<1>7. u = [v EXCEPT !.phase = "built", !.transport = t]
  OBVIOUS
<1> HIDE DEF u
<1>4. /\ IsCall(u) /\ u.phase = "built" /\ u.transport = t /\ u.tls = v.tls
      /\ u.override = v.override /\ u.backend = v.backend /\ u.cert = v.cert /\ u.read = v.read
  BY <1>1, <1>7 DEF IsCall
<1>5. TransportFits(u)
  BY <1>2, <1>3, <1>4 DEF TransportFits, Plain
<1>6. CallFits(u)
  BY <1>1, <1>4, <1>5 DEF CallFits, UpPhases, Settled
<1> QED BY <1>1, <1>4, <1>6, CallGoes

LEMMA TargetResolved ==
  ASSUME UpInvariant, NEW c \in UpCall, ResolveTarget(c)
  PROVE  UpInvariant'
<1> DEFINE v == upcall[c]
           u(ep) == [v EXCEPT !.phase = "resolved", !.ep = ep]
<1>1. IsCall(v) /\ CallFits(v) /\ v.phase = "built" /\ (Fail(c) \/ \E ep : Go(c, u(ep)))
  BY DEF UpInvariant, ResolveTarget
<1>2. ASSUME NEW ep  PROVE IsCall(u(ep)) /\ CallFits(u(ep))
  <2> HIDE DEF v
  <2> DEFINE w == u(ep)
  <2>4. w = [v EXCEPT !.phase = "resolved", !.ep = ep]
    OBVIOUS
  <2> HIDE DEF w
  <2>1. /\ IsCall(w) /\ w.phase = "resolved" /\ w.transport = v.transport /\ w.tls = v.tls
        /\ w.override = v.override /\ w.backend = v.backend /\ w.cert = v.cert /\ w.read = v.read
    BY <1>1, <2>4 DEF IsCall
  <2>2. TransportFits(w)
    BY <1>1, <2>1 DEF CallFits, TransportFits, Settled
  <2>3. CallFits(w)
    BY <1>1, <2>1, <2>2 DEF CallFits, UpPhases, Settled
  <2> QED BY <2>1, <2>3 DEF w
<1> HIDE DEF u
<1> QED BY <1>1, <1>2, CallFails, CallGoes

LEMMA IdleReused ==
  ASSUME UpInvariant, NEW c \in UpCall, ReuseIdle(c)
  PROVE  UpInvariant'
<1> DEFINE v == upcall[c]
           u(k) == [v EXCEPT !.phase = "ready", !.path = k.path, !.cert = k.cert,
                             !.shaken = k.shaken]
<1>1. PICK k \in idle :
        /\ k.key = PoolKey(c) /\ upcall' = [upcall EXCEPT ![c] = u(k)]
        /\ idle' = idle \ {k} /\ UNCHANGED <<caHas, timed, made>>
  BY DEF ReuseIdle
<1>2. /\ k.key.transport = v.transport /\ k.key.ep = v.ep /\ k.key.target = v.target
      /\ IsCall(v) /\ CallFits(v) /\ v.phase = "resolved"
      /\ k.path = PathOver(v.transport, v.ep, v.target)
      /\ VerifiedOver(v.transport, v.target, k.cert, k.shaken)
  BY <1>1 DEF PoolKey, UpInvariant, ReuseIdle
<1> DEFINE w == u(k)
<1>3. IsCall(w) /\ CallFits(w)
  <2> HIDE DEF v
  <2>6. w = [v EXCEPT !.phase = "ready", !.path = k.path, !.cert = k.cert, !.shaken = k.shaken]
    OBVIOUS
  <2> HIDE DEF w
  <2>1. /\ IsCall(w) /\ w.phase = "ready" /\ w.transport = v.transport /\ w.tls = v.tls
        /\ w.override = v.override /\ w.backend = v.backend /\ w.read = v.read
        /\ w.target = v.target /\ w.ep = v.ep
        /\ w.path = k.path /\ w.cert = k.cert /\ w.shaken = k.shaken
    BY <1>2, <2>6 DEF IsCall
  <2>2. TransportFits(w)
    BY <1>2, <2>1 DEF CallFits, TransportFits, Settled
  <2>3. w.path = PathOver(w.transport, w.ep, w.target)
        /\ VerifiedOver(w.transport, w.target, w.cert, w.shaken)
    BY <1>2, <2>1
  <2>4. \A i \in DOMAIN w.read : w.read[i] # "payload"
    BY <1>2, <2>1 DEF CallFits
  <2>5. CallFits(w)
    BY <1>2, <2>1, <2>2, <2>3, <2>4 DEF CallFits, UpPhases, Settled
  <2> QED BY <2>1, <2>5
<1> HIDE DEF w
<1>4. upcall' = [upcall EXCEPT ![c] = w]
  BY <1>1 DEF w
<1> QED BY <1>1, <1>3, <1>4 DEF UpInvariant

LEMMA GivenBack ==
  ASSUME UpInvariant, NEW c \in UpCall, GiveBack(c)
  PROVE  UpInvariant'
<1> DEFINE v == upcall[c]
           k == [key |-> PoolKey(c), path |-> v.path, cert |-> v.cert, shaken |-> v.shaken]
<1>1. /\ made' = [made EXCEPT ![c] = @ + 1] /\ made[c] < MaxCalls /\ idle' = idle \cup {k}
      /\ upcall' = [upcall EXCEPT ![c] = NewCall] /\ caHas' = caHas
      /\ CallFits(v) /\ v.phase = "ready"
  BY DEF GiveBack, UpInvariant
<1>2. /\ k.path = PathOver(k.key.transport, k.key.ep, k.key.target)
      /\ VerifiedOver(k.key.transport, k.key.target, k.cert, k.shaken)
  BY <1>1 DEF CallFits, PoolKey
<1>3. IsCall(NewCall) /\ CallFits(NewCall)
  BY DEF IsCall, NewCall, CallFits, UpPhases, Settled
<1>4. made' \in [UpCall -> 1..MaxCalls]
  BY <1>1, UpAssumption DEF UpInvariant
<1> HIDE DEF k
<1> QED BY <1>1, <1>2, <1>3, <1>4 DEF UpInvariant

(* What connecting leaves alone. *)
Keeps(u, v) ==
  /\ IsCall(u) /\ u.backend = v.backend /\ u.tls = v.tls /\ u.override = v.override
  /\ u.target = v.target /\ u.transport = v.transport /\ u.ep = v.ep

(* What every call that has its transport fits. *)
Equipped(u) ==
  /\ TransportFits(u) /\ u.tls \in {a.tls : a \in Asks} \cup {NoTlsPolicy}
  /\ u.override \in {"none", "h1", "h2"}

LEMMA TransportKept ==
  ASSUME NEW v, CallFits(v), v.phase \notin {"new", "chosen", "failed"}, NEW u, Keeps(u, v)
  PROVE  Equipped(u)
BY DEF CallFits, TransportFits, Keeps, Equipped

LEMMA AnswersArePieces == ProxyAnswers \subseteq Seq(Pieces)
<1>1. <<"status", "end">> \in Seq(Pieces) /\ <<"status">> \in Seq(Pieces)
  BY DEF Pieces
<1>2. <<"half", "half", "end">> \in Seq(Pieces) /\ <<"refused">> \in Seq(Pieces)
  BY DEF Pieces
<1>3. <<"status", "end", "payload">> \in Seq(Pieces)
  BY DEF Pieces
<1> QED BY <1>1, <1>2, <1>3 DEF ProxyAnswers

(* No answer has the far end's bytes before its empty line. *)
LEMMA EndBeforePayload ==
  ASSUME NEW a \in ProxyAnswers, NEW j \in 1..Len(a), a[j] = "end", NEW i \in 1..j
  PROVE  a[i] # "payload"
<1>1. CASE a = <<"status", "end">>
  BY <1>1
<1>2. CASE a = <<"status">>
  BY <1>2
<1>3. CASE a = <<"half", "half", "end">>
  BY <1>3
<1>4. CASE a = <<"refused">>
  BY <1>4
<1>5. CASE a = <<"status", "end", "payload">>
  BY <1>5
<1> QED BY <1>1, <1>2, <1>3, <1>4, <1>5 DEF ProxyAnswers

(* Reading on leaves what was read and what was not one answer. *)
LEMMA AnswerRead ==
  ASSUME NEW r, NEW w, Answering(r, w), NEW n \in 1..Len(w)
  PROVE  LET heard == r \o SubSeq(w, 1, n)
             rest == SubSeq(w, n + 1, Len(w))
         IN  /\ Answering(heard, rest)
             /\ heard[Len(heard)] = "end" => \A i \in DOMAIN heard : heard[i] # "payload"
<1> DEFINE first == SubSeq(w, 1, n)
           heard == r \o first
           rest == SubSeq(w, n + 1, Len(w))
<1>1. PICK a \in ProxyAnswers :
        /\ Len(a) = Len(r) + Len(w)
        /\ \A i \in 1..Len(r) : r[i] = a[i]
        /\ \A i \in 1..Len(w) : w[i] = a[Len(r) + i]
  BY DEF Answering
<1>2. /\ r \in Seq(Pieces) /\ w \in Seq(Pieces) /\ a \in Seq(Pieces)
      /\ Len(r) \in Nat /\ Len(w) \in Nat /\ n \in Nat /\ 1 <= n /\ n <= Len(w)
  BY AnswersArePieces DEF Answering
<1>3. /\ first \in Seq(Pieces) /\ Len(first) = n
      /\ \A i \in 1..n : first[i] = w[i]
  BY <1>2, SubSeqProperties
<1>4. /\ rest \in Seq(Pieces) /\ Len(rest) = Len(w) - n
      /\ \A i \in 1..(Len(w) - n) : rest[i] = w[n + i]
  BY <1>2, SubSeqProperties
<1> HIDE DEF first, rest
<1>5. /\ heard \in Seq(Pieces) /\ Len(heard) = Len(r) + n
      /\ \A i \in 1..(Len(r) + n) : heard[i] = IF i <= Len(r) THEN r[i] ELSE first[i - Len(r)]
  BY <1>2, <1>3, ConcatProperties
<1> HIDE DEF heard
<1>6. ASSUME NEW i \in 1..Len(heard)  PROVE heard[i] = a[i]
  <2>1. CASE i <= Len(r)
    BY SMTT(60), <1>1, <1>2, <1>5, <2>1
  <2>2. CASE i > Len(r)
    <3>1. i - Len(r) \in 1..n /\ i - Len(r) \in 1..Len(w) /\ Len(r) + (i - Len(r)) = i
      BY SMTT(60), <1>2, <1>5, <2>2
    <3>2. heard[i] = first[i - Len(r)]
      BY <1>2, <1>5, <2>2
    <3>3. first[i - Len(r)] = w[i - Len(r)]
      BY <1>3, <3>1
    <3>4. w[i - Len(r)] = a[Len(r) + (i - Len(r))]
      BY <1>1, <3>1
    <3> QED BY <3>1, <3>2, <3>3, <3>4
  <2> QED BY <1>2, <1>5, <2>1, <2>2
<1>7. ASSUME NEW i \in 1..Len(rest)  PROVE rest[i] = a[Len(heard) + i]
  <2>1. n + i \in 1..Len(w) /\ Len(r) + (n + i) = Len(heard) + i
    BY <1>2, <1>4, <1>5
  <2> QED BY <1>1, <1>4, <2>1
<1>8. Len(a) = Len(heard) + Len(rest)
  BY <1>1, <1>2, <1>4, <1>5
<1>9. Answering(heard, rest)
  BY <1>4, <1>5, <1>6, <1>7, <1>8 DEF Answering
<1>10. ASSUME heard[Len(heard)] = "end", NEW i \in DOMAIN heard  PROVE heard[i] # "payload"
  <2>1. Len(heard) \in 1..Len(a) /\ i \in 1..Len(heard) /\ Len(heard) \in 1..Len(heard)
    BY <1>2, <1>4, <1>5, <1>8, <1>10
  <2> QED BY <1>6, <1>10, <2>1, EndBeforePayload
<1> QED BY <1>9, <1>10 DEF heard, first, rest

LEMMA NothingRead == \A i \in DOMAIN <<>> : <<>>[i] # "payload"
OBVIOUS

LEMMA TunnelFits ==
  ASSUME NEW u, u.phase = "tunnel", Equipped(u), u.cert = NoConnection,
         u.transport.kind = "tunnel", u.path = <<Hop("dial", "proxy")>>,
         Answering(u.read, u.unread)
  PROVE  CallFits(u)
BY DEF CallFits, Equipped, UpPhases, Settled

LEMMA OuterFits ==
  ASSUME NEW u, u.phase \in {"outer", "certificate"}, Equipped(u), u.cert = NoConnection,
         u.read = <<>>, u.transport.kind = "double",
         u.path = <<Hop("tunnel", "gateway"), Hop("connect", u.target)>>
  PROVE  CallFits(u)
BY DEF CallFits, Equipped, UpPhases, Settled

LEMMA InnerFits ==
  ASSUME NEW u, u.phase = "inner", Equipped(u), u.cert = NoConnection,
         u.read = <<>>, u.transport.kind = "double",
         u.path = <<Hop("tunnel", "gateway"), Hop("connect", u.target),
                    Hop("tunnel", u.transport.id)>>
  PROVE  CallFits(u)
BY DEF CallFits, Equipped, UpPhases, Settled

LEMMA CarriedFits ==
  ASSUME NEW u, u.phase = "carried", Equipped(u), u.cert = NoConnection,
         u.path = PathOver(u.transport, u.ep, u.target),
         \A i \in DOMAIN u.read : u.read[i] # "payload"
  PROVE  CallFits(u)
BY DEF CallFits, Equipped, UpPhases, Settled

LEMMA ReadyFits ==
  ASSUME NEW u, u.phase = "ready", Equipped(u),
         u.path = PathOver(u.transport, u.ep, u.target),
         \A i \in DOMAIN u.read : u.read[i] # "payload",
         VerifiedOver(u.transport, u.target, u.cert, u.shaken)
  PROVE  CallFits(u)
BY DEF CallFits, Equipped, UpPhases, Settled

LEMMA ConnectionDialled ==
  ASSUME UpInvariant, NEW c \in UpCall, Dial(c)
  PROVE  UpInvariant'
<1> DEFINE v == upcall[c]
           direct == [v EXCEPT !.phase = "carried", !.path = <<Hop("dial", v.ep)>>]
           asked(answer) == [v EXCEPT !.phase = "tunnel", !.path = <<Hop("dial", "proxy")>>,
                                       !.unread = answer]
           hbone == [v EXCEPT !.phase = "carried",
                              !.path = <<Hop("tunnel", v.transport.id), Hop("connect", v.ep)>>]
           double == [v EXCEPT !.phase = "outer",
                               !.path = <<Hop("tunnel", "gateway"), Hop("connect", v.target)>>]
<1>1. /\ IsCall(v) /\ CallFits(v) /\ v.phase = "resolved" /\ TransportFits(v)
      /\ v.cert = NoConnection /\ v.read = <<>>
  BY DEF UpInvariant, Dial, CallFits, Settled
<1>2. \/ Fail(c)
      \/ v.transport.kind = "direct" /\ Go(c, direct)
      \/ v.transport.kind = "tunnel" /\ \E answer \in ProxyAnswers : Go(c, asked(answer))
      \/ v.transport.kind = "hbone" /\ Go(c, hbone)
      \/ v.transport.kind = "double" /\ Go(c, double)
  BY <1>1 DEF Dial, TransportFits
<1> HIDE DEF v
<1>3. ASSUME v.transport.kind = "direct"  PROVE IsCall(direct) /\ CallFits(direct)
  <2> DEFINE u == direct
  <2>1. u = [v EXCEPT !.phase = "carried", !.path = <<Hop("dial", v.ep)>>]
    OBVIOUS
  <2> HIDE DEF u
  <2>2. /\ Keeps(u, v) /\ u.phase = "carried" /\ u.path = <<Hop("dial", v.ep)>>
        /\ u.cert = v.cert /\ u.read = v.read
    BY <1>1, <2>1 DEF IsCall, Keeps
  <2>3. u.path = PathOver(u.transport, u.ep, u.target)
    BY <1>3, <2>2 DEF PathOver, Keeps
  <2>5. Equipped(u)
    BY <1>1, <2>2, TransportKept
  <2>6. \A i \in DOMAIN u.read : u.read[i] # "payload"
    BY <1>1, <2>2, NothingRead
  <2>4. CallFits(u)
    BY <1>1, <2>2, <2>3, <2>5, <2>6, CarriedFits
  <2> QED BY <2>2, <2>4 DEF Keeps, u
<1>4. ASSUME v.transport.kind = "tunnel", NEW answer \in ProxyAnswers
      PROVE  IsCall(asked(answer)) /\ CallFits(asked(answer))
  <2> DEFINE u == asked(answer)
  <2>1. u = [v EXCEPT !.phase = "tunnel", !.path = <<Hop("dial", "proxy")>>, !.unread = answer]
    OBVIOUS
  <2> HIDE DEF u
  <2>2. /\ Keeps(u, v) /\ u.phase = "tunnel" /\ u.path = <<Hop("dial", "proxy")>>
        /\ u.cert = v.cert /\ u.read = v.read /\ u.unread = answer
    BY <1>1, <2>1 DEF IsCall, Keeps
  <2>3. Answering(<<>>, answer)
    <3>3. answer \in Seq(Pieces)
      BY AnswersArePieces
    <3>1. answer \in Seq(Pieces) /\ <<>> \in Seq(Pieces) /\ Len(<<>>) = 0
      BY <3>3
    <3>2. Len(answer) \in Nat /\ Len(answer) = 0 + Len(answer)
      BY <3>1
    <3> QED BY <3>1, <3>2 DEF Answering
  <2>5. Equipped(u) /\ u.transport.kind = "tunnel"
    BY <1>1, <1>4, <2>2, TransportKept DEF Keeps
  <2>4. CallFits(u)
    BY <1>1, <2>2, <2>3, <2>5, TunnelFits
  <2> QED BY <2>2, <2>4 DEF Keeps, u
<1>5. ASSUME v.transport.kind = "hbone"  PROVE IsCall(hbone) /\ CallFits(hbone)
  <2> DEFINE u == hbone
  <2>1. u = [v EXCEPT !.phase = "carried",
                      !.path = <<Hop("tunnel", v.transport.id), Hop("connect", v.ep)>>]
    OBVIOUS
  <2> HIDE DEF u
  <2>2. /\ Keeps(u, v) /\ u.phase = "carried" /\ u.cert = v.cert /\ u.read = v.read
        /\ u.path = <<Hop("tunnel", v.transport.id), Hop("connect", v.ep)>>
    BY <1>1, <2>1 DEF IsCall, Keeps
  <2>3. u.path = PathOver(u.transport, u.ep, u.target)
    BY <1>5, <2>2 DEF PathOver, Keeps
  <2>5. Equipped(u)
    BY <1>1, <2>2, TransportKept
  <2>6. \A i \in DOMAIN u.read : u.read[i] # "payload"
    BY <1>1, <2>2, NothingRead
  <2>4. CallFits(u)
    BY <1>1, <2>2, <2>3, <2>5, <2>6, CarriedFits
  <2> QED BY <2>2, <2>4 DEF Keeps, u
<1>6. ASSUME v.transport.kind = "double"  PROVE IsCall(double) /\ CallFits(double)
  <2> DEFINE u == double
  <2>1. u = [v EXCEPT !.phase = "outer",
                      !.path = <<Hop("tunnel", "gateway"), Hop("connect", v.target)>>]
    OBVIOUS
  <2> HIDE DEF u
  <2>2. /\ Keeps(u, v) /\ u.phase = "outer" /\ u.cert = v.cert /\ u.read = v.read
        /\ u.path = <<Hop("tunnel", "gateway"), Hop("connect", v.target)>>
    BY <1>1, <2>1 DEF IsCall, Keeps
  <2>4. Equipped(u) /\ u.transport.kind = "double" /\ u.target = v.target
    BY <1>1, <1>6, <2>2, TransportKept DEF Keeps
  <2>3. CallFits(u)
    BY <1>1, <2>2, <2>4, OuterFits
  <2> QED BY <2>2, <2>3 DEF Keeps, u
<1> HIDE DEF direct, asked, hbone, double
<1> QED BY <1>2, <1>3, <1>4, <1>5, <1>6, CallFails, CallGoes

LEMMA InsideTunnels ==
  ASSUME UpInvariant, NEW c \in UpCall, FetchCertificate(c) \/ InnerTls(c) \/ InnerConnect(c)
  PROVE  UpInvariant'
<1> DEFINE v == upcall[c]
           fetched == [v EXCEPT !.phase = "certificate"]
           inner == [v EXCEPT !.phase = "inner",
                              !.path = Append(v.path, Hop("tunnel", v.transport.id))]
           carried == [v EXCEPT !.phase = "carried",
                                !.path = Append(v.path, Hop("connect", v.target))]
<1>1. IsCall(v) /\ CallFits(v)
  BY DEF UpInvariant
<1>2. \/ Fail(c)
      \/ v.phase = "outer" /\ Go(c, fetched)
      \/ v.phase = "certificate" /\ Go(c, inner)
      \/ v.phase = "inner" /\ Go(c, carried)
  BY DEF FetchCertificate, InnerTls, InnerConnect
<1> HIDE DEF v
<1>3. ASSUME v.phase = "outer"  PROVE IsCall(fetched) /\ CallFits(fetched)
  <2> DEFINE u == fetched
  <2>1. u = [v EXCEPT !.phase = "certificate"]
    OBVIOUS
  <2> HIDE DEF u
  <2>2. /\ Keeps(u, v) /\ u.phase = "certificate" /\ u.cert = v.cert /\ u.read = v.read
        /\ u.path = v.path
    BY <1>1, <2>1 DEF IsCall, Keeps
  <2>4. Equipped(u) /\ u.target = v.target /\ u.transport = v.transport
    BY <1>1, <1>3, <2>2, TransportKept DEF Keeps
  <2>5. /\ v.transport.kind = "double" /\ v.cert = NoConnection /\ v.read = <<>>
        /\ v.path = <<Hop("tunnel", "gateway"), Hop("connect", v.target)>>
    BY <1>1, <1>3 DEF CallFits, Settled
  <2>3. CallFits(u)
    BY <2>2, <2>4, <2>5, OuterFits
  <2> QED BY <2>2, <2>3 DEF Keeps, u
<1>4. ASSUME v.phase = "certificate"  PROVE IsCall(inner) /\ CallFits(inner)
  <2> DEFINE u == inner
             path == Append(v.path, Hop("tunnel", v.transport.id))
  <2>1. u = [v EXCEPT !.phase = "inner", !.path = path]
    OBVIOUS
  <2>2. path = <<Hop("tunnel", "gateway"), Hop("connect", v.target),
                 Hop("tunnel", v.transport.id)>>
    <3>1. v.path = <<Hop("tunnel", "gateway"), Hop("connect", v.target)>>
      BY <1>1, <1>4 DEF CallFits
    <3> QED BY <3>1, ThirdHop
  <2> HIDE DEF u, path
  <2>3. /\ Keeps(u, v) /\ u.phase = "inner" /\ u.cert = v.cert /\ u.read = v.read
        /\ u.path = path
    BY <1>1, <2>1 DEF IsCall, Keeps
  <2>5. Equipped(u) /\ u.target = v.target /\ u.transport = v.transport
    BY <1>1, <1>4, <2>3, TransportKept DEF Keeps
  <2>6. v.transport.kind = "double" /\ v.cert = NoConnection /\ v.read = <<>>
    BY <1>1, <1>4 DEF CallFits, Settled
  <2>4. CallFits(u)
    BY <2>2, <2>3, <2>5, <2>6, InnerFits
  <2> QED BY <2>3, <2>4 DEF Keeps, u, path
<1>5. ASSUME v.phase = "inner"  PROVE IsCall(carried) /\ CallFits(carried)
  <2> DEFINE u == carried
             path == Append(v.path, Hop("connect", v.target))
  <2>1. u = [v EXCEPT !.phase = "carried", !.path = path]
    OBVIOUS
  <2>2. path = <<Hop("tunnel", "gateway"), Hop("connect", v.target),
                 Hop("tunnel", v.transport.id), Hop("connect", v.target)>>
    <3>1. v.path = <<Hop("tunnel", "gateway"), Hop("connect", v.target),
                     Hop("tunnel", v.transport.id)>>
      BY <1>1, <1>5 DEF CallFits
    <3> QED BY <3>1, FourthHop
  <2> HIDE DEF u, path
  <2>3. /\ Keeps(u, v) /\ u.phase = "carried" /\ u.cert = v.cert /\ u.read = v.read
        /\ u.path = path
    BY <1>1, <2>1 DEF IsCall, Keeps
  <2>4. u.path = PathOver(u.transport, u.ep, u.target)
    BY <1>1, <1>5, <2>2, <2>3 DEF PathOver, Keeps, CallFits
  <2>6. Equipped(u)
    BY <1>1, <1>5, <2>3, TransportKept
  <2>7. v.cert = NoConnection /\ v.read = <<>>
    BY <1>1, <1>5 DEF CallFits, Settled
  <2>8. \A i \in DOMAIN u.read : u.read[i] # "payload"
    BY <2>3, <2>7, NothingRead
  <2>5. CallFits(u)
    BY <2>3, <2>4, <2>6, <2>7, <2>8, CarriedFits
  <2> QED BY <2>3, <2>5 DEF Keeps, u, path
<1> HIDE DEF fetched, inner, carried
<1> QED BY <1>2, <1>3, <1>4, <1>5, CallFails, CallGoes

LEMMA ProxyAnswered ==
  ASSUME UpInvariant, NEW c \in UpCall, TunnelAnswer(c)
  PROVE  UpInvariant'
<1> DEFINE v == upcall[c]
           heard(n) == v.read \o SubSeq(v.unread, 1, n)
           rest(n) == SubSeq(v.unread, n + 1, Len(v.unread))
           path == Append(v.path, Hop("connect", v.target))
           open(n) == [v EXCEPT !.phase = "carried", !.read = heard(n), !.unread = rest(n),
                                !.path = path]
           more(n) == [v EXCEPT !.read = heard(n), !.unread = rest(n)]
<1>1. IsCall(v) /\ CallFits(v) /\ v.phase = "tunnel"
  BY DEF UpInvariant, TunnelAnswer
<1>2. \/ Fail(c)
      \/ \E n \in 1..Len(v.unread) : \/ heard(n)[Len(heard(n))] = "end" /\ Go(c, open(n))
                                    \/ Go(c, more(n))
  BY DEF TunnelAnswer, ReadAnswer
<1> HIDE DEF v
<1>3. /\ v.cert = NoConnection /\ v.transport.kind = "tunnel"
      /\ v.path = <<Hop("dial", "proxy")>> /\ Answering(v.read, v.unread)
  BY <1>1 DEF CallFits, Settled
<1>4. ASSUME NEW n \in 1..Len(v.unread)
      PROVE  /\ Answering(heard(n), rest(n))
             /\ heard(n)[Len(heard(n))] = "end" => \A i \in DOMAIN heard(n) : heard(n)[i] # "payload"
  BY <1>3, AnswerRead
<1>5. path = <<Hop("dial", "proxy"), Hop("connect", v.target)>>
  BY <1>3, SecondHop
<1> HIDE DEF heard, rest, path
<1>6. ASSUME NEW n \in 1..Len(v.unread), heard(n)[Len(heard(n))] = "end"
      PROVE  IsCall(open(n)) /\ CallFits(open(n))
  <2> DEFINE u == open(n)
  <2>1. u = [v EXCEPT !.phase = "carried", !.read = heard(n), !.unread = rest(n), !.path = path]
    OBVIOUS
  <2> HIDE DEF u
  <2>2. /\ Keeps(u, v) /\ u.phase = "carried" /\ u.cert = v.cert /\ u.read = heard(n)
        /\ u.path = path
    BY <1>1, <2>1 DEF IsCall, Keeps
  <2>3. Equipped(u)
    BY <1>1, <2>2, TransportKept
  <2>4. u.path = PathOver(u.transport, u.ep, u.target)
    BY <1>3, <1>5, <2>2 DEF PathOver, Keeps
  <2>5. \A i \in DOMAIN u.read : u.read[i] # "payload"
    BY <1>4, <1>6, <2>2
  <2>6. CallFits(u)
    BY <1>3, <2>2, <2>3, <2>4, <2>5, CarriedFits
  <2> QED BY <2>2, <2>6 DEF Keeps, u
<1>7. ASSUME NEW n \in 1..Len(v.unread)  PROVE IsCall(more(n)) /\ CallFits(more(n))
  <2> DEFINE u == more(n)
  <2>1. u = [v EXCEPT !.read = heard(n), !.unread = rest(n)]
    OBVIOUS
  <2> HIDE DEF u
  <2>2. /\ Keeps(u, v) /\ u.phase = "tunnel" /\ u.cert = v.cert /\ u.read = heard(n)
        /\ u.unread = rest(n) /\ u.path = v.path
    BY <1>1, <2>1 DEF IsCall, Keeps
  <2>3. Equipped(u) /\ u.transport.kind = "tunnel"
    BY <1>1, <1>3, <2>2, TransportKept DEF Keeps
  <2>4. Answering(u.read, u.unread)
    BY <1>4, <2>2
  <2>5. CallFits(u)
    BY <1>3, <2>2, <2>3, <2>4, TunnelFits
  <2> QED BY <2>2, <2>5 DEF Keeps, u
<1> HIDE DEF open, more
<1> QED BY <1>2, <1>6, <1>7, CallFails, CallGoes

LEMMA NoPolicyNoHost == NoTlsPolicy.host = ""
BY DEF NoTlsPolicy

(* What the verifier of a transport accepts, told from the transport alone. *)
LEMMA VerifiedByTransport ==
  ASSUME NEW c \in UpCall, NEW cert, cert # NoConnection,
         TransportFits(upcall[c]), upcall[c].transport.app # Plain
  PROVE  \A s : s.name = ServerName(c) =>
           (Verified(c, cert) <=>
              VerifiedOver(upcall[c].transport, upcall[c].target, cert, s))
<1> DEFINE v == upcall[c]
<1> SUFFICES ASSUME NEW s, s.name = ServerName(c)
             PROVE  Verified(c, cert) <=> VerifiedOver(v.transport, v.target, cert, s)
  OBVIOUS
<1>1. \/ v.transport.app.kind = "mesh" /\ v.tls = NoTlsPolicy
      \/ v.transport.app.kind = "tls" /\ v.transport.app.config.policy = v.tls
  BY DEF TransportFits
<1>2. CASE v.transport.app.kind = "mesh" /\ v.tls = NoTlsPolicy
  <2>1. s.name = v.target
    BY <1>2, NoPolicyNoHost DEF ServerName
  <2>2. Verified(c, cert) <=> cert.chain /\ v.transport.app.id \in cert.names
    BY <1>2 DEF Verified
  <2> QED BY <1>2, <2>1, <2>2 DEF VerifiedOver
<1>3. CASE v.transport.app.kind = "tls" /\ v.transport.app.config.policy = v.tls
  <2>1. s.name = NameFor(v.tls, v.target)
    BY DEF ServerName, NameFor
  <2>2. Verified(c, cert) <=> PolicyVerifies(v.tls, v.target, cert)
    <3> DEFINE way == VerifierOf(v.tls)
               name == ServerName(c)
    <3>1. v.transport.app.kind # "mesh" /\ name = NameFor(v.tls, v.target)
      BY <1>3 DEF ServerName, NameFor
    <3> HIDE DEF way, name
    <3>2. Verified(c, cert) <=> CASE way = "none" -> TRUE
                                 [] way = "anyHost" -> cert.chain
                                 [] way = "alts" -> cert.chain /\ v.tls.alts \cap cert.names # {}
                                 [] OTHER -> cert.chain /\ name \in cert.names
      BY <3>1 DEF Verified, way, name
    <3>3. PolicyVerifies(v.tls, v.target, cert)
            <=> CASE way = "none" -> TRUE
                  [] way = "anyHost" -> cert.chain
                  [] way = "alts" -> cert.chain /\ v.tls.alts \cap cert.names # {}
                  [] OTHER -> cert.chain /\ name \in cert.names
      BY <3>1 DEF PolicyVerifies, way
    <3> QED BY <3>2, <3>3
  <2> QED BY <1>3, <2>1, <2>2 DEF VerifiedOver
<1> QED BY <1>1, <1>2, <1>3

LEMMA TlsDone ==
  ASSUME UpInvariant, NEW c \in UpCall, ApplicationTls(c)
  PROVE  UpInvariant'
<1> DEFINE v == upcall[c]
           plain == [v EXCEPT !.phase = "ready"]
           name == ServerName(c)
           s == [app |-> v.transport.app, name |-> name]
           shown(cert) == [v EXCEPT !.phase = "ready", !.cert = cert, !.shaken = s]
<1>1. IsCall(v) /\ CallFits(v) /\ v.phase = "carried" /\ TransportFits(v)
  BY DEF UpInvariant, ApplicationTls, CallFits
<1>2. \/ Fail(c)
      \/ v.transport.app = Plain /\ Go(c, plain)
      \/ v.transport.app # Plain
         /\ \E cert \in ServerCerts : Verified(c, cert) /\ Go(c, shown(cert))
  BY DEF ApplicationTls
<1>3. ASSUME v.transport.app # Plain, NEW cert \in ServerCerts, Verified(c, cert)
      PROVE  VerifiedOver(v.transport, v.target, cert, s)
  BY <1>1, <1>3, VerifiedByTransport, UpAssumption
<1> HIDE DEF v, s, name
<1>4. /\ v.cert = NoConnection /\ v.path = PathOver(v.transport, v.ep, v.target)
      /\ \A i \in DOMAIN v.read : v.read[i] # "payload"
  BY <1>1 DEF CallFits, Settled
<1>5. ASSUME v.transport.app = Plain  PROVE IsCall(plain) /\ CallFits(plain)
  <2> DEFINE u == plain
  <2>1. u = [v EXCEPT !.phase = "ready"]
    OBVIOUS
  <2> HIDE DEF u
  <2>2. /\ Keeps(u, v) /\ u.phase = "ready" /\ u.cert = v.cert /\ u.read = v.read
        /\ u.path = v.path
    BY <1>1, <2>1 DEF IsCall, Keeps
  <2>3. Equipped(u)
    BY <1>1, <2>2, TransportKept
  <2>4. /\ u.path = PathOver(u.transport, u.ep, u.target)
        /\ \A i \in DOMAIN u.read : u.read[i] # "payload"
        /\ VerifiedOver(u.transport, u.target, u.cert, u.shaken)
    BY <1>4, <1>5, <2>2 DEF Keeps, VerifiedOver
  <2>5. CallFits(u)
    BY <2>2, <2>3, <2>4, ReadyFits
  <2> QED BY <2>2, <2>5 DEF Keeps, u
<1>6. ASSUME v.transport.app # Plain, NEW cert \in ServerCerts, Verified(c, cert)
      PROVE  IsCall(shown(cert)) /\ CallFits(shown(cert))
  <2> DEFINE u == shown(cert)
  <2>1. u = [v EXCEPT !.phase = "ready", !.cert = cert, !.shaken = s]
    OBVIOUS
  <2> HIDE DEF u
  <2>2. /\ Keeps(u, v) /\ u.phase = "ready" /\ u.cert = cert /\ u.read = v.read
        /\ u.path = v.path /\ u.shaken = s
    BY <1>1, <2>1 DEF IsCall, Keeps
  <2>3. Equipped(u)
    BY <1>1, <2>2, TransportKept
  <2>4. /\ u.path = PathOver(u.transport, u.ep, u.target)
        /\ \A i \in DOMAIN u.read : u.read[i] # "payload"
        /\ VerifiedOver(u.transport, u.target, u.cert, u.shaken)
    BY <1>3, <1>4, <1>6, <2>2 DEF Keeps
  <2>5. CallFits(u)
    BY <2>2, <2>3, <2>4, ReadyFits
  <2> QED BY <2>2, <2>5 DEF Keeps, u
<1> HIDE DEF plain, shown
<1> QED BY <1>2, <1>5, <1>6, CallFails, CallGoes

LEMMA UpSteps == UpInvariant /\ [UpNext]_upVars => UpInvariant'
<1> SUFFICES ASSUME UpInvariant, [UpNext]_upVars  PROVE UpInvariant'
  OBVIOUS
<1>1. CASE CaChanges
  BY <1>1 DEF CaChanges, UpInvariant
<1>2. ASSUME NEW c \in UpCall, UpStep(c)  PROVE UpInvariant'
  BY <1>2, TransportBuilt, TargetResolved, IdleReused, ConnectionDialled, ProxyAnswered,
     InsideTunnels, TlsDone DEF UpStep
<1>3. ASSUME NEW c \in UpCall, GiveBack(c)  PROVE UpInvariant'
  BY <1>3, GivenBack
<1>4. ASSUME NEW c \in UpCall, TimesOut(c)  PROVE UpInvariant'
  BY <1>4, CallFails DEF TimesOut
<1>5. ASSUME NEW c \in UpCall, NEW a \in Asks, Choose(c, a)  PROVE UpInvariant'
  BY <1>5, BackendChosen
<1>6. CASE UNCHANGED upVars
  BY <1>6 DEF upVars, UpInvariant
<1> QED BY <1>1, <1>2, <1>3, <1>4, <1>5, <1>6 DEF UpNext

LEMMA UpInvariantSuffices == UpInvariant => UpstreamsConsistent
<1> SUFFICES ASSUME UpInvariant  PROVE UpstreamsConsistent
  OBVIOUS
<1>1. UpTypeOK
  BY DEF UpInvariant, UpTypeOK, CallFits
<1>2. GoesWhereAsked
  <2> SUFFICES ASSUME NEW c \in UpCall, upcall[c].phase = "ready"
               PROVE  upcall[c].path = ExpectedPath(c)
    BY DEF GoesWhereAsked
  <2>1. /\ upcall[c].path = PathOver(upcall[c].transport, upcall[c].ep, upcall[c].target)
        /\ TransportFits(upcall[c])
    BY DEF UpInvariant, CallFits
  <2>2. upcall[c].transport.kind \in {"direct", "tunnel", "hbone", "double"}
    BY <2>1 DEF TransportFits
  <2>3. CASE upcall[c].transport.kind = "direct"
    BY <2>1, <2>3 DEF PathOver, ExpectedPath
  <2>4. CASE upcall[c].transport.kind = "tunnel"
    BY <2>1, <2>4 DEF PathOver, ExpectedPath
  <2>5. CASE upcall[c].transport.kind = "hbone"
    BY <2>1, <2>5 DEF TransportFits, PathOver, ExpectedPath
  <2>6. CASE upcall[c].transport.kind = "double"
    BY <2>1, <2>6 DEF TransportFits, PathOver, ExpectedPath
  <2> QED BY <2>2, <2>3, <2>4, <2>5, <2>6
<1>3. VerifiedAsAsked
  <2> SUFFICES ASSUME NEW c \in UpCall, upcall[c].phase = "ready"
               PROVE  IF upcall[c].transport.app = Plain
                      THEN upcall[c].tls = NoTlsPolicy /\ upcall[c].cert = NoConnection
                      ELSE /\ upcall[c].cert # NoConnection /\ Verified(c, upcall[c].cert)
                           /\ upcall[c].shaken.name = ServerName(c)
    BY DEF VerifiedAsAsked
  <2>1. /\ TransportFits(upcall[c])
        /\ VerifiedOver(upcall[c].transport, upcall[c].target, upcall[c].cert,
                        upcall[c].shaken)
    BY DEF UpInvariant, CallFits
  <2>2. CASE upcall[c].transport.app = Plain
    BY <2>1, <2>2 DEF TransportFits, VerifiedOver
  <2>3. CASE upcall[c].transport.app # Plain
    <3>1. upcall[c].cert # NoConnection /\ upcall[c].shaken.name = ServerName(c)
      <4>1. CASE upcall[c].transport.app.kind = "mesh" /\ upcall[c].tls = NoTlsPolicy
        BY <2>1, <2>3, <4>1, NoPolicyNoHost DEF VerifiedOver, ServerName
      <4>2. CASE /\ upcall[c].transport.app.kind = "tls"
                 /\ upcall[c].transport.app.config.policy = upcall[c].tls
        BY <2>1, <2>3, <4>2 DEF VerifiedOver, NameFor, ServerName
      <4> QED BY <2>1, <2>3, <4>1, <4>2 DEF TransportFits
    <3> QED BY <2>1, <2>3, <3>1, VerifiedByTransport
  <2> QED BY <2>2, <2>3
<1>4. TunnelEndsExactly
  BY DEF UpInvariant, CallFits, TunnelEndsExactly
<1> QED BY <1>1, <1>2, <1>3, <1>4 DEF UpstreamsConsistent

(* Every call to a backend, on a connection of its own or on a pooled one, *)
(* goes along the path of its transport, with the peer's certificate       *)
(* verified as its policy asks.                                            *)
THEOREM UpstreamsStayConsistent == UpSpec => []UpstreamsConsistent
BY UpStarts, UpSteps, UpInvariantSuffices, PTL DEF UpSpec

-----------------------------------------------------------------------------
(* The bytes of a copy (Relay).                                            *)

LEMMA OtherEnd ==
  /\ \A e \in End : Other(e) \in End /\ Other(e) # e /\ Other(Other(e)) = e
  /\ \A e, d \in End : d # e => Other(d) = e /\ Other(e) = d
BY DEF End, Other


(* Every part of the state of a copy, as functions and records. *)
RelayTyped ==
  /\ kindOf \in [End -> {"tcp", "h2", "rw"}]
  /\ peer \in [End -> [sent : Nat, fin : BOOLEAN, gone : {"no", "reset", "cancel", "fault"}]]
  /\ taken \in [End -> Nat] /\ frame \in [End -> Seq(Nat)] /\ got \in [End -> Seq(Nat)]
  /\ flow \in [End -> [phase : {"copy", "shutdown", "done"}, buf : Seq(Nat), amt : Nat,
                       size : 1..3, res : {"ok", "error", "disconnected", "closing"}]]
  /\ shut \subseteq End
  /\ outcome \in {"running", "ok", "error", "disconnected", "closing"}

(* The first t bytes are those written, those of the buffer, those of the frame. *)
Carried(g, b, f, t) ==
  /\ Numbered(b, Len(g)) /\ Numbered(f, Len(g) + Len(b))
  /\ Len(g) + Len(b) + Len(f) = t

(* What left a socket was written, is in the buffer or in a frame, in this *)
(* order; only an RWStream has a frame.                                    *)
BytesHeld ==
  \A e \in End :
    /\ Numbered(got[Other(e)], 0)
    /\ flow[e].phase = "copy" => Carried(got[Other(e)], flow[e].buf, frame[e], taken[e])
    /\ kindOf[e] # "rw" => frame[e] = <<>>
    /\ taken[e] <= peer[e].sent

(* Between peers that are both there a direction stops at the end of what  *)
(* was sent; an error has a peer that went away.                           *)
StopsExplained ==
  \A e \in End :
    /\ flow[e].phase # "copy" /\ peer[e].gone = "no" /\ peer[Other(e)].gone = "no" =>
         peer[e].fin /\ Len(got[Other(e)]) = peer[e].sent
    /\ Other(e) \in shut => flow[e].phase = "done"
    /\ flow[e].res # "ok" => \E d \in End : peer[d].gone # "no"

OutcomeSettled ==
  outcome # "running" =>
    /\ \A e \in End : flow[e].phase = "done"
    /\ outcome # "ok" => \E d \in End : peer[d].gone # "no"

RelayInvariant == RelayTyped /\ BytesHeld /\ StopsExplained /\ OutcomeSettled

RelayOutcomes == {"ok", "error", "disconnected", "closing"}
FlowType ==
  [phase : {"copy", "shutdown", "done"}, buf : Seq(Nat), amt : Nat, size : 1..3,
   res : RelayOutcomes]

LEMMA RelayStarts == RelayInit => RelayInvariant
<1> SUFFICES ASSUME RelayInit PROVE RelayInvariant
  OBVIOUS
<1>1. RelayTyped
  BY KindsAssumption, NumberedEmpty DEF RelayInit, RelayTyped
<1>2. BytesHeld
  <2>1. ASSUME NEW e \in End
        PROVE  /\ got[Other(e)] = <<>> /\ flow[e].buf = <<>> /\ frame[e] = <<>>
               /\ taken[e] = 0 /\ peer[e].sent = 0
    BY OtherEnd DEF RelayInit
  <2>2. Numbered(<<>>, 0) /\ Carried(<<>>, <<>>, <<>>, 0)
    BY DEF Numbered, Carried
  <2> QED BY <2>1, <2>2 DEF BytesHeld
<1>3. StopsExplained /\ OutcomeSettled
  BY DEF RelayInit, StopsExplained, OutcomeSettled
<1> QED BY <1>1, <1>2, <1>3 DEF RelayInvariant

(* A step that leaves the bytes alone, and lets no peer come back. *)
LEMMA BytesStay ==
  ASSUME RelayTyped, BytesHeld,
         UNCHANGED <<kindOf, taken, frame, got>>,
         \A e \in End : flow'[e].phase = "copy" =>
                          flow[e].phase = "copy" /\ flow'[e].buf = flow[e].buf,
         \A e \in End : peer[e].sent <= peer'[e].sent, \A e \in End : peer'[e].sent \in Nat
  PROVE  BytesHeld'
<1> SUFFICES ASSUME NEW e \in End
             PROVE  /\ Numbered(got[Other(e)], 0)
                    /\ flow'[e].phase = "copy" =>
                         Carried(got[Other(e)], flow'[e].buf, frame[e], taken[e])
                    /\ kindOf[e] # "rw" => frame[e] = <<>>
                    /\ taken[e] <= peer'[e].sent
  BY DEF BytesHeld
<1>1. /\ Numbered(got[Other(e)], 0)
      /\ flow[e].phase = "copy" => Carried(got[Other(e)], flow[e].buf, frame[e], taken[e])
      /\ kindOf[e] # "rw" => frame[e] = <<>>
      /\ taken[e] <= peer[e].sent
  BY DEF BytesHeld
<1>2. taken[e] \in Nat /\ peer[e].sent \in Nat
  BY DEF RelayTyped
<1> QED BY <1>1, <1>2

PeerType == [sent : Nat, fin : BOOLEAN, gone : {"no", "reset", "cancel", "fault"}]

(* What a peer does to its own record. *)
LEMMA PeersMove ==
  ASSUME RelayInvariant, NEW e \in End,
         \/ PeerSends(e) \/ PeerEndsSide(e)
         \/ \E why \in {"reset", "cancel", "fault"} : PeerGoes(e, why)
  PROVE  RelayInvariant'
<1>1. PICK p \in PeerType :
        /\ UNCHANGED <<kindOf, taken, frame, flow, got, shut, outcome>>
        /\ peer' = [peer EXCEPT ![e] = p]
        /\ peer[e].sent <= p.sent
        /\ peer[e].gone # "no" => p.gone # "no"
        /\ peer[e].fin => p.fin /\ p.sent = peer[e].sent
  <2>1. peer[e] \in PeerType /\ peer \in [End -> PeerType]
    BY DEF RelayInvariant, RelayTyped, PeerType
  <2>2. CASE PeerSends(e)
    <3> DEFINE p == [peer[e] EXCEPT !.sent = @ + 1]
    <3>1. p \in PeerType /\ peer[e].sent <= p.sent /\ p.gone = peer[e].gone /\ ~peer[e].fin
      BY <2>1, <2>2 DEF PeerSends, PeerType
    <3>2. peer' = [peer EXCEPT ![e] = p]
      BY <2>1, <2>2 DEF PeerSends
    <3>3. UNCHANGED <<kindOf, taken, frame, flow, got, shut, outcome>>
      BY <2>2 DEF PeerSends, RelayStays
    <3> HIDE DEF p
    <3> QED BY <2>2, <3>1, <3>2, <3>3
  <2>3. CASE PeerEndsSide(e)
    <3> DEFINE p == [peer[e] EXCEPT !.fin = TRUE]
    <3>1. p \in PeerType /\ peer[e].sent <= p.sent /\ (peer[e].gone # "no" => p.gone # "no")
          /\ (peer[e].fin => p.fin /\ p.sent = peer[e].sent)
      <4>1. /\ p \in PeerType /\ p.sent = peer[e].sent /\ p.sent \in Nat
            /\ p.gone = peer[e].gone /\ p.fin
        BY <2>1 DEF PeerType
      <4> HIDE DEF p
      <4> QED BY <4>1
    <3>2. peer' = [peer EXCEPT ![e] = p]
      BY <2>1, <2>3 DEF PeerEndsSide
    <3>3. UNCHANGED <<kindOf, taken, frame, flow, got, shut, outcome>>
      BY <2>3 DEF PeerEndsSide, RelayStays
    <3> HIDE DEF p
    <3> QED BY <3>1, <3>2, <3>3, Zenon
  <2>4. ASSUME NEW why \in {"reset", "cancel", "fault"}, PeerGoes(e, why)
        PROVE  \E p \in PeerType :
                 /\ UNCHANGED <<kindOf, taken, frame, flow, got, shut, outcome>>
                 /\ peer' = [peer EXCEPT ![e] = p]
                 /\ peer[e].sent <= p.sent
                 /\ peer[e].gone # "no" => p.gone # "no"
                 /\ peer[e].fin => p.fin /\ p.sent = peer[e].sent
    <3> DEFINE p == [peer[e] EXCEPT !.gone = why]
    <3>1. p \in PeerType /\ peer[e].sent <= p.sent /\ (peer[e].gone # "no" => p.gone # "no")
          /\ (peer[e].fin => p.fin /\ p.sent = peer[e].sent)
      BY <2>1 DEF PeerType
    <3>2. peer' = [peer EXCEPT ![e] = p]
      BY <2>1, <2>4 DEF PeerGoes
    <3>3. UNCHANGED <<kindOf, taken, frame, flow, got, shut, outcome>>
      BY <2>4 DEF PeerGoes, RelayStays
    <3> HIDE DEF p
    <3> QED BY <3>1, <3>2, <3>3, Zenon
  <2> QED BY <2>2, <2>3, <2>4
<1>2. RelayTyped'
  BY <1>1 DEF RelayInvariant, RelayTyped, PeerType
<1>3. \A d \in End :
        /\ peer[d].sent <= peer'[d].sent /\ peer'[d].sent \in Nat
        /\ peer[d].gone # "no" => peer'[d].gone # "no"
        /\ peer[d].fin => peer'[d].fin /\ peer'[d].sent = peer[d].sent
  <2>1. ASSUME NEW d \in End, d # e  PROVE peer'[d] = peer[d] /\ peer[d].sent \in Nat
    BY <1>1, <2>1 DEF RelayInvariant, RelayTyped
  <2>2. peer'[e] = p /\ p.sent \in Nat
    BY <1>1 DEF RelayInvariant, RelayTyped, PeerType
  <2> QED BY <1>1, <2>1, <2>2
<1>4. BytesHeld'
  BY <1>1, <1>3, BytesStay DEF RelayInvariant
<1>5. \A d \in End : Other(d) \in End
  BY OtherEnd
<1>6. StopsExplained' /\ OutcomeSettled'
  BY <1>1, <1>3, <1>5 DEF RelayInvariant, StopsExplained, OutcomeSettled
<1> QED BY <1>2, <1>4, <1>6 DEF RelayInvariant

(* A buffer of what is read: of the socket, of the frame. *)
LEMMA DirectionMoves ==
  ASSUME RelayInvariant, NEW e \in End,
         kindOf' = kindOf, peer' = peer, UNCHANGED <<shut, outcome>>,
         flow[e].phase = "copy",
         NEW f \in FlowType, flow' = [flow EXCEPT ![e] = f], f.phase = "copy", f.res = flow[e].res,
         NEW t \in Nat, taken' = [taken EXCEPT ![e] = t], t <= peer[e].sent,
         NEW h \in Seq(Nat), frame' = [frame EXCEPT ![e] = h],
         kindOf[e] # "rw" => h = <<>>,
         NEW g \in Seq(Nat), got' = [got EXCEPT ![Other(e)] = g], Numbered(g, 0),
         Carried(g, f.buf, h, t)
  PROVE  RelayInvariant'
<1>1. RelayTyped'
  BY OtherEnd DEF RelayInvariant, RelayTyped, FlowType, RelayOutcomes
<1>2. /\ flow'[e] = f /\ taken'[e] = t /\ frame'[e] = h /\ got'[Other(e)] = g
      /\ \A d \in End : d # e =>
           /\ flow'[d] = flow[d] /\ taken'[d] = taken[d] /\ frame'[d] = frame[d]
           /\ got'[Other(d)] = got[Other(d)]
  BY OtherEnd DEF RelayInvariant, RelayTyped
<1>3. BytesHeld'
  <2> SUFFICES ASSUME NEW d \in End
               PROVE  /\ Numbered(got'[Other(d)], 0)
                      /\ flow'[d].phase = "copy" =>
                           Carried(got'[Other(d)], flow'[d].buf, frame'[d], taken'[d])
                      /\ kindOf[d] # "rw" => frame'[d] = <<>>
                      /\ taken'[d] <= peer[d].sent
    BY DEF BytesHeld
  <2> QED BY <1>2 DEF RelayInvariant, BytesHeld
<1>4. StopsExplained'
  <2> SUFFICES ASSUME NEW d \in End
        PROVE  /\ flow'[d].phase # "copy" /\ peer[d].gone = "no" /\ peer[Other(d)].gone = "no" =>
                    peer[d].fin /\ Len(got'[Other(d)]) = peer[d].sent
               /\ Other(d) \in shut => flow'[d].phase = "done"
               /\ flow'[d].res # "ok" => \E x \in End : peer[x].gone # "no"
    BY DEF StopsExplained
  <2> QED BY <1>2 DEF RelayInvariant, StopsExplained
<1>5. OutcomeSettled'
  BY DEF RelayInvariant, OutcomeSettled
<1> QED BY <1>1, <1>3, <1>4, <1>5 DEF RelayInvariant

(* How the bytes move from one place to the next. *)
LEMMA CarriedRead ==
  ASSUME NEW g \in Seq(Nat), NEW t \in Nat, NEW n \in Nat, Carried(g, <<>>, <<>>, t),
         NEW s \in Seq(Nat), Len(s) = n, Numbered(s, t)
  PROVE  Carried(g, <<>>, s, t + n) /\ Carried(g, s, <<>>, t + n)
<1>1. Len(g) \in Nat /\ Len(<<>>) = 0 /\ Len(g) = t
  BY DEF Carried
<1>2. \A k \in Nat : Numbered(<<>>, k)
  BY NumberedEmpty
<1>3. Len(g) + 0 = t /\ t + n \in Nat
  BY <1>1
<1> QED BY <1>1, <1>2, <1>3 DEF Carried

LEMMA CarriedBuffered ==
  ASSUME NEW g \in Seq(Nat), NEW h \in Seq(Nat), NEW t \in Nat, Carried(g, <<>>, h, t),
         NEW n \in 1..Len(h)
  PROVE  /\ SubSeq(h, 1, n) \in Seq(Nat) /\ SubSeq(h, n + 1, Len(h)) \in Seq(Nat)
         /\ Carried(g, SubSeq(h, 1, n), SubSeq(h, n + 1, Len(h)), t)
<1>1. Len(g) \in Nat /\ Len(h) \in Nat /\ Len(<<>>) = 0 /\ Numbered(h, Len(g)) /\ Len(g) + Len(h) = t
  BY DEF Carried
<1> DEFINE b == SubSeq(h, 1, n)
           r == SubSeq(h, n + 1, Len(h))
<1>2. /\ b \in Seq(Nat) /\ Len(b) = n /\ Numbered(b, Len(g))
      /\ r \in Seq(Nat) /\ Len(r) = Len(h) - n /\ Numbered(r, Len(g) + n)
  BY <1>1, NumberedSplit
<1> HIDE DEF b, r
<1>3. Len(g) + n + (Len(h) - n) = t
  BY SMTT(60), <1>1
<1>4. Carried(g, b, r, t)
  BY <1>2, <1>3 DEF Carried
<1> QED BY <1>2, <1>4 DEF b, r

LEMMA CarriedWritten ==
  ASSUME NEW g \in Seq(Nat), NEW b \in Seq(Nat), NEW h \in Seq(Nat), NEW t \in Nat,
         Numbered(g, 0), Carried(g, b, h, t), NEW n \in 1..Len(b)
  PROVE  /\ SubSeq(b, n + 1, Len(b)) \in Seq(Nat) /\ g \o SubSeq(b, 1, n) \in Seq(Nat)
         /\ Numbered(g \o SubSeq(b, 1, n), 0)
         /\ Carried(g \o SubSeq(b, 1, n), SubSeq(b, n + 1, Len(b)), h, t)
<1> DEFINE a == SubSeq(b, 1, n)
           r == SubSeq(b, n + 1, Len(b))
           w == g \o a
<1>1. /\ Len(g) \in Nat /\ Len(b) \in Nat /\ Len(h) \in Nat /\ n \in Nat
      /\ Numbered(b, Len(g)) /\ Numbered(h, Len(g) + Len(b))
      /\ Len(g) + Len(b) + Len(h) = t
  BY DEF Carried
<1>2. /\ a \in Seq(Nat) /\ Len(a) = n /\ Numbered(a, Len(g))
      /\ r \in Seq(Nat) /\ Len(r) = Len(b) - n /\ Numbered(r, Len(g) + n)
  BY <1>1, NumberedSplit
<1> HIDE DEF a, r
<1>3. Numbered(a, 0 + Len(g))
  BY <1>1, <1>2
<1>4. w \in Seq(Nat) /\ Len(w) = Len(g) + n /\ Numbered(w, 0)
  BY <1>1, <1>2, <1>3, NumberedConcat
<1> HIDE DEF w
<1>5. (Len(g) + n) + (Len(b) - n) = Len(g) + Len(b)
  BY <1>1
<1>6. Carried(w, r, h, t)
  BY <1>1, <1>2, <1>4, <1>5 DEF Carried
<1> QED BY <1>2, <1>4, <1>6 DEF a, r, w

LEMMA FrameReceived ==
  ASSUME RelayInvariant, NEW e \in End, NEW n \in Nat, ReceiveFrame(e, n)
  PROVE  RelayInvariant'
<1>1. /\ kindOf[e] = "rw" /\ frame[e] = <<>> /\ flow[e].phase = "copy" /\ flow[e].buf = <<>>
      /\ n \in 1..(peer[e].sent - taken[e])
      /\ frame' = [frame EXCEPT ![e] = Bytes(e, n)] /\ taken' = [taken EXCEPT ![e] = taken[e] + n]
      /\ UNCHANGED <<kindOf, peer, flow, got, shut, outcome>>
  BY DEF ReceiveFrame, PeersStay, Unread
<1>2. /\ taken[e] \in Nat /\ peer[e].sent \in Nat /\ got[Other(e)] \in Seq(Nat)
      /\ flow[e] \in FlowType
      /\ flow' = [flow EXCEPT ![e] = flow[e]] /\ got' = [got EXCEPT ![Other(e)] = got[Other(e)]]
  BY <1>1, OtherEnd DEF RelayInvariant, RelayTyped, FlowType, RelayOutcomes
<1>3. Numbered(got[Other(e)], 0) /\ Carried(got[Other(e)], <<>>, <<>>, taken[e])
  BY <1>1 DEF RelayInvariant, BytesHeld
<1>4. Bytes(e, n) \in Seq(Nat) /\ Len(Bytes(e, n)) = n /\ Numbered(Bytes(e, n), taken[e])
  BY <1>2, NumberedFrom DEF Bytes
<1>5. Carried(got[Other(e)], flow[e].buf, Bytes(e, n), taken[e] + n)
  BY <1>1, <1>2, <1>3, <1>4, CarriedRead
<1>6. taken[e] + n \in Nat /\ taken[e] + n <= peer[e].sent
  BY <1>1, <1>2
<1> QED BY <1>1, <1>2, <1>3, <1>4, <1>5, <1>6, DirectionMoves

LEMMA BufferRead ==
  ASSUME RelayInvariant, NEW e \in End, NEW n \in Nat, Read(e, n)
  PROVE  RelayInvariant'
<1>1. /\ flow[e].phase = "copy" /\ flow[e].buf = <<>>
      /\ UNCHANGED <<kindOf, peer, got, shut, outcome>>
  BY DEF Read, PeersStay
<1>2. /\ taken[e] \in Nat /\ peer[e].sent \in Nat /\ taken[e] <= peer[e].sent
      /\ got[Other(e)] \in Seq(Nat) /\ frame[e] \in Seq(Nat) /\ flow[e] \in FlowType
      /\ got' = [got EXCEPT ![Other(e)] = got[Other(e)]]
  BY <1>1, OtherEnd DEF RelayInvariant, RelayTyped, FlowType, RelayOutcomes, BytesHeld
<1>3. /\ Numbered(got[Other(e)], 0) /\ Carried(got[Other(e)], <<>>, frame[e], taken[e])
      /\ kindOf[e] # "rw" => frame[e] = <<>>
  BY <1>1 DEF RelayInvariant, BytesHeld
<1>4. CASE kindOf[e] = "rw"
  <2> DEFINE b == SubSeq(frame[e], 1, n)
             h == SubSeq(frame[e], n + 1, Len(frame[e]))
             f == [flow[e] EXCEPT !.buf = b]
  <2>1. /\ n \in 1..Len(frame[e]) /\ flow' = [flow EXCEPT ![e] = f]
        /\ frame' = [frame EXCEPT ![e] = h] /\ taken' = [taken EXCEPT ![e] = taken[e]]
    BY <1>4 DEF Read, RelayInvariant, RelayTyped
  <2>2. b \in Seq(Nat) /\ h \in Seq(Nat) /\ Carried(got[Other(e)], b, h, taken[e])
    BY <1>2, <1>3, <2>1, CarriedBuffered
  <2> HIDE DEF b, h
  <2>3. f \in FlowType /\ f.phase = "copy" /\ f.res = flow[e].res /\ f.buf = b
    BY <1>1, <1>2, <2>2 DEF FlowType
  <2> HIDE DEF f
  <2> QED BY <1>1, <1>2, <1>3, <1>4, <2>1, <2>2, <2>3, DirectionMoves
<1>5. CASE kindOf[e] # "rw"
  <2> DEFINE f == [flow[e] EXCEPT !.buf = Bytes(e, n)]
  <2>1. /\ n \in 1..(peer[e].sent - taken[e]) /\ flow' = [flow EXCEPT ![e] = f]
        /\ frame' = [frame EXCEPT ![e] = frame[e]] /\ taken' = [taken EXCEPT ![e] = taken[e] + n]
    BY <1>5 DEF Read, Unread, RelayInvariant, RelayTyped
  <2>2. Bytes(e, n) \in Seq(Nat) /\ Len(Bytes(e, n)) = n /\ Numbered(Bytes(e, n), taken[e])
    BY <1>2, NumberedFrom DEF Bytes
  <2>3. Carried(got[Other(e)], Bytes(e, n), <<>>, taken[e] + n)
    BY <1>2, <1>3, <1>5, <2>2, CarriedRead
  <2>4. /\ f \in FlowType /\ f.phase = "copy" /\ f.res = flow[e].res
        /\ f.buf = Bytes(e, n)
    BY <1>1, <1>2, <2>2 DEF FlowType
  <2>5. taken[e] + n \in Nat /\ taken[e] + n <= peer[e].sent
    BY <1>2, <2>1
  <2> HIDE DEF f
  <2>6. Carried(got[Other(e)], f.buf, frame[e], taken[e] + n)
    BY <1>3, <1>5, <2>3, <2>4
  <2> QED BY <1>1, <1>2, <1>3, <1>5, <2>1, <2>4, <2>5, <2>6, DirectionMoves
<1> QED BY <1>4, <1>5

LEMMA BufferWritten ==
  ASSUME RelayInvariant, NEW e \in End, NEW n \in Nat, Write(e, n)
  PROVE  RelayInvariant'
<1> DEFINE b == SubSeq(flow[e].buf, n + 1, Len(flow[e].buf))
           g == got[Other(e)] \o SubSeq(flow[e].buf, 1, n)
           z == SizeAfter(flow[e], n)
           f == [flow[e] EXCEPT !.buf = b, !.amt = flow[e].amt + n, !.size = z]
<1>1. /\ flow[e].phase = "copy" /\ n \in 1..Len(flow[e].buf)
      /\ got' = [got EXCEPT ![Other(e)] = g] /\ flow' = [flow EXCEPT ![e] = f]
      /\ UNCHANGED <<kindOf, peer, taken, frame, shut, outcome>>
  BY DEF Write, Written, PeersStay
<1>2. /\ taken[e] \in Nat /\ taken[e] <= peer[e].sent
      /\ got[Other(e)] \in Seq(Nat) /\ frame[e] \in Seq(Nat) /\ flow[e] \in FlowType
      /\ frame' = [frame EXCEPT ![e] = frame[e]] /\ taken' = [taken EXCEPT ![e] = taken[e]]
      /\ kindOf[e] # "rw" => frame[e] = <<>>
  BY <1>1, OtherEnd DEF RelayInvariant, RelayTyped, FlowType, RelayOutcomes, BytesHeld
<1>3. Numbered(got[Other(e)], 0) /\ Carried(got[Other(e)], flow[e].buf, frame[e], taken[e])
  BY <1>1 DEF RelayInvariant, BytesHeld
<1>4. flow[e].buf \in Seq(Nat) /\ z \in 1..3
  BY <1>2 DEF FlowType, SizeAfter
<1>5. b \in Seq(Nat) /\ g \in Seq(Nat) /\ Numbered(g, 0) /\ Carried(g, b, frame[e], taken[e])
  BY <1>1, <1>2, <1>3, <1>4, CarriedWritten
<1> HIDE DEF b, g, z
<1>6. f \in FlowType /\ f.phase = "copy" /\ f.res = flow[e].res /\ f.buf = b
  <2>1. n \in Nat /\ flow[e].amt \in Nat /\ flow[e].amt + n \in Nat
    BY <1>1, <1>2, <1>4 DEF FlowType
  <2> QED BY <1>1, <1>2, <1>4, <1>5, <2>1 DEF FlowType
<1> HIDE DEF f
<1> QED BY <1>1, <1>2, <1>5, <1>6, DirectionMoves

(* A direction that stops, or is over. *)
LEMMA DirectionEnds ==
  ASSUME RelayInvariant, NEW e \in End, UNCHANGED <<kindOf, peer, taken, frame, got, outcome>>,
         flow[e].phase # "done",
         NEW f \in FlowType, flow' = [flow EXCEPT ![e] = f], f.phase # "copy",
         \/ shut' = shut /\ flow[e].phase = "copy"
         \/ shut' \in {shut, shut \cup {Other(e)}} /\ f.phase = "done",
         peer[e].gone = "no" /\ peer[Other(e)].gone = "no" =>
           peer[e].fin /\ Len(got[Other(e)]) = peer[e].sent,
         f.res # "ok" => \E d \in End : peer[d].gone # "no"
  PROVE  RelayInvariant'
<1>1. RelayTyped'
  <2>1. flow' \in [End -> FlowType] /\ shut' \subseteq End
    BY OtherEnd DEF RelayInvariant, RelayTyped, FlowType, RelayOutcomes
  <2> QED BY <2>1 DEF RelayInvariant, RelayTyped, FlowType, RelayOutcomes
<1>2. flow'[e] = f /\ \A d \in End : d # e => flow'[d] = flow[d]
  BY DEF RelayInvariant, RelayTyped
<1>3. \A d \in End : peer[d].sent \in Nat
  BY DEF RelayInvariant, RelayTyped
<1>4. BytesHeld'
  BY <1>2, <1>3, BytesStay DEF RelayInvariant
<1>5. StopsExplained'
  <2> SUFFICES ASSUME NEW d \in End
        PROVE  /\ flow'[d].phase # "copy" /\ peer[d].gone = "no" /\ peer[Other(d)].gone = "no" =>
                    peer[d].fin /\ Len(got[Other(d)]) = peer[d].sent
               /\ Other(d) \in shut' => flow'[d].phase = "done"
               /\ flow'[d].res # "ok" => \E x \in End : peer[x].gone # "no"
    BY DEF StopsExplained
  <2>1. CASE d = e
    <3>1. Other(e) \in shut' => f.phase = "done"
      BY DEF RelayInvariant, StopsExplained
    <3> QED BY <1>2, <2>1, <3>1
  <2>2. CASE d # e
    <3>1. Other(d) # Other(e)
      BY <2>2, OtherEnd
    <3>2. Other(d) \in shut' => Other(d) \in shut
      BY <3>1
    <3> QED BY <1>2, <2>2, <3>2 DEF RelayInvariant, StopsExplained
  <2> QED BY <2>1, <2>2
<1>6. OutcomeSettled'
  BY DEF RelayInvariant, OutcomeSettled
<1> QED BY <1>1, <1>4, <1>5, <1>6 DEF RelayInvariant

LEMMA CopyStops ==
  ASSUME RelayInvariant, NEW e \in End, ReadEnd(e) \/ ReadFails(e) \/ WriteFails(e)
  PROVE  RelayInvariant'
<1>1. /\ flow[e].phase = "copy" /\ UNCHANGED <<kindOf, peer, taken, frame, got, shut, outcome>>
      /\ \E res \in RelayOutcomes :
           /\ flow' = Stops(e, res)
           /\ res # "ok" => peer[e].gone # "no" \/ peer[Other(e)].gone # "no"
  BY DEF ReadEnd, ReadFails, WriteFails, PeersStay, RelayOutcomes
<1>2. PICK res \in RelayOutcomes :
        /\ flow' = Stops(e, res)
        /\ res # "ok" => peer[e].gone # "no" \/ peer[Other(e)].gone # "no"
  BY <1>1
<1> DEFINE f == [flow[e] EXCEPT !.phase = "shutdown", !.res = res, !.buf = <<>>]
<1>3. flow[e] \in FlowType /\ Other(e) \in End /\ <<>> \in Seq(Nat)
  BY OtherEnd DEF RelayInvariant, RelayTyped, FlowType, RelayOutcomes
<1>4. flow' = [flow EXCEPT ![e] = f] /\ f \in FlowType /\ f.phase = "shutdown" /\ f.res = res
  BY <1>2, <1>3 DEF Stops, FlowType
<1> HIDE DEF f
<1>5. ASSUME peer[e].gone = "no", peer[Other(e)].gone = "no"
      PROVE  peer[e].fin /\ Len(got[Other(e)]) = peer[e].sent
  <2>1. ReadEnd(e) /\ flow[e].buf = <<>> /\ frame[e] = <<>> /\ peer[e].fin /\ Unread(e) = 0
    BY <1>5 DEF ReadEnd, ReadFails, WriteFails
  <2>2. Carried(got[Other(e)], <<>>, <<>>, taken[e])
    BY <1>1, <2>1 DEF RelayInvariant, BytesHeld
  <2>3. Len(got[Other(e)]) \in Nat /\ Len(<<>>) = 0 /\ taken[e] \in Nat /\ peer[e].sent \in Nat
    BY <1>3 DEF RelayInvariant, RelayTyped
  <2>4. Len(got[Other(e)]) = taken[e] /\ taken[e] = peer[e].sent
    BY <2>1, <2>2, <2>3 DEF Carried, Unread
  <2> QED BY <2>1, <2>4
<1>6. f.res # "ok" => \E d \in End : peer[d].gone # "no"
  BY <1>2, <1>3, <1>4
<1> QED BY <1>1, <1>4, <1>5, <1>6, DirectionEnds

LEMMA CopyCloses ==
  ASSUME RelayInvariant, NEW e \in End, Shutdown(e) \/ ShutdownFails(e)
  PROVE  RelayInvariant'
<1>1. /\ flow[e].phase = "shutdown" /\ UNCHANGED <<kindOf, peer, taken, frame, got, outcome>>
      /\ shut' \in {shut, shut \cup {Other(e)}}
  BY DEF Shutdown, ShutdownFails, PeersStay
<1>2. /\ flow[e] \in FlowType /\ Other(e) \in End /\ flow \in [End -> FlowType]
      /\ flow[e].res # "ok" => \E d \in End : peer[d].gone # "no"
      /\ peer[e].gone = "no" /\ peer[Other(e)].gone = "no" =>
           peer[e].fin /\ Len(got[Other(e)]) = peer[e].sent
  BY <1>1, OtherEnd DEF RelayInvariant, RelayTyped, FlowType, RelayOutcomes, StopsExplained
<1>3. PICK f \in FlowType :
        /\ flow' = [flow EXCEPT ![e] = f] /\ f.phase = "done"
        /\ f.res # "ok" => \E d \in End : peer[d].gone # "no"
  <2>1. CASE Shutdown(e)
    <3> DEFINE f == [flow[e] EXCEPT !.phase = "done"]
    <3>1. f \in FlowType /\ f.phase = "done" /\ f.res = flow[e].res
      BY <1>2 DEF FlowType
    <3>2. flow' = [flow EXCEPT ![e] = f]
      BY <1>2, <2>1 DEF Shutdown
    <3> HIDE DEF f
    <3> QED BY <1>2, <3>1, <3>2
  <2>2. CASE ShutdownFails(e)
    <3>1. PICK res \in RelayOutcomes :
            /\ flow' = [flow EXCEPT ![e] = [flow[e] EXCEPT !.phase = "done", !.res = res]]
            /\ peer[Other(e)].gone # "no"
      BY <1>2, <2>2 DEF ShutdownFails, FlowType, RelayOutcomes
    <3> DEFINE f == [flow[e] EXCEPT !.phase = "done", !.res = res]
    <3>2. f \in FlowType /\ f.phase = "done"
      BY <1>2 DEF FlowType
    <3>3. flow' = [flow EXCEPT ![e] = f]
      BY <3>1
    <3> HIDE DEF f
    <3> QED BY <1>2, <3>1, <3>2, <3>3
  <2> QED BY <2>1, <2>2
<1> QED BY <1>1, <1>2, <1>3, DirectionEnds

LEMMA CopyReturned ==
  ASSUME RelayInvariant, CopyReturns
  PROVE  RelayInvariant'
<1>1. /\ UNCHANGED <<kindOf, peer, taken, frame, flow, got, shut>> /\ BothDone
      /\ outcome' \in {flow["client"].res, flow["backend"].res}
  BY DEF CopyReturns, PeersStay
<1>2. "client" \in End /\ "backend" \in End
  BY DEF End
<1>3. RelayTyped' /\ BytesHeld' /\ StopsExplained'
  BY <1>1, <1>2 DEF RelayInvariant, RelayTyped, BytesHeld, StopsExplained
<1>4. OutcomeSettled'
  BY <1>1, <1>2 DEF RelayInvariant, StopsExplained, OutcomeSettled, BothDone
<1> QED BY <1>3, <1>4 DEF RelayInvariant

LEMMA RelaySteps == RelayInvariant /\ [RelayNext]_relayVars => RelayInvariant'
<1> SUFFICES ASSUME RelayInvariant, [RelayNext]_relayVars  PROVE RelayInvariant'
  OBVIOUS
<1>1. ASSUME NEW e \in End, NEW n \in 1..MaxBytes[e], ReceiveFrame(e, n) \/ Read(e, n) \/ Write(e, n)
      PROVE  RelayInvariant'
  <2>1. n \in Nat
    BY DEF ReceiveFrame, Read, Write
  <2> QED BY <1>1, <2>1, FrameReceived, BufferRead, BufferWritten
<1>2. CASE UNCHANGED relayVars
  BY <1>2 DEF relayVars, RelayInvariant, RelayTyped, BytesHeld, StopsExplained, OutcomeSettled
<1> QED BY <1>1, <1>2, PeersMove, CopyStops, CopyCloses, CopyReturned DEF RelayNext

LEMMA RelayKeepsBytes == RelayInvariant => BytesRelayed
<1> SUFFICES ASSUME RelayInvariant  PROVE BytesRelayed
  OBVIOUS
<1> USE DEF RelayInvariant
<1>1. RelayTypeOK
  BY DEF RelayTyped, RelayTypeOK
<1>2. InOrder
  <2> SUFFICES ASSUME NEW e \in End
        PROVE  /\ got[Other(e)] = [i \in 1..Len(got[Other(e)]) |-> i]
               /\ flow[e].phase = "copy" =>
                    got[Other(e)] \o flow[e].buf \o frame[e] = [i \in 1..taken[e] |-> i]
    BY DEF InOrder
  <2> DEFINE g == got[Other(e)]
             b == flow[e].buf
             h == frame[e]
  <2>1. g \in Seq(Nat) /\ b \in Seq(Nat) /\ h \in Seq(Nat) /\ Numbered(g, 0)
    BY OtherEnd DEF RelayTyped, BytesHeld
  <2>2. ASSUME flow[e].phase = "copy"  PROVE g \o b \o h = [i \in 1..taken[e] |-> i]
    <3>1. Numbered(b, Len(g)) /\ Numbered(h, Len(g) + Len(b)) /\ Len(g) + Len(b) + Len(h) = taken[e]
      BY <2>2 DEF BytesHeld, Carried
    <3> HIDE DEF g, b, h
    <3>2. 0 + Len(g) = Len(g) /\ 0 + (Len(g) + Len(b)) = Len(g) + Len(b)
      BY <2>1
    <3>3. g \o b \in Seq(Nat) /\ Len(g \o b) = Len(g) + Len(b) /\ Numbered(g \o b, 0)
      BY <2>1, <3>1, <3>2, NumberedConcat
    <3> DEFINE x == g \o b
    <3>4. x \in Seq(Nat) /\ Len(x) = Len(g) + Len(b) /\ Numbered(x, 0)
      BY <3>3
    <3> HIDE DEF x
    <3>5. 0 + Len(x) = Len(g) + Len(b) /\ Len(x) \in Nat
      BY <2>1, <3>2, <3>4
    <3>6. Numbered(h, 0 + Len(x))
      BY <3>1, <3>5
    <3>7. x \o h \in Seq(Nat) /\ Len(x \o h) = Len(x) + Len(h) /\ Numbered(x \o h, 0)
      BY <2>1, <3>4, <3>6, NumberedConcat
    <3>8. x \o h = [i \in 1..Len(x \o h) |-> i] /\ Len(x \o h) = taken[e]
      BY <3>1, <3>4, <3>7, NumberedIs
    <3> QED BY <3>8 DEF x
  <2> QED BY <2>1, <2>2, NumberedIs
<1>3. EndAfterLastByte /\ HalfCloseHonoured /\ NoErrorWithoutFault
  BY DEF StopsExplained, OutcomeSettled, EndAfterLastByte, HalfCloseHonoured,
         NoErrorWithoutFault
<1> QED BY <1>1, <1>2, <1>3 DEF BytesRelayed

(* Of each direction of a copy the bytes arrive in order and once, the end *)
(* of a direction is passed on after its last byte, and no fault is        *)
(* reported that nobody had.                                               *)
THEOREM BytesStayRelayed == RelaySpec => []BytesRelayed
<1>1. RelaySpec => []RelayInvariant
  BY RelayStarts, RelaySteps, PTL DEF RelaySpec
<1> QED BY <1>1, RelayKeepsBytes, PTL

-----------------------------------------------------------------------------
(* The parts together (MCConnections).                                     *)

EndsInvariant == ConnInvariant /\ UpInvariant /\ RelayInvariant

LEMMA RestIsConsistent == ConnAtRest => ConnInvariant
<1> DEFINE u == [Unopened EXCEPT !.phase = "closed"]
<1> SUFFICES ASSUME ConnAtRest  PROVE ConnInvariant
  OBVIOUS
<1>1. ConfigTyped /\ BuiltOnce /\ sock = [s \in Sock |-> u]
  BY ConnAssumption, EndsAssumption DEF ConnAtRest, ConfigTyped, BuiltOnce
<1>2. IsSocket(u)
  <2>1. IsSocket(Unopened)
    BY DEF Unopened, IsSocket
  <2> QED BY <2>1 DEF IsSocket
<1>3. \A s \in Sock : SocketFits(s, u, tunnel)
  <2>1. /\ u.phase = "closed" /\ u.seen = {} /\ u.tls = NoTls /\ u.target = ""
        /\ u.layers = <<>> /\ u.sent = 0 /\ u.wire = <<>> /\ u.kept = <<>>
        /\ u.held = <<>> /\ u.out = <<>> /\ u.counted = 0
    BY DEF Unopened
  <2> HIDE DEF u
  <2> QED BY <1>2, <2>1, UnopenedFits
<1> QED BY <1>1, <1>3 DEF ConnInvariant

(* A client of a listener and a call to a backend each have the peer that  *)
(* they ask for, known as who it is, and what is copied between the two    *)
(* arrives in order: for any listeners, calls, certificates and bytes.     *)
THEOREM RightPeersKept == EndsSpec => []RightPeers
<1>1. EndsInit => EndsInvariant
  BY ConnStarts, RestIsConsistent, UpStarts, RelayStarts DEF EndsInit, EndsInvariant
<1>2. EndsInvariant /\ [EndsNext]_ends => EndsInvariant'
  <2> SUFFICES ASSUME EndsInvariant, [EndsNext]_ends  PROVE EndsInvariant'
    OBVIOUS
  <2>1. /\ [ConnNext]_connVars /\ [UpNext]_upVars /\ [RelayNext]_relayVars
    BY DEF EndsNext, ends
  <2> QED BY <2>1, ConnSteps, UpSteps, RelaySteps DEF EndsInvariant
<1>3. EndsInvariant => RightPeers
  BY ConnInvariantSuffices, UpInvariantSuffices, RelayKeepsBytes DEF EndsInvariant, RightPeers
<1> QED BY <1>1, <1>2, <1>3, PTL DEF EndsSpec

=============================================================================
