-------------------------- MODULE Discovery_proofs --------------------------
(***************************************************************************)
(* Proofs about what the control plane tells the proxy: how it is received *)
(* (XdsClient), the workloads and services it names (DiscoveryStore), and  *)
(* the endpoints that requests are balanced over (EndpointSet).            *)
(***************************************************************************)
EXTENDS XdsClient, DiscoveryStore, EndpointSet, XdsConversion, Integers,
        FiniteSetTheorems, WellFoundedInduction, TLAPS

-----------------------------------------------------------------------------
(***************************************************************************)
(* XdsClient: what the client guarantees however often the stream breaks,  *)
(* for any resources, any number of changes and any window of responses.   *)
(***************************************************************************)

(* Types                                                                   *)

LEMMA OrderType == Order \in Seq(Type)
<1>1. Cardinality(Type) \in Nat /\ ExistsBijection(1 .. Cardinality(Type), Type)
  BY XdsAssumption, FS_CardinalityType
<1>2. \E s \in [1 .. Cardinality(Type) -> Type] :
         \A t \in Type : \E i \in DOMAIN s : s[i] = t
  BY <1>1 DEF ExistsBijection, Bijection, Surjection
<1>3. Order \in [1 .. Cardinality(Type) -> Type]
  BY <1>2 DEF Order
<1> QED
  BY <1>1, <1>3

LEMMA AnswerIsRequest == Answer \subseteq Request
  BY DEF Request

LEMMA SubscribeType ==
  ASSUME known \in SUBSET Name, NEW t \in Type
  PROVE  Subscribe(t) \in Request
  BY DEF Subscribe, Request

(* What is handled is a response, and its effect a table of versions.      *)
LEMMA HandleType ==
  ASSUME TypeOK, toClient # <<>>
  PROVE  /\ Head(toClient) \in Response
         /\ Tail(toClient) \in Seq(Response) /\ Len(Tail(toClient)) = Len(toClient) - 1
         /\ Effect(Head(toClient)) \in [Name -> Version \cup {None}]
         /\ \A kinds : Named(Head(toClient), kinds) \subseteq Name
<1> DEFINE r == Head(toClient)
<1>1. /\ r \in Response
      /\ Tail(toClient) \in Seq(Response) /\ Len(Tail(toClient)) = Len(toClient) - 1
  BY DEF TypeOK
<1>2. r.resources \subseteq
        [name : Name, version : Version, kind : {"good", "bad", "removed"}]
  BY <1>1 DEF Response
<1> HIDE DEF r
<1>3. \A kinds : Named(r, kinds) \subseteq Name
  BY <1>2 DEF Named
<1>4. ASSUME NEW n \in Name, n \in Named(r, {"good"})
      PROVE  (CHOOSE x \in r.resources : x.name = n).version \in Version
  <2>1. \E x \in r.resources : x.name = n
    BY <1>4 DEF Named
  <2>2. (CHOOSE x \in r.resources : x.name = n) \in r.resources
    BY <2>1
  <2> QED  BY <1>2, <2>2
<1>5. Effect(r) \in [Name -> Version \cup {None}]
  BY <1>4 DEF Effect, TypeOK
<1> QED  BY <1>1, <1>3, <1>5 DEF r

(* The variables hold values of their types; the responses in flight stay  *)
(* within the window and the backoff within its maximum.                   *)
THEOREM TypeCorrect == Spec => []TypeOK
<1>1. Init => TypeOK
  <2> SUFFICES ASSUME Init PROVE TypeOK
    OBVIOUS
  <2>1. config \in [Name -> Resource]
    BY XdsAssumption DEF Init, Resource, Version
  <2>2. /\ toClient \in Seq(Response) /\ Len(toClient) = 0
        /\ toServer \in Seq(Request)
    BY DEF Init
  <2>3. Len(toClient) <= Window /\ backoff \in 1 .. MaxBackoff
    BY <2>2, XdsAssumption DEF Init
  <2> QED  BY <2>1, <2>2, <2>3 DEF Init, TypeOK
<1>2. TypeOK /\ [Next]_vars => TypeOK'
  <2> SUFFICES ASSUME TypeOK, [Next]_vars PROVE TypeOK'
    OBVIOUS
  <2>1. ASSUME NEW n \in Name, NEW kind \in {"good", "bad", "removed"}, Change(n, kind)
        PROVE  TypeOK'
    <3>1. config[n] \in Resource /\ config[n].version < MaxVersion
      BY <2>1 DEF Change, TypeOK
    <3>2. [version |-> config[n].version + 1, kind |-> kind] \in Resource
      BY <3>1, XdsAssumption DEF Resource, Version
    <3>3. config' \in [Name -> Resource]
      BY <2>1, <3>2 DEF Change, TypeOK
    <3> QED  BY <2>1, <3>3 DEF Change, TypeOK, streamVars, storeVars, readyVars
  <2>2. CASE ReceiveRequest
    <3> DEFINE r == Head(toServer)
    <3>1. r \in Request /\ toServer' \in Seq(Request)
      BY <2>2 DEF ReceiveRequest, TypeOK
    <3>2. r.type \in Type
      BY <3>1 DEF Request, Answer
    <3>3. phase' \in [Type -> {"none", "subscribed", "served"}]
      BY <2>2, <3>2 DEF ReceiveRequest, TypeOK
    <3>4. sent' \in [Name -> Version \cup {Stale, None}]
      BY <2>2 DEF ReceiveRequest, TypeOK
    <3> QED
      BY <2>2, <3>1, <3>3, <3>4 DEF ReceiveRequest, TypeOK, storeVars, readyVars
  <2>3. ASSUME NEW t \in Type, Push(t) PROVE TypeOK'
    <3> DEFINE rs == {[name |-> n, version |-> config[n].version,
                       kind |-> config[n].kind] : n \in Due(t)}
    <3>1. \A n \in Name : config[n].version \in Version
                       /\ config[n].kind \in {"good", "bad", "removed"}
      BY DEF TypeOK, Resource
    <3>2. rs \subseteq
            [name : Name, version : Version, kind : {"good", "bad", "removed"}]
      BY <3>1 DEF Due
    <3>3. [type |-> t, resources |-> rs] \in Response
      BY <3>2 DEF Response
    <3> HIDE DEF rs
    <3>4. toClient' = Append(toClient, [type |-> t, resources |-> rs])
      BY <2>3 DEF Push, rs
    <3>5. toClient' \in Seq(Response) /\ Len(toClient') <= Window
      BY <2>3, <3>3, <3>4, XdsAssumption DEF Push, TypeOK
    <3>6. sent' \in [Name -> Version \cup {Stale, None}]
      BY <2>3, <3>1 DEF Push, TypeOK
    <3>7. phase' \in [Type -> {"none", "subscribed", "served"}]
      BY <2>3 DEF Push, TypeOK
    <3> QED
      BY <2>3, <3>5, <3>6, <3>7 DEF Push, TypeOK, storeVars, readyVars
  <2>4. CASE Connect
    <3>1. toServer' \in Seq(Request)
      <4>1. PICK k \in Nat : DOMAIN Order = 1 .. k /\ \A i \in 1 .. k : Order[i] \in Type
        BY OrderType
      <4>2. toServer' = [i \in 1 .. k |-> Subscribe(Order[i])]
        BY <2>4, <4>1 DEF Connect
      <4>3. known \in SUBSET Name
        BY DEF TypeOK
      <4> QED  BY <4>1, <4>2, <4>3, SubscribeType
    <3> QED
      BY <2>4, <3>1 DEF Connect, TypeOK, serverVars, storeVars, readyVars
  <2>5. Doubled \in 1 .. MaxBackoff
    BY XdsAssumption DEF Doubled, TypeOK
  <2>6. CASE ConnectFails
    BY <2>5, <2>6
    DEF ConnectFails, TypeOK, serverVars, streamVars, storeVars, readyVars
  <2>7. CASE Disconnect
    <3>1. /\ toClient' \in Seq(Response) /\ Len(toClient') = 0
          /\ toServer' \in Seq(Request)
      BY <2>7 DEF Disconnect
    <3>2. Len(toClient') <= Window /\ backoff' \in 1 .. MaxBackoff
      BY <2>5, <2>7, <3>1, XdsAssumption DEF Disconnect
    <3> QED  BY <2>7, <3>1, <3>2 DEF Disconnect, TypeOK, storeVars, readyVars
  <2>8. CASE Handle
    <3> DEFINE r == Head(toClient)
    <3>1. /\ r \in Response /\ toClient' \in Seq(Response)
          /\ Len(toClient') <= Window
          /\ applied' \in [Name -> Version \cup {None}]
          /\ \A kinds : Named(r, kinds) \subseteq Name
      BY <2>8, HandleType, XdsAssumption DEF Handle, TypeOK
    <3>2. answer' = [type |-> r.type, signal |-> Outcome(r)]
          /\ known' = (known \ Named(r, {"removed"})) \cup Named(r, {"good", "bad"})
      BY <2>8 DEF Handle
    <3> HIDE DEF r
    <3>3. answer' \in Answer
      BY <3>1, <3>2 DEF Response, Answer, Outcome
    <3>4. known' \in SUBSET Name
      BY <3>1, <3>2 DEF TypeOK
    <3> QED
      BY <2>8, <3>1, <3>3, <3>4 DEF Handle, TypeOK, serverVars, readyVars
  <2>9. CASE SendAnswer
    <3>1. answer \in Answer /\ answer.type \in Type
      BY <2>9 DEF SendAnswer, TypeOK, Answer
    <3>2. toServer' \in Seq(Request)
      BY <2>9, <3>1, AnswerIsRequest DEF SendAnswer, TypeOK
    <3>3. /\ accepted' \in SUBSET Type /\ expect' \in SUBSET Type
          /\ ready' \in BOOLEAN
      BY <2>9, <3>1 DEF SendAnswer, TypeOK, readyVars
    <3> QED
      BY <2>9, <3>2, <3>3 DEF SendAnswer, TypeOK, serverVars, storeVars
  <2>10. CASE UNCHANGED vars
    BY <2>10 DEF vars, serverVars, streamVars, storeVars, readyVars, TypeOK
  <2> QED
    BY <2>1, <2>2, <2>3, <2>4, <2>6, <2>7, <2>8, <2>9, <2>10 DEF Next
<1> QED
  BY <1>1, <1>2, PTL DEF Spec

-----------------------------------------------------------------------------
(* Known resources                                                         *)

(* A resource the handler holds is always announced on reconnection, so    *)
(* its removal while the stream was down is not missed.                    *)
THEOREM HeldIsKnown == Spec => []AppliedKnown
<1>1. Init => AppliedKnown
  BY DEF Init, AppliedKnown
<1>2. AppliedKnown /\ [Next]_vars => AppliedKnown'
  <2> SUFFICES ASSUME AppliedKnown, [Next]_vars PROVE AppliedKnown'
    OBVIOUS
  <2>1. CASE Handle
    <3> SUFFICES ASSUME NEW n \in Name, applied'[n] # None PROVE n \in known'
      BY DEF AppliedKnown
    <3> DEFINE r == Head(toClient)
    <3>1. /\ applied' = Effect(r)
          /\ known' = (known \ Named(r, {"removed"})) \cup Named(r, {"good", "bad"})
      BY <2>1 DEF Handle
    <3>2. CASE n \in Named(r, {"good"})
      <4>1. n \in Named(r, {"good", "bad"})
        BY <3>2 DEF Named
      <4> QED  BY <3>1, <4>1
    <3>3. CASE n \notin Named(r, {"good"})
      <4>1. n \notin Named(r, {"removed"}) /\ applied[n] # None
        BY <3>1, <3>3 DEF Effect
      <4> QED  BY <3>1, <4>1 DEF AppliedKnown
    <3> QED  BY <3>2, <3>3
  <2>2. CASE UNCHANGED storeVars
    BY <2>2 DEF storeVars, AppliedKnown
  <2> QED
    BY <2>1, <2>2 DEF Next, Change, ReceiveRequest, Push, Connect, ConnectFails,
                      Disconnect, SendAnswer, vars
<1> QED
  BY <1>1, <1>2, PTL DEF Spec

-----------------------------------------------------------------------------
(* Readiness                                                               *)

ReadyCounts == expect = Type \ accepted /\ (ready => expect = {})

(* The client never reports readiness before every type was served.        *)
THEOREM ReadyIsServed == Spec => []ReadyMeansServed
<1>1. Init => ReadyCounts
  BY DEF Init, ReadyCounts
<1>2. ReadyCounts /\ [Next]_vars => ReadyCounts'
  <2> SUFFICES ASSUME ReadyCounts, [Next]_vars PROVE ReadyCounts'
    OBVIOUS
  <2>1. CASE SendAnswer
    BY <2>1 DEF SendAnswer, ReadyCounts, readyVars
  <2>2. CASE UNCHANGED readyVars
    BY <2>2 DEF readyVars, ReadyCounts
  <2> QED
    BY <2>1, <2>2 DEF Next, Change, ReceiveRequest, Push, Connect, ConnectFails,
                      Disconnect, Handle, vars
<1>3. TypeOK /\ ReadyCounts => ReadyMeansServed
  BY DEF TypeOK, ReadyCounts, ReadyMeansServed
<1> QED
  BY <1>1, <1>2, <1>3, TypeCorrect, PTL DEF Spec

-----------------------------------------------------------------------------
(* Versions                                                                *)

(* What the handler holds, what is in flight and what the control plane    *)
(* has are in this order, and responses in flight in order of sending.     *)
HeldBehind ==
  \A n \in Name : applied[n] # None => applied[n] <= config[n].version

FlightBehind ==
  \A i \in 1 .. Len(toClient) : \A x \in toClient[i].resources :
    /\ x.version <= config[x.name].version
    /\ applied[x.name] # None => applied[x.name] <= x.version

FlightOrdered ==
  \A i, j \in 1 .. Len(toClient) : i <= j =>
    \A x \in toClient[i].resources, y \in toClient[j].resources :
      x.name = y.name => x.version <= y.version

VersionsOrdered == HeldBehind /\ FlightBehind /\ FlightOrdered

LEMMA FlightType ==
  ASSUME TypeOK
  PROVE  \A i \in 1 .. Len(toClient) : \A x \in toClient[i].resources :
           x.name \in Name /\ x.version \in Nat
<1> SUFFICES ASSUME NEW i \in 1 .. Len(toClient), NEW x \in toClient[i].resources
             PROVE  x.name \in Name /\ x.version \in Nat
  OBVIOUS
<1>1. toClient[i] \in Response
  BY DEF TypeOK
<1>2. toClient[i].resources \subseteq
        [name : Name, version : Version, kind : {"good", "bad", "removed"}]
  BY <1>1 DEF Response
<1> QED  BY <1>2, XdsAssumption DEF Version

LEMMA ConfigType ==
  ASSUME TypeOK
  PROVE  \A n \in Name : config[n].version \in Nat
  BY XdsAssumption DEF TypeOK, Resource, Version

(* What is handled comes from the head of the stream.                      *)
LEMMA HandledVersion ==
  ASSUME TypeOK, toClient # <<>>, NEW n \in Name,
         Effect(Head(toClient))[n] # None
  PROVE  \/ Effect(Head(toClient))[n] = applied[n]
         \/ \E x \in toClient[1].resources :
              x.name = n /\ Effect(Head(toClient))[n] = x.version
<1> DEFINE r == Head(toClient)
<1>1. r = toClient[1]
  BY DEF TypeOK
<1>2. CASE n \in Named(r, {"good"})
  <2>1. \E x \in r.resources : x.name = n
    BY <1>2 DEF Named
  <2>2. PICK x \in r.resources : x = (CHOOSE y \in r.resources : y.name = n) /\ x.name = n
    BY <2>1
  <2>3. Effect(r)[n] = x.version
    BY <1>2, <2>2 DEF Effect
  <2> QED  BY <1>1, <2>2, <2>3
<1>3. CASE n \notin Named(r, {"good"})
  BY <1>3 DEF Effect
<1> QED  BY <1>2, <1>3

LEMMA HandleOrders ==
  ASSUME TypeOK, VersionsOrdered, Handle
  PROVE  /\ VersionsOrdered'
         /\ \A n \in Name : applied[n] # None /\ applied'[n] # None
                              => applied[n] <= applied'[n]
<1>1. /\ toClient # <<>> /\ toClient' = Tail(toClient)
      /\ applied' = Effect(Head(toClient)) /\ config' = config
  BY DEF Handle, serverVars
<1>2. /\ Len(toClient) \in Nat \ {0} /\ Len(toClient') = Len(toClient) - 1
      /\ \A i \in 1 .. Len(toClient') : toClient'[i] = toClient[i + 1]
  BY <1>1 DEF TypeOK
<1>3. 1 \in 1 .. Len(toClient)
  BY <1>2
<1>4. ASSUME NEW n \in Name, applied'[n] # None
      PROVE  /\ applied'[n] <= config[n].version
             /\ applied[n] # None => applied[n] <= applied'[n]
             /\ \A j \in 1 .. Len(toClient) : \A y \in toClient[j].resources :
                  y.name = n => applied'[n] <= y.version
  <2>1. CASE applied'[n] = applied[n]
    <3>1. applied[n] \in Nat
      BY <1>4, <2>1, XdsAssumption DEF TypeOK, Version
    <3> QED  BY <1>4, <2>1, <3>1 DEF VersionsOrdered, HeldBehind, FlightBehind
  <2>2. CASE applied'[n] # applied[n]
    <3>1. PICK x \in toClient[1].resources : x.name = n /\ applied'[n] = x.version
      BY <1>1, <1>4, <2>2, HandledVersion
    <3>2. /\ x.version <= config[n].version
          /\ applied[n] # None => applied[n] <= x.version
      BY <1>3, <3>1 DEF VersionsOrdered, FlightBehind
    <3>3. \A j \in 1 .. Len(toClient) : \A y \in toClient[j].resources :
            y.name = n => x.version <= y.version
      <4> SUFFICES ASSUME NEW j \in 1 .. Len(toClient), NEW y \in toClient[j].resources,
                          y.name = n
                   PROVE  x.version <= y.version
        OBVIOUS
      <4>1. 1 <= j
        BY <1>2
      <4> QED  BY <1>3, <3>1, <4>1 DEF VersionsOrdered, FlightOrdered
    <3> QED  BY <3>1, <3>2, <3>3
  <2> QED  BY <2>1, <2>2
<1>5. \A i \in 1 .. Len(toClient') : i + 1 \in 1 .. Len(toClient)
  BY <1>2
<1>6. HeldBehind'
  BY <1>1, <1>4 DEF HeldBehind
<1>7. FlightBehind'
  <2> SUFFICES ASSUME NEW i \in 1 .. Len(toClient'), NEW x \in toClient'[i].resources
               PROVE  /\ x.version <= config'[x.name].version
                      /\ applied'[x.name] # None => applied'[x.name] <= x.version
    BY DEF FlightBehind
  <2>1. i + 1 \in 1 .. Len(toClient) /\ x \in toClient[i + 1].resources
    BY <1>2, <1>5
  <2>2. x.name \in Name
    BY <2>1, FlightType
  <2> QED  BY <1>1, <1>4, <2>1, <2>2 DEF VersionsOrdered, FlightBehind
<1>8. FlightOrdered'
  <2> SUFFICES ASSUME NEW i \in 1 .. Len(toClient'), NEW j \in 1 .. Len(toClient'),
                      i <= j, NEW x \in toClient'[i].resources,
                      NEW y \in toClient'[j].resources, x.name = y.name
               PROVE  x.version <= y.version
    BY DEF FlightOrdered
  <2>1. i + 1 \in 1 .. Len(toClient) /\ j + 1 \in 1 .. Len(toClient) /\ i + 1 <= j + 1
    BY <1>2, <1>5
  <2>2. x \in toClient[i + 1].resources /\ y \in toClient[j + 1].resources
    BY <1>2
  <2> QED  BY <2>1, <2>2 DEF VersionsOrdered, FlightOrdered
<1> QED
  BY <1>4, <1>6, <1>7, <1>8 DEF VersionsOrdered

LEMMA PushOrders ==
  ASSUME TypeOK, VersionsOrdered, NEW t \in Type, Push(t)
  PROVE  VersionsOrdered'
<1> DEFINE rs == {[name |-> n, version |-> config[n].version,
                   kind |-> config[n].kind] : n \in Due(t)}
           new == [type |-> t, resources |-> rs]
<1>1. /\ toClient' = Append(toClient, new)
      /\ applied' = applied /\ config' = config
  BY DEF Push, storeVars
<1>2. \A x \in rs : x.name \in Name /\ x.version = config[x.name].version
  BY DEF Due
<1>3. /\ Len(toClient) \in Nat /\ Len(toClient') = Len(toClient) + 1
      /\ \A i \in 1 .. Len(toClient) : toClient'[i] = toClient[i]
      /\ toClient'[Len(toClient) + 1].resources = rs
  BY <1>1 DEF TypeOK
<1> HIDE DEF rs, new
<1>4. \A i \in 1 .. Len(toClient') : i \in 1 .. Len(toClient) \/ i = Len(toClient) + 1
  BY <1>3
<1>5. HeldBehind'
  BY <1>1 DEF VersionsOrdered, HeldBehind
<1>6. FlightBehind'
  <2> SUFFICES ASSUME NEW i \in 1 .. Len(toClient'), NEW x \in toClient'[i].resources
               PROVE  /\ x.version <= config'[x.name].version
                      /\ applied'[x.name] # None => applied'[x.name] <= x.version
    BY DEF FlightBehind
  <2>1. CASE i \in 1 .. Len(toClient)
    BY <1>1, <1>3, <2>1 DEF VersionsOrdered, FlightBehind
  <2>2. CASE i = Len(toClient) + 1
    <3>1. x.name \in Name /\ x.version = config[x.name].version
      BY <1>2, <1>3, <2>2
    <3>2. config[x.name].version <= config[x.name].version
      BY <3>1, ConfigType
    <3> QED  BY <1>1, <3>1, <3>2 DEF VersionsOrdered, HeldBehind
  <2> QED  BY <1>4, <2>1, <2>2
<1>7. FlightOrdered'
  <2> SUFFICES ASSUME NEW i \in 1 .. Len(toClient'), NEW j \in 1 .. Len(toClient'),
                      i <= j, NEW x \in toClient'[i].resources,
                      NEW y \in toClient'[j].resources, x.name = y.name
               PROVE  x.version <= y.version
    BY DEF FlightOrdered
  <2>1. CASE j \in 1 .. Len(toClient)
    <3>1. i \in 1 .. Len(toClient)
      BY <1>3, <2>1
    <3> QED  BY <1>3, <2>1, <3>1 DEF VersionsOrdered, FlightOrdered
  <2>2. CASE j = Len(toClient) + 1
    <3>1. y.version = config[x.name].version
      BY <1>2, <1>3, <2>2
    <3>2. x.version <= config[x.name].version
      BY <1>1, <1>6 DEF FlightBehind
    <3> QED  BY <3>1, <3>2
  <2> QED  BY <1>4, <2>1, <2>2
<1> QED
  BY <1>5, <1>6, <1>7 DEF VersionsOrdered

LEMMA ChangeOrders ==
  ASSUME TypeOK, VersionsOrdered, NEW m \in Name,
         NEW kind \in {"good", "bad", "removed"}, Change(m, kind)
  PROVE  VersionsOrdered'
<1>1. applied' = applied /\ toClient' = toClient
  BY DEF Change, storeVars, streamVars
<1>2. \A n \in Name : config[n].version <= config'[n].version
  BY ConfigType DEF Change, TypeOK
<1>3. \A n \in Name : config'[n].version \in Nat
  BY ConfigType DEF Change, TypeOK
<1>4. HeldBehind'
  <2> SUFFICES ASSUME NEW n \in Name, applied[n] # None
               PROVE  applied[n] <= config'[n].version
    BY <1>1 DEF HeldBehind
  <2>1. applied[n] \in Nat /\ applied[n] <= config[n].version
    BY XdsAssumption DEF TypeOK, Version, VersionsOrdered, HeldBehind
  <2> QED  BY <1>2, <1>3, <2>1, ConfigType
<1>5. FlightBehind'
  <2> SUFFICES ASSUME NEW i \in 1 .. Len(toClient), NEW x \in toClient[i].resources
               PROVE  /\ x.version <= config'[x.name].version
                      /\ applied[x.name] # None => applied[x.name] <= x.version
    BY <1>1 DEF FlightBehind
  <2>1. x.name \in Name /\ x.version \in Nat
    BY FlightType
  <2>2. /\ x.version <= config[x.name].version
        /\ applied[x.name] # None => applied[x.name] <= x.version
    BY DEF VersionsOrdered, FlightBehind
  <2> QED  BY <1>2, <1>3, <2>1, <2>2, ConfigType
<1>6. FlightOrdered'
  BY <1>1 DEF VersionsOrdered, FlightOrdered
<1> QED
  BY <1>4, <1>5, <1>6 DEF VersionsOrdered

LEMMA DisconnectOrders ==
  ASSUME VersionsOrdered, Disconnect
  PROVE  VersionsOrdered'
<1>1. applied' = applied /\ config' = config /\ Len(toClient') = 0
  BY DEF Disconnect, storeVars
<1> QED
  BY <1>1 DEF VersionsOrdered, HeldBehind, FlightBehind, FlightOrdered

LEMMA VersionsInvariant == Spec => []VersionsOrdered
<1>1. Init => VersionsOrdered
  <2> SUFFICES ASSUME Init PROVE VersionsOrdered
    OBVIOUS
  <2>1. Len(toClient) = 0 /\ \A n \in Name : applied[n] = None
    BY DEF Init
  <2> QED
    BY <2>1 DEF VersionsOrdered, HeldBehind, FlightBehind, FlightOrdered
<1>2. TypeOK /\ VersionsOrdered /\ [Next]_vars => VersionsOrdered'
  <2> SUFFICES ASSUME TypeOK, VersionsOrdered, [Next]_vars PROVE VersionsOrdered'
    OBVIOUS
  <2>1. CASE UNCHANGED <<config, applied, toClient>>
    BY <2>1 DEF VersionsOrdered, HeldBehind, FlightBehind, FlightOrdered
  <2> QED
    BY <2>1, HandleOrders, PushOrders, ChangeOrders, DisconnectOrders
    DEF Next, ReceiveRequest, Connect, ConnectFails, SendAnswer,
        vars, serverVars, streamVars, storeVars
<1> QED
  BY <1>1, <1>2, TypeCorrect, PTL DEF Spec

(* Reconnections and stale responses never take a resource back in time.   *)
THEOREM VersionsOnlyGrow == Spec => NeverOlder
<1>1. TypeOK /\ VersionsOrdered /\ [Next]_vars =>
        [\A n \in Name : applied[n] # None /\ applied'[n] # None
                           => applied[n] <= applied'[n]]_vars
  <2> SUFFICES ASSUME TypeOK, VersionsOrdered, [Next]_vars,
                      NEW n \in Name, applied[n] # None, applied'[n] # None
               PROVE  applied[n] <= applied'[n]
    OBVIOUS
  <2>1. CASE Handle
    BY <2>1, HandleOrders
  <2>2. CASE UNCHANGED applied
    <3>1. applied[n] \in Nat
      BY XdsAssumption DEF TypeOK, Version
    <3> QED  BY <2>2, <3>1
  <2> QED
    BY <2>1, <2>2
    DEF Next, Change, ReceiveRequest, Push, Connect, ConnectFails, Disconnect,
        SendAnswer, vars, storeVars
<1> QED
  BY <1>1, VersionsInvariant, TypeCorrect, PTL DEF Spec, NeverOlder

(* In every reachable state the client announces all its handlers hold and is *)
(* ready only after every type was accepted.                               *)
THEOREM AcceptedStaysServed == Spec => []AcceptedServed
  BY TypeCorrect, HeldIsKnown, ReadyIsServed, PTL DEF AcceptedServed

-----------------------------------------------------------------------------
(***************************************************************************)
(* DiscoveryStore: its indexes agree with the workloads and services it    *)
(* has, whatever is pushed and in whatever order.                          *)
(***************************************************************************)

(* Types                                                                   *)

LEMMA DetachType ==
  ASSUME NEW u \in Uid, NEW sets \in [Service -> SUBSET Uid]
  PROVE  Detach(u, sets) \in [Service -> SUBSET Uid]
  BY DEF Detach

(* The variables hold values of their types, and a service that is not     *)
(* there has neither VIPs nor endpoints.                                   *)
THEOREM DiscoveryTypeCorrect == DiscoverySpec => []DiscoveryTypeOK
<1>1. DiscoveryInit => DiscoveryTypeOK
  BY DEF DiscoveryInit, DiscoveryTypeOK
<1>2. DiscoveryTypeOK /\ [DiscoveryNext]_discoveryVars => DiscoveryTypeOK'
  <2> SUFFICES ASSUME DiscoveryTypeOK, [DiscoveryNext]_discoveryVars PROVE DiscoveryTypeOK'
    OBVIOUS
  <2> USE DiscoveryAssumption DEF DiscoveryTypeOK
  <2>1. ASSUME NEW u \in Uid, NEW w \in WorkloadPush, InsertWorkload(u, w)
        PROVE  DiscoveryTypeOK'
    <3>1. /\ Detach(u, endpoints) \in [Service -> SUBSET Uid]
          /\ Detach(u, staged) \in [Service -> SUBSET Uid]
      BY DetachType
    <3>2. endpoints' \in [Service -> SUBSET Uid] /\ staged' \in [Service -> SUBSET Uid]
      BY <2>1, <3>1 DEF InsertWorkload
    <3>3. \A s \in Service \ live : endpoints'[s] = {}
      BY <2>1 DEF InsertWorkload, Detach
    <3> QED  BY <2>1, <3>2, <3>3 DEF InsertWorkload
  <2>2. ASSUME NEW u \in Uid, RemoveWorkload(u) PROVE DiscoveryTypeOK'
    <3>1. \A s \in Service \ live : endpoints'[s] = {}
      BY <2>2 DEF RemoveWorkload, Detach
    <3> QED  BY <2>2, <3>1, DetachType DEF RemoveWorkload
  <2>3. ASSUME NEW s \in Service, NEW vs \in SUBSET Vip, InsertService(s, vs)
        PROVE  DiscoveryTypeOK'
    BY <2>3 DEF InsertService, Claims
  <2>4. ASSUME NEW s \in Service, RemoveService(s) PROVE DiscoveryTypeOK'
    BY <2>4 DEF RemoveService
  <2>5. CASE UNCHANGED discoveryVars
    BY <2>5 DEF discoveryVars
  <2> QED
    BY <2>1, <2>2, <2>3, <2>4, <2>5 DEF DiscoveryNext
<1> QED
  BY <1>1, <1>2, PTL DEF DiscoverySpec

-----------------------------------------------------------------------------
(* Endpoints and what waits for a service                                  *)

(* The two are kept by the same operations and only hold together: an      *)
(* insertion of a service moves into the one what it finds in the other.   *)
Joined(s) ==
  /\ endpoints[s] = IF s \in live THEN {u \in Wanted(s) : Includes(s, byUid[u])} ELSE {}
  /\ staged[s] = IF s \in live THEN {} ELSE Wanted(s)

(* A workload that has been detached is attached nowhere.                  *)
LEMMA DetachExact ==
  ASSUME DiscoveryTypeOK, NEW u \in Uid, NEW s \in Service, Joined(s)
  PROVE  /\ Detach(u, endpoints)[s] = endpoints[s] \ {u}
         /\ Detach(u, staged)[s] = staged[s] \ {u}
  BY DEF DiscoveryTypeOK, Detach, Joined, Wanted

LEMMA InsertWorkloadJoins ==
  ASSUME DiscoveryTypeOK, NEW s \in Service, Joined(s),
         NEW u \in Uid, NEW w \in WorkloadPush, InsertWorkload(u, w)
  PROVE  Joined(s)'
<1> USE DiscoveryAssumption DEF DiscoveryTypeOK
<1>1. /\ live' = live /\ w # Absent
      /\ byUid' = [byUid EXCEPT ![u] = w]
      /\ detached' = {p \in detached : p[1] # u}
      /\ endpoints'[s] = (endpoints[s] \ {u}) \cup
           IF s \in w.services /\ s \in live /\ Includes(s, w) THEN {u} ELSE {}
      /\ staged'[s] = (staged[s] \ {u}) \cup
           IF s \in w.services /\ s \notin live THEN {u} ELSE {}
  BY DetachExact DEF InsertWorkload
<1>2. ASSUME NEW x \in Uid, x # u
      PROVE  byUid'[x] = byUid[x] /\ (x \in Wanted(s)' <=> x \in Wanted(s))
  BY <1>1, <1>2 DEF Wanted
<1>3. byUid'[u] = w /\ (u \in Wanted(s)' <=> s \in w.services)
  BY <1>1 DEF Wanted
<1>4. \A x \in Uid : x \in endpoints'[s] <=>
        s \in live /\ x \in Wanted(s)' /\ Includes(s, byUid'[x])
  <2> SUFFICES ASSUME NEW x \in Uid
               PROVE  x \in endpoints'[s] <=>
                        s \in live /\ x \in Wanted(s)' /\ Includes(s, byUid'[x])
    OBVIOUS
  <2>1. CASE x = u
    BY <1>1, <1>3, <2>1
  <2>2. CASE x # u
    BY <1>1, <1>2, <2>2 DEF Joined
  <2> QED  BY <2>1, <2>2
<1>5. \A x \in Uid : x \in staged'[s] <=> s \notin live /\ x \in Wanted(s)'
  BY <1>1, <1>2, <1>3 DEF Joined
<1>6. Wanted(s)' \subseteq Uid /\ endpoints'[s] \subseteq Uid /\ staged'[s] \subseteq Uid
  BY <1>1 DEF Wanted
<1> QED
  BY <1>1, <1>4, <1>5, <1>6 DEF Joined, Includes

LEMMA RemoveWorkloadJoins ==
  ASSUME DiscoveryTypeOK, NEW s \in Service, Joined(s), NEW u \in Uid, RemoveWorkload(u)
  PROVE  Joined(s)'
<1> USE DEF DiscoveryTypeOK
<1>1. /\ live' = live
      /\ byUid' = [byUid EXCEPT ![u] = Absent]
      /\ detached' = {p \in detached : p[1] # u}
      /\ endpoints'[s] = endpoints[s] \ {u}
      /\ staged'[s] = staged[s] \ {u}
  BY DetachExact DEF RemoveWorkload
<1>2. Wanted(s)' = Wanted(s) \ {u}
  BY <1>1 DEF Wanted
<1>3. \A x \in Uid \ {u} : byUid'[x] = byUid[x]
  BY <1>1
<1>4. {x \in Wanted(s)' : Includes(s, byUid'[x])}
        = {x \in Wanted(s) : Includes(s, byUid[x])} \ {u}
  BY <1>2, <1>3 DEF Wanted, Includes
<1> QED
  BY <1>1, <1>2, <1>4 DEF Joined

LEMMA InsertServiceJoins ==
  ASSUME DiscoveryTypeOK, NEW s \in Service, Joined(s),
         NEW t \in Service, NEW vs \in SUBSET Vip, InsertService(t, vs)
  PROVE  Joined(s)'
<1>1. Wanted(s)' = Wanted(s) /\ UNCHANGED byUid /\ live' = live \cup {t}
  BY DEF InsertService, Wanted
<1>2. CASE s = t
  BY <1>1, <1>2 DEF InsertService, Joined, Wanted, DiscoveryTypeOK, Includes
<1>3. CASE s # t
  BY <1>1, <1>3 DEF InsertService, Joined, DiscoveryTypeOK, Includes
<1> QED  BY <1>2, <1>3

LEMMA RemoveServiceJoins ==
  ASSUME DiscoveryTypeOK, NEW s \in Service, Joined(s), NEW t \in Service, RemoveService(t)
  PROVE  Joined(s)'
<1>1. UNCHANGED byUid /\ live' = live \ {t}
  BY DEF RemoveService
<1>2. CASE s = t
  <2>1. Wanted(s)' = {}
    BY <1>1, <1>2 DEF RemoveService, Wanted
  <2> QED  BY <1>1, <1>2, <2>1 DEF RemoveService, Joined, DiscoveryTypeOK
<1>3. CASE s # t
  <2>1. Wanted(s)' = Wanted(s)
    BY <1>1, <1>3 DEF RemoveService, Wanted
  <2> QED  BY <1>1, <1>3, <2>1 DEF RemoveService, Joined, DiscoveryTypeOK, Includes
<1> QED  BY <1>2, <1>3

LEMMA JoinedInvariant == DiscoverySpec => [](\A s \in Service : Joined(s))
<1>1. DiscoveryInit => \A s \in Service : Joined(s)
  BY DEF DiscoveryInit, Joined, Wanted
<1>2. DiscoveryTypeOK /\ (\A s \in Service : Joined(s)) /\ [DiscoveryNext]_discoveryVars
        => (\A s \in Service : Joined(s))'
  <2> SUFFICES ASSUME DiscoveryTypeOK, \A s \in Service : Joined(s), [DiscoveryNext]_discoveryVars,
                      NEW s \in Service
               PROVE  Joined(s)'
    OBVIOUS
  <2>1. CASE DiscoveryNext
    BY <2>1, InsertWorkloadJoins, RemoveWorkloadJoins, InsertServiceJoins,
       RemoveServiceJoins DEF DiscoveryNext
  <2>2. CASE UNCHANGED discoveryVars
    BY <2>2 DEF discoveryVars, Joined, Wanted, Includes
  <2> QED  BY <2>1, <2>2
<1> QED
  BY <1>1, <1>2, DiscoveryTypeCorrect, PTL DEF DiscoverySpec

(* A service's endpoints are those of its workloads that are fit for it,   *)
(* whichever of the two arrived first.                                     *)
THEOREM JoinIsExact == DiscoverySpec => []EndpointsExact
<1>1. (\A s \in Service : Joined(s)) => EndpointsExact
  BY DEF Joined, EndpointsExact
<1> QED
  BY <1>1, JoinedInvariant, PTL

(* No endpoint waits for a service that is there, and none is forgotten.   *)
THEOREM StagingIsExact == DiscoverySpec => []StagedExact
<1>1. (\A s \in Service : Joined(s)) => StagedExact
  BY DEF Joined, StagedExact
<1> QED
  BY <1>1, JoinedInvariant, PTL

-----------------------------------------------------------------------------
(* The index by address                                                    *)

(* A lookup by address finds the workloads that have it, all of them.      *)
THEOREM AddressIndexIsExact == DiscoverySpec => []AddressesExact
<1>1. DiscoveryInit => AddressesExact
  BY DEF DiscoveryInit, AddressesExact
<1>2. DiscoveryTypeOK /\ AddressesExact /\ [DiscoveryNext]_discoveryVars => AddressesExact'
  <2> SUFFICES ASSUME DiscoveryTypeOK, AddressesExact, [DiscoveryNext]_discoveryVars PROVE AddressesExact'
    OBVIOUS
  <2> USE DiscoveryAssumption DEF DiscoveryTypeOK, AddressesExact
  <2>1. ASSUME NEW u \in Uid, NEW w \in WorkloadPush, InsertWorkload(u, w)
        PROVE  AddressesExact'
    <3> SUFFICES ASSUME NEW a \in Address
                 PROVE  byAddr'[a] = {x \in Uid : byUid'[x] # Absent /\ a \in byUid'[x].addrs}
      OBVIOUS
    <3>1. /\ byUid' = [byUid EXCEPT ![u] = w]
          /\ byAddr'[a] = IF a \in w.addrs THEN byAddr[a] \cup {u} ELSE byAddr[a] \ {u}
          /\ w # Absent
      BY <2>1 DEF InsertWorkload
    <3> QED  BY <3>1
  <2>2. ASSUME NEW u \in Uid, RemoveWorkload(u) PROVE AddressesExact'
    BY <2>2 DEF RemoveWorkload
  <2>3. ASSUME UNCHANGED <<byUid, byAddr>> PROVE AddressesExact'
    BY <2>3
  <2> QED
    BY <2>1, <2>2, <2>3 DEF DiscoveryNext, InsertService, RemoveService, discoveryVars
<1> QED
  BY <1>1, <1>2, DiscoveryTypeCorrect, PTL DEF DiscoverySpec

-----------------------------------------------------------------------------
(* The index by VIP                                                        *)

(* VipsExact is not inductive: that a VIP nobody ever contested has one    *)
(* owner, and is found to lead to it, is.                                  *)
VipOwners ==
  \A v \in Vip :
    /\ byVip[v] # Absent => v \in vips[byVip[v]]
    /\ v \notin contested => \A s \in Service : v \in vips[s] => byVip[v] = s

(* A VIP leads to a service that has it, and an uncontested one always     *)
(* leads to its owner.                                                     *)
THEOREM VipIndexIsExact == DiscoverySpec => []VipsExact
<1>1. DiscoveryInit => VipOwners
  BY DEF DiscoveryInit, VipOwners
<1>2. DiscoveryTypeOK /\ VipOwners /\ [DiscoveryNext]_discoveryVars => VipOwners'
  <2> SUFFICES ASSUME DiscoveryTypeOK, VipOwners, [DiscoveryNext]_discoveryVars, NEW v \in Vip
               PROVE  /\ byVip'[v] # Absent => v \in vips'[byVip'[v]]
                      /\ v \notin contested' =>
                           \A s \in Service : v \in vips'[s] => byVip'[v] = s
    BY DEF VipOwners
  <2> USE DiscoveryAssumption DEF DiscoveryTypeOK, VipOwners
  <2>1. ASSUME NEW t \in Service, NEW vs \in SUBSET Vip, InsertService(t, vs)
        PROVE  /\ byVip'[v] # Absent => v \in vips'[byVip'[v]]
               /\ v \notin contested' =>
                    \A s \in Service : v \in vips'[s] => byVip'[v] = s
    <3>1. /\ vips' = [vips EXCEPT ![t] = vs]
          /\ byVip'[v] = IF v \in vs THEN t
                         ELSE IF v \in vips[t] THEN Absent ELSE byVip[v]
          /\ contested' = contested \cup Claims(t, vs)
      BY <2>1 DEF InsertService
    <3>2. byVip'[v] # Absent => v \in vips'[byVip'[v]]
      BY <3>1
    <3>3. ASSUME v \notin contested', NEW s \in Service, v \in vips'[s]
          PROVE  byVip'[v] = s
      <4>1. CASE s = t
        BY <3>1, <3>3, <4>1
      <4>2. CASE s # t
        <5>1. v \in vips[s] /\ v \notin contested
          BY <3>1, <3>3, <4>2
        <5>2. v \notin vs
          BY <3>1, <3>3, <4>2, <5>1 DEF Claims
        <5> QED  BY <3>1, <4>2, <5>1, <5>2
      <4> QED  BY <4>1, <4>2
    <3> QED  BY <3>2, <3>3
  <2>2. ASSUME NEW t \in Service, RemoveService(t)
        PROVE  /\ byVip'[v] # Absent => v \in vips'[byVip'[v]]
               /\ v \notin contested' =>
                    \A s \in Service : v \in vips'[s] => byVip'[v] = s
    BY <2>2 DEF RemoveService
  <2>3. ASSUME UNCHANGED <<vips, byVip, contested>>
        PROVE  /\ byVip'[v] # Absent => v \in vips'[byVip'[v]]
               /\ v \notin contested' =>
                    \A s \in Service : v \in vips'[s] => byVip'[v] = s
    BY <2>3
  <2> QED
    BY <2>1, <2>2, <2>3 DEF DiscoveryNext, InsertWorkload, RemoveWorkload, discoveryVars
<1>3. DiscoveryTypeOK /\ VipOwners => VipsExact
  BY DiscoveryAssumption DEF DiscoveryTypeOK, VipOwners, VipsExact
<1> QED
  BY <1>1, <1>2, <1>3, DiscoveryTypeCorrect, PTL DEF DiscoverySpec

(* In every reachable state workloads and services are joined completely,  *)
(* whichever of them arrived first.                                        *)
THEOREM JoinStaysExact == DiscoverySpec => []JoinExact
  BY DiscoveryTypeCorrect, JoinIsExact, StagingIsExact, PTL DEF JoinExact

(* In every reachable state the indexes by address and by VIP agree with the *)
(* stored workloads and services.                                          *)
THEOREM IndexesStayExact == DiscoverySpec => []IndexesExact
  BY AddressIndexIsExact, VipIndexIsExact, PTL DEF IndexesExact

-----------------------------------------------------------------------------
(***************************************************************************)
(* EndpointSet: for any endpoints, buckets and timers.                     *)
(***************************************************************************)

LEMMA OrphanedType ==
  ASSUME handles \in SUBSET (Key \X BOOLEAN), NEW k \in Key
  PROVE  Orphaned(k) \in SUBSET (Key \X BOOLEAN)
<1> SUFFICES ASSUME NEW o \in Orphaned(k) PROVE o \in Key \X BOOLEAN
  OBVIOUS
<1>1. PICK h \in handles : o = <<h[1], h[2] /\ h[1] # k>>
  BY DEF Orphaned
<1>2. h[1] \in Key
  OBVIOUS
<1>3. (h[2] /\ h[1] # k) \in BOOLEAN
  BY Zenon
<1> QED  BY <1>1, <1>2, <1>3, Zenon

(* The variables hold values of their types, and no endpoint is healthy    *)
(* and evicted at once.                                                    *)
THEOREM EndpointTypeCorrect == EndpointSpec => []EndpointTypeOK
<1> USE EndpointAssumption DEF EndpointTypeOK, Time
<1>1. EndpointInit => EndpointTypeOK
  BY DEF EndpointInit
<1>2. EndpointTypeOK /\ [EndpointNext]_endpointVars => EndpointTypeOK'
  <2> SUFFICES ASSUME EndpointTypeOK, [EndpointNext]_endpointVars PROVE EndpointTypeOK'
    OBVIOUS
  <2>1. ASSUME NEW k \in Key, Add(k) PROVE EndpointTypeOK'
    <3>1. handles' \in SUBSET (Key \X BOOLEAN)
      BY <2>1, OrphanedType DEF Add
    <3> QED  BY <2>1, <3>1 DEF Add
  <2>2. ASSUME NEW k \in Key, Delete(k) PROVE EndpointTypeOK'
    <3>1. handles' \in SUBSET (Key \X BOOLEAN)
      BY <2>2, OrphanedType DEF Delete
    <3> QED  BY <2>2, <3>1 DEF Delete
  <2>3. ASSUME NEW k \in Key, StartRequest(k) PROVE EndpointTypeOK'
    <3>1. <<k, TRUE>> \in Key \X BOOLEAN
      OBVIOUS
    <3>2. handles' \in SUBSET (Key \X BOOLEAN)
      BY <2>3, <3>1 DEF StartRequest
    <3> QED  BY <2>3, <3>2 DEF StartRequest
  <2>4. ASSUME NEW h \in handles, FinishRequest(h) PROVE EndpointTypeOK'
    <3>1. /\ h[1] \in Key /\ handles' \in SUBSET handles
          /\ UNCHANGED <<active, rejected, heap, now>>
      BY <2>4 DEF FinishRequest
    <3>2. CASE UNCHANGED <<until, events>>
      BY <3>1, <3>2
    <3>3. ASSUME NEW d \in Span, SendEvict(h[1], d),
                 until' = IF h[2] THEN [until EXCEPT ![h[1]] = now + d] ELSE until
          PROVE  EndpointTypeOK'
      <4>1. now + d \in 0 .. MaxTime /\ events' = events \cup {<<h[1], now + d>>}
        BY <3>3 DEF SendEvict
      <4>2. events' \in SUBSET (Key \X (0 .. MaxTime))
        BY <3>1, <4>1
      <4>3. until' \in [Key -> 0 .. MaxTime \cup {NotEvicted}]
        BY <3>1, <3>3, <4>1
      <4> QED  BY <3>1, <4>2, <4>3
    <3> QED  BY <2>4, <3>2, <3>3 DEF FinishRequest
  <2>5. ASSUME NEW m \in events, ReceiveEvict(m) PROVE EndpointTypeOK'
    BY <2>5 DEF ReceiveEvict, Present
  <2>6. ASSUME NEW m \in heap, Unevict(m) PROVE EndpointTypeOK'
    BY <2>6 DEF Unevict, Readmit
  <2>7. CASE Tick
    BY <2>7 DEF Tick
  <2>8. CASE UNCHANGED endpointVars
    BY <2>8 DEF endpointVars
  <2> QED
    BY <2>1, <2>2, <2>3, <2>4, <2>5, <2>6, <2>7, <2>8 DEF EndpointNext
<1> QED
  BY <1>1, <1>2, PTL DEF EndpointSpec

-----------------------------------------------------------------------------
(* What the worker relies on: an evicted endpoint still among the healthy  *)
(* has its event on the way, and one among the rejected has an event on    *)
(* the way or a timer for the time it is marked with.                      *)
MarksArePending ==
  \A k \in Key : until[k] # NotEvicted =>
    /\ k \in active => <<k, until[k]>> \in events
    /\ k \in rejected => <<k, until[k]>> \in events \cup heap

LEMMA MarksInductive == EndpointTypeOK /\ MarksArePending /\ [EndpointNext]_endpointVars => MarksArePending'
<1> SUFFICES ASSUME EndpointTypeOK, MarksArePending, [EndpointNext]_endpointVars,
                    NEW k \in Key, until'[k] # NotEvicted
             PROVE  /\ k \in active' => <<k, until'[k]>> \in events'
                    /\ k \in rejected' => <<k, until'[k]>> \in events' \cup heap'
  BY DEF MarksArePending
<1> USE EndpointAssumption DEF EndpointTypeOK, MarksArePending
<1>1. ASSUME NEW j \in Key, Add(j) \/ Delete(j)
      PROVE  /\ j # k
             /\ until'[k] = until[k] /\ UNCHANGED <<events, heap>>
             /\ k \in active' <=> k \in active
             /\ k \in rejected' <=> k \in rejected
  BY <1>1 DEF Add, Delete
<1>2. ASSUME NEW j \in Key, StartRequest(j)
      PROVE  UNCHANGED <<active, rejected, until, events, heap>>
  BY <1>2 DEF StartRequest
<1>3. ASSUME NEW h \in handles, FinishRequest(h)
      PROVE  /\ UNCHANGED <<active, rejected, heap>>
             /\ events \subseteq events'
             /\ until'[k] = until[k] \/ <<k, until'[k]>> \in events'
  BY <1>3 DEF FinishRequest, SendEvict
<1>4. ASSUME NEW m \in events, ReceiveEvict(m)
      PROVE  /\ k \in active' => <<k, until'[k]>> \in events'
             /\ k \in rejected' => <<k, until'[k]>> \in events' \cup heap'
  <2>1. /\ until' = until /\ events' = events \ {m}
        /\ m[1] \in Key
    BY <1>4 DEF ReceiveEvict
  <2>2. CASE k = m[1]
    BY <1>4, <2>1, <2>2 DEF ReceiveEvict, Present
  <2>3. CASE k # m[1]
    BY <1>4, <2>1, <2>3 DEF ReceiveEvict, Present
  <2> QED  BY <2>2, <2>3
<1>5. ASSUME NEW m \in heap, Unevict(m)
      PROVE  /\ k \in active' => <<k, until'[k]>> \in events'
             /\ k \in rejected' => <<k, until'[k]>> \in events' \cup heap'
  <2>1. /\ events' = events /\ heap' = heap \ {m}
        /\ m[1] \in Key
        /\ rejected' = rejected \ {m[1]}
        /\ active' = active \cup ({m[1]} \cap rejected)
        /\ until' = IF m[1] \in rejected THEN [until EXCEPT ![m[1]] = NotEvicted] ELSE until
    BY <1>5 DEF Unevict, Readmit
  <2>2. CASE k = m[1]
    BY <2>1, <2>2
  <2>3. CASE k # m[1]
    BY <2>1, <2>3
  <2> QED  BY <2>2, <2>3
<1>6. CASE Tick
  BY <1>6 DEF Tick
<1>7. CASE UNCHANGED endpointVars
  BY <1>7 DEF endpointVars
<1> QED
  BY <1>1, <1>2, <1>3, <1>4, <1>5, <1>6, <1>7 DEF EndpointNext

LEMMA MarksInvariant == EndpointSpec => []MarksArePending
<1>1. EndpointInit => MarksArePending
  BY DEF EndpointInit, MarksArePending
<1> QED
  BY <1>1, MarksInductive, EndpointTypeCorrect, PTL DEF EndpointSpec

(* The mark of an endpoint never outlives what will reset it.              *)
THEOREM EvictableAgain == EndpointSpec => []StaysEvictable
<1>1. MarksArePending /\ EndpointTypeOK => StaysEvictable
  BY DEF MarksArePending, StaysEvictable, EndpointTypeOK, Present
<1> QED
  BY <1>1, MarksInvariant, EndpointTypeCorrect, PTL

(* Requests avoid evicted endpoints whatever the load, the updates and the *)
(* order in which evictions arrive.                                        *)
THEOREM EvictedIsAvoided == EndpointSpec => []EvictedAvoided
<1>1. MarksArePending /\ EndpointTypeOK => EvictedAvoided
  <2> SUFFICES ASSUME MarksArePending, EndpointTypeOK, NEW k \in Candidates,
                      until[k] # NotEvicted, active # {}
               PROVE  <<k, until[k]>> \in events
    BY DEF EvictedAvoided
  <2>1. k \in active
    <3>1. PICK b \in Nat : /\ b = Home[k] /\ k \in Present /\ IsBest(b)
      BY EndpointAssumption DEF Candidates, Present, EndpointTypeOK
    <3>2. PICK j \in active : Home[j] = b
      BY <3>1 DEF IsBest
    <3>3. j \in {i \in Present : IsBest(Home[i])} \cap active
      BY <3>1, <3>2 DEF Present
    <3> QED  BY <3>3 DEF Candidates
  <2> QED  BY <2>1 DEF MarksArePending, EndpointTypeOK
<1> QED
  BY <1>1, MarksInvariant, EndpointTypeCorrect, PTL

(* What a step may not do: take an endpoint back before the time of its    *)
(* own eviction.  The worker waits for the latest timer, and the mark of a *)
(* rejected endpoint has a timer unless its event is still on the way.     *)
ReturnsOnlyDue ==
  \A k \in rejected :
    (\E m \in heap : Unevict(m)) /\ k \in active' /\ until[k] # NotEvicted
      => until[k] <= now \/ <<k, until[k]>> \in events

(* No timer of another endpoint or of an earlier eviction brings an        *)
(* endpoint back before its time.                                          *)
THEOREM EvictedIsHeld == EndpointSpec => HeldUntilDue
<1>1. EndpointTypeOK /\ MarksArePending => ReturnsOnlyDue
  <2> SUFFICES ASSUME EndpointTypeOK, MarksArePending, NEW k \in rejected,
                      NEW m \in heap, Unevict(m), k \in active', until[k] # NotEvicted,
                      <<k, until[k]>> \notin events
               PROVE  until[k] <= now
    BY DEF ReturnsOnlyDue
  <2>1. <<k, until[k]>> \in heap
    BY DEF MarksArePending, EndpointTypeOK
  <2>2. until[k] <= m[2] /\ m[2] <= now
    BY <2>1 DEF Unevict, Top
  <2>3. until[k] \in Nat /\ m[2] \in Nat /\ now \in Nat
    BY EndpointAssumption DEF EndpointTypeOK, Time
  <2> QED  BY <2>2, <2>3
<1>2. EndpointTypeOK /\ MarksArePending => [ReturnsOnlyDue]_endpointVars
  BY <1>1
<1> QED
  BY <1>2, MarksInvariant, EndpointTypeCorrect, PTL DEF HeldUntilDue, ReturnsOnlyDue

(* In every reachable state marks, maps, events and timers of evictions agree. *)
THEOREM EvictionsStayConsistent == EndpointSpec => []EvictionsConsistent
  BY EndpointTypeCorrect, EvictableAgain, EvictedIsAvoided, PTL DEF EvictionsConsistent

-----------------------------------------------------------------------------
(***************************************************************************)
(* XdsConversion: a resource that is taken protects as much as the one     *)
(* that was sent, for any resources of the control plane.                  *)
(***************************************************************************)

LEMMA LeastPart ==
  ASSUME NEW T, T \subseteq Nat, T # {}
  PROVE \E x \in T : \A y \in T : x <= y
<1> DEFINE R == {ss \in Nat \X Nat : ss[1] < ss[2]}
<1>1. IsWellFoundedOn(R, Nat)
  BY NatLessThanWellFounded DEF OpToRel
<1>2. \E x \in T : \A y \in T : ~(<<y, x>> \in R)
  <2> HIDE DEF R
  <2> QED BY <1>1, WFMin
<1>3. PICK x \in T : \A y \in T : <<y, x>> \notin R
  BY <1>2
<1>4. ASSUME NEW y \in T PROVE x <= y
  <2>1. x \in Nat /\ y \in Nat
    OBVIOUS
  <2>2. <<y, x>> \notin R
    BY <1>3
  <2>3. <<y, x>> \in R <=> y < x
    BY <2>1
  <2> QED BY <2>1, <2>2, <2>3
<1> QED BY <1>4

(* What is taken has parts that all convert.                               *)
LEMMA NeedsAll ==
  ASSUME NEW parts, NEW n \in Nat, DOMAIN parts = 1..n, NEW v, Needs(parts, v).ok
  PROVE  Needs(parts, v) = Taken(v) /\ \A i \in 1..n : parts[i].ok
<1>1. CASE \A i \in DOMAIN parts : parts[i].ok
  BY <1>1 DEF Needs
<1>2. CASE ~\A i \in DOMAIN parts : parts[i].ok
  <2> DEFINE T == {i \in 1..n : ~parts[i].ok}
             First(i) == ~parts[i].ok /\ \A j \in 1..(i - 1) : parts[j].ok
             c == CHOOSE i \in DOMAIN parts : First(i)
  <2>1. T # {} /\ T \subseteq Nat
    BY <1>2
  <2>2. PICK x \in T : \A y \in T : x <= y
    <3> HIDE DEF T
    <3> QED BY <2>1, LeastPart
  <2>3. \A j \in 1..(x - 1) : j \in 1..n /\ ~(x <= j)
    BY <2>1, <2>2
  <2>4. x \in DOMAIN parts /\ First(x)
    BY <2>2, <2>3
  <2>5. First(c)
    <3> HIDE DEF First
    <3> QED BY Zenon, <2>4
  <2>6. Needs(parts, v) = parts[c]
    BY <1>2 DEF Needs
  <2> HIDE DEF c
  <2> QED BY <2>5, <2>6
<1> QED BY <1>1, <1>2

LEMMA NeedsOne ==
  ASSUME NEW a, NEW v, Needs(<<a>>, v).ok
  PROVE  a.ok /\ Needs(<<a>>, v) = Taken(v)
<1> DEFINE s == <<a>>
<1>1. 1 \in Nat /\ DOMAIN s = 1..1 /\ s[1] = a
  OBVIOUS
<1> HIDE DEF s
<1>2. Needs(s, v).ok
  BY DEF s
<1>3. Needs(s, v) = Taken(v) /\ \A i \in 1..1 : s[i].ok
  BY <1>1, <1>2, NeedsAll
<1>4. a.ok
  BY <1>1, <1>3
<1> QED BY <1>3, <1>4 DEF s

LEMMA NeedsTwo ==
  ASSUME NEW a, NEW b, NEW v, Needs(<<a, b>>, v).ok
  PROVE  a.ok /\ b.ok /\ Needs(<<a, b>>, v) = Taken(v)
<1> DEFINE s == <<a, b>>
<1>1. 2 \in Nat /\ DOMAIN s = 1..2 /\ s[1] = a /\ s[2] = b
  OBVIOUS
<1> HIDE DEF s
<1>2. Needs(s, v).ok
  BY DEF s
<1>3. Needs(s, v) = Taken(v) /\ \A i \in 1..2 : s[i].ok
  BY <1>1, <1>2, NeedsAll
<1>4. a.ok /\ b.ok
  BY <1>1, <1>3
<1> QED BY <1>3, <1>4 DEF s

LEMMA NeedsThree ==
  ASSUME NEW a, NEW b, NEW c, NEW v, Needs(<<a, b, c>>, v).ok
  PROVE  a.ok /\ b.ok /\ c.ok /\ Needs(<<a, b, c>>, v) = Taken(v)
<1> DEFINE s == <<a, b, c>>
<1>1. 3 \in Nat /\ DOMAIN s = 1..3 /\ s[1] = a /\ s[2] = b /\ s[3] = c
  OBVIOUS
<1> HIDE DEF s
<1>2. Needs(s, v).ok
  BY DEF s
<1>3. Needs(s, v) = Taken(v) /\ \A i \in 1..3 : s[i].ok
  BY <1>1, <1>2, NeedsAll
<1>4. a.ok /\ b.ok /\ c.ok
  BY <1>1, <1>3
<1> QED BY <1>3, <1>4 DEF s

LEMMA NeedsFour ==
  ASSUME NEW a, NEW b, NEW c, NEW d, NEW v, Needs(<<a, b, c, d>>, v).ok
  PROVE  a.ok /\ b.ok /\ c.ok /\ d.ok /\ Needs(<<a, b, c, d>>, v) = Taken(v)
<1> DEFINE s == <<a, b, c, d>>
<1>1. 4 \in Nat /\ DOMAIN s = 1..4 /\ s[1] = a /\ s[2] = b /\ s[3] = c /\ s[4] = d
  OBVIOUS
<1> HIDE DEF s
<1>2. Needs(s, v).ok
  BY DEF s
<1>3. Needs(s, v) = Taken(v) /\ \A i \in 1..4 : s[i].ok
  BY <1>1, <1>2, NeedsAll
<1>4. a.ok /\ b.ok /\ c.ok /\ d.ok
  BY <1>1, <1>3
<1> QED BY <1>3, <1>4 DEF s

LEMMA TakenIs == ASSUME NEW v PROVE Taken(v).is = v /\ Taken(v).ok
BY DEF Taken

LEMMA ListIndices ==
  ASSUME NEW s, NEW C, s \in Seq(C)
  PROVE  \E n \in Nat : DOMAIN s = 1..n
<1>1. Len(s) \in Nat /\ DOMAIN s = 1..Len(s)
  OBVIOUS
<1> QED BY <1>1

(* Rules that do not compile let nobody in.                                *)
LEMMA RulesCompiled == ASSUME NEW r PROVE RulesHold(r, CompiledRules(r))
<1> SUFFICES ASSUME NEW says \in SUBSET CallerSays, Admits(CompiledRules(r), says),
                    r.allow \cup r.deny # {}
             PROVE  r.deny \cap says = {} /\ r.allow \cap says # {}
  BY DEF RulesHold, Admits
<1> DEFINE A == {Permissive(e) : e \in r.allow}
           D == {Permissive(e) : e \in r.deny}
<1>1. CompiledRules(r).allow = A /\ CompiledRules(r).deny = D
  BY DEF CompiledRules
<1>2. A \cup D # {}
  OBVIOUS
<1>3. D \cap says = {} /\ A \cap says # {}
  <2> HIDE DEF A, D
  <2> QED BY <1>1, <1>2 DEF Admits
<1>4. \A e \in says : e # "broken" /\ e # "fails"
  BY DEF CallerSays
<1>5. r.deny \cap says = {}
  <2> SUFFICES ASSUME NEW e \in r.deny, e \in says PROVE FALSE
    OBVIOUS
  <2>1. Permissive(e) = e
    BY <1>4 DEF Permissive
  <2>2. e \in D
    BY <2>1
  <2> QED BY <1>3, <2>2
<1>6. r.allow \cap says # {}
  <2>1. PICK e \in r.allow : Permissive(e) \in says
    BY <1>3
  <2>2. Permissive(e) = e
    BY <1>4, <2>1 DEF Permissive
  <2> QED BY <2>1, <2>2
<1> QED BY <1>5, <1>6

LEMMA TrafficPolicyKept ==
  ASSUME NEW p, TrafficPolicyShaped(p), TrafficPolicy(p).ok
  PROVE  TrafficPolicyHolds(p, TrafficPolicy(p).is)
<1> DEFINE t == TrafficPolicy(p)
<1>1. CASE p.kind = "authorization"
  <2>1. t = Authorization(p)
    BY Zenon, <1>1 DEF TrafficPolicy
  <2>2. t.is.rules = CompiledRules(p)
    BY <2>1 DEF Authorization, Taken
  <2> HIDE DEF t
  <2>3. RulesHold(p, t.is.rules)
    BY <2>2, RulesCompiled
  <2> QED BY Zenon, <1>1, <2>3 DEF TrafficPolicyHolds, t
<1>2. CASE p.kind = "ext authz"
  <2>1. t = ExtAuthz(p)
    BY Zenon, <1>2 DEF TrafficPolicy
  <2>2. t.is.mode = ExtAuthzMode(p.mode)
    <3> DEFINE a == Required(p.protocol)
               b == IF p.protocol = "http" THEN Optional(p.headers) ELSE Taken(p.headers)
               v == [kind |-> "ext authz", target |-> Reference(p.target),
                     mode |-> ExtAuthzMode(p.mode), sends |-> p.sends \ {"broken"}]
    <3>1. t = Needs(<<a, b>>, v)
      BY <2>1 DEF ExtAuthz
    <3>2. v.mode = ExtAuthzMode(p.mode)
      OBVIOUS
    <3>3. t.ok
      OBVIOUS
    <3> HIDE DEF a, b, v, t
    <3>4. t = Taken(v)
      BY <3>1, <3>3, NeedsTwo
    <3> QED BY <3>2, <3>4 DEF Taken
  <2> HIDE DEF t
  <2>3. t.is.mode = "allow" => p.mode = "allow"
    BY <2>2 DEF ExtAuthzMode
  <2> QED BY Zenon, <1>2, <2>3 DEF TrafficPolicyHolds, t
<1>3. CASE p.kind = "ext proc"
  <2>1. t = ExternalProcessor(p)
    BY Zenon, <1>3 DEF TrafficPolicy
  <2> DEFINE v == [kind |-> "ext proc", target |-> Reference(p.target),
                   mode |-> IF p.mode = "open" THEN "open" ELSE "closed"]
  <2>2. t = Taken(v)
    BY Zenon, <2>1 DEF ExternalProcessor
  <2>3. v.mode = IF p.mode = "open" THEN "open" ELSE "closed"
    OBVIOUS
  <2> HIDE DEF t, v
  <2>4. t.is.mode = "open" => p.mode = "open"
    BY <2>2, <2>3 DEF Taken
  <2> QED BY Zenon, <1>3, <2>4 DEF TrafficPolicyHolds, t
<1>4. CASE p.kind = "jwt"
  <2>1. t = Jwt(p)
    BY Zenon, <1>4 DEF TrafficPolicy
  <2>2. t.is.mode = p.mode
    <3> DEFINE a == Optional(p.mode)
               b == Each(p.providers, Required)
               v == [kind |-> "jwt", mode |-> p.mode, providers |-> p.providers]
    <3>1. t = Needs(<<a, b>>, v)
      BY <2>1 DEF Jwt
    <3>2. v.mode = p.mode /\ t.ok
      OBVIOUS
    <3> HIDE DEF a, b, v, t
    <3>3. t = Taken(v)
      BY <3>1, <3>2, NeedsTwo
    <3> QED BY <3>2, <3>3 DEF Taken
  <2> HIDE DEF t
  <2> QED BY Zenon, <1>4, <2>2 DEF TrafficPolicyHolds, t
<1>5. CASE p.kind \in {"basic", "api key"}
  <2>1. t = Keys(p)
    BY Zenon, <1>5 DEF TrafficPolicy
  <2>2. t.is.mode = p.mode
    <3> DEFINE a == Optional(p.mode)
               v == [kind |-> p.kind, mode |-> p.mode]
    <3>1. t = Needs(<<a>>, v)
      BY <2>1 DEF Keys
    <3>2. v.mode = p.mode /\ t.ok
      OBVIOUS
    <3> HIDE DEF a, v, t
    <3>3. t = Taken(v)
      BY <3>1, <3>2, NeedsOne
    <3> QED BY <3>2, <3>3 DEF Taken
  <2> HIDE DEF t
  <2> QED BY Zenon, <1>5, <2>2 DEF TrafficPolicyHolds, t
<1>6. CASE p.kind = "remote limit"
  <2>1. t = RemoteRateLimit(p) /\ t.ok
    BY Zenon, <1>6 DEF TrafficPolicy
  <2> DEFINE v == [kind |-> "remote limit", target |-> p.target,
                   counts |-> IF p.type = "tokens" THEN "tokens" ELSE "requests",
                   values |-> {Permissive(e) : e \in p.values}]
  <2>2. t = IF Reference(p.target) = "invalid" THEN Refused ELSE Taken(v)
    BY Zenon, <2>1 DEF RemoteRateLimit
  <2>3. v.target = p.target /\ ~Refused.ok
    BY DEF Refused
  <2> HIDE DEF t, v
  <2>4. Reference(p.target) # "invalid" /\ t = Taken(v)
    BY <2>1, <2>2, <2>3
  <2>5. p.target # "invalid"
    BY <2>4 DEF Reference
  <2>6. t.is.target # "invalid"
    BY <2>3, <2>4, <2>5 DEF Taken
  <2> QED BY Zenon, <1>6, <2>6 DEF TrafficPolicyHolds, t
<1>7. CASE p.kind = "retry"
  <2>1. t = Retry(p)
    BY Zenon, <1>7 DEF TrafficPolicy
  <2>2. t.is.attempts = IF p.attempts % 256 = 0 THEN 1 ELSE p.attempts % 256
    <3> DEFINE a == Optional(p.backoff)
               b == Optional(p.codes)
               v == [kind |-> "retry",
                     attempts |-> IF p.attempts % 256 = 0 THEN 1 ELSE p.attempts % 256]
    <3>1. t = Needs(<<a, b>>, v)
      BY <2>1 DEF Retry
    <3>2. v.attempts = (IF p.attempts % 256 = 0 THEN 1 ELSE p.attempts % 256) /\ t.ok
      OBVIOUS
    <3> HIDE DEF a, b, v, t
    <3>3. t = Taken(v)
      BY <3>1, <3>2, NeedsTwo
    <3> QED BY <3>2, <3>3 DEF Taken
  <2>3. p.attempts \in Nat
    BY <1>7 DEF TrafficPolicyShaped
  <2>4. p.attempts % 256 \in 0..255
    BY <2>3
  <2> HIDE DEF t
  <2>5. t.is.attempts \in 1..255
    BY <2>2, <2>4
  <2> QED BY Zenon, <1>7, <2>5 DEF TrafficPolicyHolds, t
<1>8. CASE p.kind \notin {"authorization", "ext authz", "ext proc", "jwt", "basic", "api key",
                          "remote limit", "retry"}
  <2> HIDE DEF t
  <2> QED BY Zenon, <1>8 DEF TrafficPolicyHolds, t
<1> QED BY <1>1, <1>2, <1>3, <1>4, <1>5, <1>6, <1>7, <1>8

(* Lists: each of what is taken was taken.                                 *)
LEMMA ListTaken ==
  ASSUME NEW s, NEW C, s \in Seq(C), NEW c, DOMAIN c = DOMAIN s, NEW v, Needs(c, v).ok
  PROVE  Needs(c, v) = Taken(v) /\ \A i \in DOMAIN s : c[i].ok
<1>1. PICK n \in Nat : DOMAIN s = 1..n
  BY ListIndices
<1>2. DOMAIN c = 1..n
  BY <1>1
<1> QED BY <1>1, <1>2, NeedsAll

LEMMA BackendTlsKept ==
  ASSUME NEW p, BackendTls(p).ok
  PROVE  /\ BackendTls(p).is.verifies \in {"host", "nothing"} =>
              p.verification = BackendTls(p).is.verifies
         /\ p.verification = "all" /\ p.names # "absent" =>
              BackendTls(p).is.verifies = "names"
<1> DEFINE w == IF p.verification # "all" THEN p.verification
                ELSE IF p.names = "absent" THEN "all" ELSE "names"
           v == [kind |-> "tls", verifies |-> w,
                 client |-> p.cert # "absent" /\ p.key # "absent"]
           s == <<Optional(p.verification), Optional(p.root),
                  IF p.key = "absent" THEN Taken(p.cert) ELSE Optional(p.cert),
                  IF p.verification = "all" THEN Optional(p.names) ELSE Taken(p.names),
                  Optional(p.hostname)>>
           t == BackendTls(p)
<1>1. t = Needs(s, v) /\ t.ok
  BY DEF BackendTls
<1>2. 5 \in Nat /\ DOMAIN s = 1..5
  OBVIOUS
<1>3. v.verifies = w
  OBVIOUS
<1> HIDE DEF s, v, t
<1>4. t = Taken(v)
  BY <1>1, <1>2, NeedsAll
<1> HIDE DEF w
<1>5. t.is.verifies = w
  BY <1>3, <1>4 DEF Taken
<1> QED BY <1>5 DEF w, t

LEMMA BackendAuthKept ==
  ASSUME NEW p, BackendAuth(p).ok PROVE BackendAuth(p).is.auth = p.auth
<1> DEFINE t == BackendAuth(p)
           v == [kind |-> "auth", auth |-> p.auth]
           n == Needs(<<Required(p.source)>>, v)
<1>1. t = Taken(v) \/ t = Panicked \/ t = n \/ t = Refused
  <2>1. CASE p.auth \in {"passthrough", "key", "gcp"}
    <3>1. t = Taken(v)
      BY Zenon, <2>1 DEF BackendAuth
    <3> QED BY Zenon, <3>1
  <2>2. CASE p.auth = "managed identity" /\ p.source = "broken"
    <3>1. t = Panicked
      BY Zenon, <2>2 DEF BackendAuth
    <3> QED BY Zenon, <3>1
  <2>3. CASE p.auth \in {"aws", "azure"} \/ (p.auth = "managed identity" /\ p.source # "broken")
    <3>1. t = n
      BY Zenon, <2>3 DEF BackendAuth
    <3> QED BY Zenon, <3>1
  <2>4. CASE ~(\/ p.auth \in {"passthrough", "key", "gcp"}
               \/ p.auth = "managed identity" /\ p.source = "broken"
               \/ p.auth \in {"aws", "azure"} \/ (p.auth = "managed identity" /\ p.source # "broken"))
    <3>1. t = Refused
      BY Zenon, <2>4 DEF BackendAuth
    <3> QED BY Zenon, <3>1
  <2> QED BY Zenon, <2>1, <2>2, <2>3, <2>4
<1>2. ~Panicked.ok /\ ~Refused.ok
  BY DEF Panicked, Refused
<1>3. t.ok
  OBVIOUS
<1>4. n.ok => n = Taken(v)
  <2> HIDE DEF v
  <2> QED BY NeedsOne
<1>5. v.auth = p.auth
  OBVIOUS
<1> HIDE DEF t, v, n
<1>6. t = Taken(v)
  BY <1>1, <1>2, <1>3, <1>4
<1>7. t.is.auth = p.auth
  BY <1>5, <1>6 DEF Taken
<1> QED BY <1>7 DEF t

LEMMA PlainPolicyKept ==
  ASSUME NEW p, PlainBackendPolicy(p).ok, p.kind # "ai"
  PROVE  BackendPolicyHolds(p, PlainBackendPolicy(p).is)
<1> DEFINE t == PlainBackendPolicy(p)
<1>0. t.ok
  OBVIOUS
<1>1. CASE p.kind = "mcp authorization"
  <2>1. t = McpAuthorization(p)
    BY Zenon, <1>1 DEF PlainBackendPolicy
  <2> DEFINE v == [kind |-> "mcp authorization", rules |-> CompiledRules(p)]
  <2>4. t = Taken(v) /\ v.rules = CompiledRules(p)
    BY <2>1 DEF McpAuthorization
  <2> HIDE DEF v
  <2>2. t.is.rules = CompiledRules(p)
    BY <2>4 DEF Taken
  <2> HIDE DEF t
  <2>3. RulesHold(p, t.is.rules)
    BY <2>2, RulesCompiled
  <2> QED BY Zenon, <1>1, <2>3 DEF BackendPolicyHolds, t
<1>2. CASE p.kind = "mcp authentication"
  <2> DEFINE a == Required(p.jwks)
             b == Optional(p.mode)
             v == [kind |-> "mcp authentication", mode |-> p.mode,
                   provider |-> IF p.provider = "broken" THEN "absent" ELSE p.provider]
  <2>1. t = Needs(<<a, b>>, v)
    BY Zenon, <1>2 DEF PlainBackendPolicy, McpAuthentication
  <2>2. v.mode = p.mode
    OBVIOUS
  <2> HIDE DEF a, b, v, t
  <2>3. t = Taken(v) /\ a.ok
    BY <1>0, <2>1, NeedsTwo
  <2>4. t.is.mode = p.mode
    BY <2>2, <2>3 DEF Taken
  <2>5. p.jwks \notin {"absent", "broken"}
    BY <2>3 DEF a, Required, Refused
  <2> QED BY Zenon, <1>2, <2>4, <2>5 DEF BackendPolicyHolds, t
<1>3. CASE p.kind = "inference"
  <2> DEFINE a == Optional(p.mode)
             m == IF p.mode = "open" THEN "open" ELSE "closed"
             v == [kind |-> p.kind, target |-> Reference(p.target), mode |-> m]
  <2>1. t = Needs(<<a>>, v)
    BY Zenon, <1>3 DEF PlainBackendPolicy
  <2>2. v.mode = m
    OBVIOUS
  <2> HIDE DEF a, v, t
  <2>3. t = Taken(v)
    BY <1>0, <2>1, NeedsOne
  <2>4. t.is.mode = "open" => p.mode = "open"
    BY <2>2, <2>3 DEF Taken
  <2> QED BY Zenon, <1>3, <2>4 DEF BackendPolicyHolds, t
<1>4. CASE p.kind = "tls"
  <2>1. t = BackendTls(p)
    BY Zenon, <1>4 DEF PlainBackendPolicy
  <2> HIDE DEF t
  <2>2. /\ t.is.verifies \in {"host", "nothing"} => p.verification = t.is.verifies
        /\ p.verification = "all" /\ p.names # "absent" => t.is.verifies = "names"
    BY <1>0, <2>1, BackendTlsKept
  <2> QED BY Zenon, <1>4, <2>2 DEF BackendPolicyHolds, t
<1>5. CASE p.kind = "auth"
  <2>1. t = BackendAuth(p)
    BY Zenon, <1>5 DEF PlainBackendPolicy
  <2> HIDE DEF t
  <2>2. t.is.auth = p.auth
    BY <1>0, <2>1, BackendAuthKept
  <2> QED BY Zenon, <1>5, <2>2 DEF BackendPolicyHolds, t
<1>6. CASE p.kind \notin {"mcp authorization", "mcp authentication", "inference", "tls", "auth", "ai"}
  <2> HIDE DEF t
  <2> QED BY Zenon, <1>6 DEF BackendPolicyHolds, t
<1> QED BY <1>1, <1>2, <1>3, <1>4, <1>5, <1>6

(* A guard of a language model is taken as what it was.                    *)
LEMMA RegexKept ==
  ASSUME NEW g, g.kind = "regex" PROVE GuardHolds(g, RegexRules(g))
<1> DEFINE got == RegexRules(g)
<1>1. /\ got.kind = "regex" /\ got.rules = g.rules \ {"broken"}
      /\ got.action = IF g.action = "reject" THEN "reject" ELSE "mask"
  BY DEF RegexRules
<1> HIDE DEF got
<1>2. got.action = "reject" <=> g.action = "reject"
  BY <1>1
<1>3. GuardHolds(g, got)
  BY Zenon, <1>1, <1>2 DEF GuardHolds
<1> QED BY <1>3 DEF got

LEMMA WebhookKept ==
  ASSUME NEW g, g.kind = "webhook", Webhook(g).ok PROVE GuardHolds(g, Webhook(g).is)
<1> DEFINE a == HeaderMatches(g.headers)
           v == [kind |-> "webhook", target |-> Reference(g.target)]
           t == Webhook(g)
<1>1. t = Needs(<<a>>, v) /\ v.kind = "webhook" /\ t.ok
  BY DEF Webhook
<1> HIDE DEF a, v, t
<1>2. t = Taken(v)
  BY <1>1, NeedsOne
<1>3. t.is.kind = g.kind /\ g.kind # "regex"
  BY <1>1, <1>2 DEF Taken
<1>4. GuardHolds(g, t.is)
  BY Zenon, <1>3 DEF GuardHolds
<1> QED BY <1>4 DEF t

LEMMA GuardKept ==
  ASSUME NEW g, RequestGuard(g).ok PROVE GuardHolds(g, RequestGuard(g).is)
<1> DEFINE t == RequestGuard(g)
<1>0. t.ok
  OBVIOUS
<1>1. CASE g.kind = "regex"
  <2>1. t = Taken(RegexRules(g))
    BY Zenon, <1>1 DEF RequestGuard
  <2>2. t.is = RegexRules(g)
    BY Zenon, <2>1, TakenIs
  <2> QED BY Zenon, <1>1, <2>2, RegexKept
<1>2. CASE g.kind = "webhook"
  <2>1. t = Webhook(g)
    BY Zenon, <1>2 DEF RequestGuard
  <2> HIDE DEF t
  <2>2. GuardHolds(g, t.is)
    BY Zenon, <1>0, <1>2, <2>1, WebhookKept
  <2> QED BY <2>2 DEF t
<1>3. CASE g.kind = "moderation"
  <2> DEFINE a == Each(g.policies, PlainBackendPolicy)
             v == [kind |-> "moderation"]
  <2>1. t = Needs(<<a>>, v)
    BY Zenon, <1>3 DEF RequestGuard
  <2>2. v.kind = "moderation"
    OBVIOUS
  <2> HIDE DEF a, v, t
  <2>3. t = Taken(v)
    BY <1>0, <2>1, NeedsOne
  <2>4. t.is.kind = g.kind /\ g.kind # "regex"
    BY <1>3, <2>2, <2>3 DEF Taken
  <2>5. GuardHolds(g, t.is)
    BY Zenon, <2>4 DEF GuardHolds
  <2> QED BY <2>5 DEF t
<1>4. CASE g.kind \notin {"regex", "webhook", "moderation"}
  <2>1. t = Refused
    BY Zenon, <1>4 DEF RequestGuard
  <2> QED BY <1>0, <2>1 DEF Refused
<1> QED BY <1>1, <1>2, <1>3, <1>4

(* A list whose members all convert does.                                  *)
LEMMA HeadersTaken ==
  ASSUME NEW hs, \A j \in DOMAIN hs : hs[j] \notin {"absent", "broken"}
  PROVE  HeaderMatches(hs).ok
<1> DEFINE c == [j \in DOMAIN hs |-> Required(hs[j])]
           w == [j \in DOMAIN hs |-> Required(hs[j]).is]
<1>1. HeaderMatches(hs) = Needs(c, w)
  BY Zenon DEF HeaderMatches, Each
<1>2. \A j \in DOMAIN c : c[j].ok
  BY DEF Required, Taken
<1> HIDE DEF c, w
<1>3. Needs(c, w) = Taken(w)
  BY Zenon, <1>2 DEF Needs
<1>4. Taken(w).ok
  BY DEF Taken
<1> QED BY Zenon, <1>1, <1>3, <1>4

LEMMA ResponseGuardKept ==
  ASSUME NEW g,
         \/ g.kind = "regex"
         \/ g.kind = "webhook" /\ \A j \in DOMAIN g.headers : g.headers[j] \notin {"absent", "broken"}
  PROVE  ResponseGuard(g).ok /\ GuardHolds(g, ResponseGuard(g).is)
<1> DEFINE t == ResponseGuard(g)
<1>1. CASE g.kind = "regex"
  <2>1. t = Taken(RegexRules(g))
    BY Zenon, <1>1 DEF ResponseGuard
  <2>2. t.is = RegexRules(g) /\ t.ok
    BY Zenon, <2>1, TakenIs
  <2> QED BY Zenon, <1>1, <2>2, RegexKept
<1>2. CASE g.kind = "webhook"
  <2>1. t = Webhook(g)
    BY Zenon, <1>2 DEF ResponseGuard
  <2>2. HeaderMatches(g.headers).ok
    <3>1. "webhook" # "regex"
      OBVIOUS
    <3> QED BY Zenon, <1>2, <3>1, HeadersTaken
  <2>3. Webhook(g).ok
    <3> DEFINE a == HeaderMatches(g.headers)
               v == [kind |-> "webhook", target |-> Reference(g.target)]
    <3>1. Webhook(g) = Needs(<<a>>, v)
      BY Zenon DEF Webhook
    <3> HIDE DEF a, v
    <3>2. \A i \in DOMAIN <<a>> : <<a>>[i].ok
      BY <2>2 DEF a
    <3>3. Needs(<<a>>, v) = Taken(v)
      BY Zenon, <3>2 DEF Needs
    <3> QED BY Zenon, <3>1, <3>3, TakenIs
  <2>4. GuardHolds(g, Webhook(g).is)
    BY Zenon, <1>2, <2>3, WebhookKept
  <2> QED BY Zenon, <2>1, <2>3, <2>4
<1> QED BY <1>1, <1>2

LEMMA AiPolicyKept ==
  ASSUME NEW p, p.kind = "ai", BackendPolicyShaped(p), AiPolicy(p).ok
  PROVE  GuardsHold(p, AiPolicy(p).is)
<1> DEFINE q == p.requests
           t == AiPolicy(p)
           a == Each(q, RequestGuard)
           b == Optional(p.defaults)
           d == Optional(p.overrides)
           r == ResponseGuards(p.responses)
           v == [kind |-> "ai", requests |-> a.is, responses |-> r,
                 route |-> AiRouteType(p.route)]
           c == [i \in DOMAIN q |-> RequestGuard(q[i])]
           w == [i \in DOMAIN q |-> RequestGuard(q[i]).is]
<1>1. t = Needs(<<a, b, d>>, v) /\ t.ok
  BY Zenon DEF AiPolicy
<1>2. v.requests = a.is /\ v.responses = r
  OBVIOUS
<1>3. a = Needs(c, w)
  BY Zenon DEF Each
<1>4. DOMAIN c = DOMAIN q /\ \A i \in DOMAIN q : c[i] = RequestGuard(q[i])
  OBVIOUS
<1>5. DOMAIN w = DOMAIN q /\ \A i \in DOMAIN q : w[i] = RequestGuard(q[i]).is
  OBVIOUS
<1>6. q \in Seq({q[i] : i \in DOMAIN q})
  BY Zenon DEF BackendPolicyShaped, ListOf
<1>12. ASSUME NEW i \in DOMAIN p.responses,
              LET g == p.responses[i] IN
                \/ g.kind = "regex"
                \/ g.kind = "webhook" /\ \A j \in DOMAIN g.headers : g.headers[j] \notin {"absent", "broken"}
       PROVE  i \in DOMAIN r /\ GuardHolds(p.responses[i], r[i])
  <2> DEFINE g == p.responses[i]
  <2>1. ResponseGuard(g).ok /\ GuardHolds(g, ResponseGuard(g).is)
    BY Zenon, <1>12, ResponseGuardKept
  <2>2. i \in {j \in DOMAIN p.responses : ResponseGuard(p.responses[j]).ok}
    BY Zenon, <2>1
  <2>3. i \in DOMAIN r /\ r[i] = ResponseGuard(g).is
    BY <2>2 DEF ResponseGuards, EachThatConverts
  <2> QED BY Zenon, <2>1, <2>3
<1> HIDE DEF a, b, d, r, v, t
<1>7. t = Taken(v) /\ a.ok
  BY <1>1, NeedsThree
<1>8. a = Taken(w) /\ \A i \in DOMAIN q : c[i].ok
  <2> DEFINE C == {q[i] : i \in DOMAIN q}
  <2>1. q \in Seq(C)
    BY <1>6
  <2>2. Needs(c, w).ok
    BY <1>3, <1>7
  <2>3. DOMAIN c = DOMAIN q
    BY <1>4
  <2> HIDE DEF c, w, q, C
  <2> QED BY <1>3, <2>1, <2>2, <2>3, ListTaken
<1> HIDE DEF c, w
<1>9. t.is.requests = w /\ t.is.responses = r
  BY <1>2, <1>7, <1>8 DEF Taken
<1>10. \A i \in DOMAIN q : GuardHolds(q[i], w[i])
  BY <1>4, <1>5, <1>8, GuardKept
<1> HIDE DEF q
<1>11. DOMAIN t.is.requests = DOMAIN q /\ \A i \in DOMAIN q : GuardHolds(q[i], t.is.requests[i])
  BY Zenon, <1>5, <1>9, <1>10
<1>13. GuardsHold(p, t.is)
  BY Zenon, <1>9, <1>11, <1>12 DEF GuardsHold, q
<1> QED BY <1>13 DEF t

LEMMA BackendPolicyKept ==
  ASSUME NEW p, BackendPolicyShaped(p), BackendPolicy(p).ok
  PROVE  BackendPolicyHolds(p, BackendPolicy(p).is)
<1>1. CASE p.kind = "ai"
  <2> DEFINE t == BackendPolicy(p)
  <2>1. t = AiPolicy(p) /\ t.ok
    BY <1>1 DEF BackendPolicy
  <2> HIDE DEF t
  <2>2. GuardsHold(p, t.is)
    BY Zenon, <1>1, <2>1, AiPolicyKept
  <2> QED BY Zenon, <1>1, <2>2 DEF BackendPolicyHolds, t
<1>2. CASE p.kind # "ai"
  <2>1. BackendPolicy(p) = PlainBackendPolicy(p)
    BY <1>2 DEF BackendPolicy
  <2> QED BY <1>2, <2>1, PlainPolicyKept
<1> QED BY <1>1, <1>2

(* TLS of a listener that works has what was asked of it.                  *)
LEMMA TlsBuilt ==
  ASSUME NEW pair, NEW root, NEW min, NEW max, NEW suites,
         BuildServerTls(pair, root, min, max, suites).ok
  PROVE  LET tls == BuildServerTls(pair, root, min, max, suites).is IN
         /\ pair \notin {"absent", "broken"} /\ root # "broken"
         /\ tls.asksClient = (root # "absent")
         /\ tls.versions = TlsVersions(min, max) /\ tls.suites = suites
<1> DEFINE versions == TlsVersions(min, max)
           t == BuildServerTls(pair, root, min, max, suites)
           a == Optional(root)
           b == Required(pair)
           v == [works |-> TRUE, versions |-> versions, suites |-> suites,
                 asksClient |-> root # "absent"]
           n == Needs(<<a, b>>, v)
           unserved == versions # {} /\ suites # {} /\ ~\E s \in suites : SuiteServes(s, versions)
<1>1. t = Refused \/ t = Panicked \/ t = n
  <2>1. CASE versions = {}
    <3>1. t = Refused
      BY Zenon, <2>1 DEF BuildServerTls
    <3> QED BY Zenon, <3>1
  <2>2. CASE unserved
    <3>1. t = Panicked
      BY Zenon, <2>2 DEF BuildServerTls
    <3> QED BY Zenon, <3>1
  <2>3. CASE versions # {} /\ ~unserved
    <3>1. t = n
      BY Zenon, <2>3 DEF BuildServerTls
    <3> QED BY Zenon, <3>1
  <2> QED BY Zenon, <2>1, <2>2, <2>3
<1>2. t.ok /\ ~Panicked.ok /\ ~Refused.ok
  BY DEF Panicked, Refused
<1>3. v.asksClient = (root # "absent") /\ v.versions = versions /\ v.suites = suites
  OBVIOUS
<1> HIDE DEF a, b, v, t, versions
<1>4. t = Taken(v) /\ a.ok /\ b.ok
  <2>1. t = Needs(<<a, b>>, v) /\ Needs(<<a, b>>, v).ok
    BY <1>1, <1>2
  <2> QED BY <2>1, NeedsTwo
<1>5. root # "broken" /\ pair \notin {"absent", "broken"}
  BY <1>4 DEF a, b, Optional, Required, Refused
<1>6. t.is.asksClient = (root # "absent") /\ t.is.versions = versions /\ t.is.suites = suites
  BY <1>3, <1>4 DEF Taken
<1> QED BY <1>5, <1>6 DEF t, versions

LEMMA ServerTlsKept ==
  ASSUME NEW asked, ServerTls(asked).ok, ServerTls(asked).is.works
  PROVE  LET tls == ServerTls(asked).is IN
         /\ asked.pair \notin {"absent", "broken"} /\ asked.root # "broken"
         /\ asked.root # "absent" => tls.asksClient
         /\ asked.min = "1.3" => "1.2" \notin tls.versions
         /\ asked.max = "1.2" => "1.3" \notin tls.versions
         /\ tls.suites = asked.suites \cap KnownSuite
<1> DEFINE t == ServerTls(asked)
           min == TlsVersionOf(asked.min)
           max == TlsVersionOf(asked.max)
           suites == Suites(asked.suites)
           built == BuildServerTls(asked.pair, asked.root, min, max, suites)
<1>1. t = IF built.ok \/ built.panics THEN built ELSE Taken(InvalidTls)
  BY Zenon DEF ServerTls
<1>2. t.ok /\ t.is.works /\ ~InvalidTls.works
  BY DEF InvalidTls
<1>3. (asked.min = "1.3" => min = "1.3") /\ (asked.max = "1.2" => max = "1.2")
  BY DEF TlsVersionOf
<1>8. suites = asked.suites \cap KnownSuite
  BY Zenon DEF Suites
<1> HIDE DEF t, min, max, suites
<1>4. t = built /\ built.ok
  <2> HIDE DEF built
  <2>1. t # Taken(InvalidTls)
    <3>1. Taken(InvalidTls).is = InvalidTls
      BY DEF Taken
    <3> QED BY <1>2, <3>1
  <2> QED BY <1>1, <1>2, <2>1
<1>5. /\ asked.pair \notin {"absent", "broken"} /\ asked.root # "broken"
      /\ built.is.asksClient = (asked.root # "absent")
      /\ built.is.versions = TlsVersions(min, max) /\ built.is.suites = suites
  BY <1>4, TlsBuilt
<1>6. /\ min = "1.3" => "1.2" \notin TlsVersions(min, max)
      /\ max = "1.2" => "1.3" \notin TlsVersions(min, max)
  BY DEF TlsVersions
<1> HIDE DEF built
<1>7. /\ asked.root # "absent" => t.is.asksClient
      /\ asked.min = "1.3" => "1.2" \notin t.is.versions
      /\ asked.max = "1.2" => "1.3" \notin t.is.versions
      /\ t.is.suites = asked.suites \cap KnownSuite
  BY <1>3, <1>4, <1>5, <1>6, <1>8
<1> QED BY <1>5, <1>7 DEF t

LEMMA ListenerKept ==
  ASSUME NEW l, ConvertListener(l).ok
  PROVE  ListenerHolds(l, ConvertListener(l).is)
<1> DEFINE p == ListenerProtocol(l.protocol, l.tls)
           a == Required(l.protocol)
           b == Required(l.name)
           got == ConvertListener(l)
<1>1. got = Needs(<<a, p, b>>, p.is) /\ got.ok
  BY Zenon DEF ConvertListener
<1>2. got = Taken(p.is) /\ p.ok
  <2> HIDE DEF a, b, p, got
  <2> QED BY <1>1, NeedsThree
<1>3. got.is = p.is
  <2> HIDE DEF p, got
  <2> QED BY <1>2 DEF Taken
<1>4. CASE l.protocol \in {"https", "tls"} /\ l.tls # <<>>
  <2> DEFINE asked == l.tls[1]
             t == ServerTls(asked)
             v == [protocol |-> l.protocol, tls |-> <<t.is>>]
  <2>1. p = Needs(<<t>>, v)
    BY Zenon, <1>4 DEF ListenerProtocol
  <2>2. v.protocol = l.protocol /\ v.tls # <<>> /\ v.tls[1] = t.is
    OBVIOUS
  <2>3. p = Taken(v) /\ t.ok
    <3> HIDE DEF p, t, v
    <3> QED BY <1>2, <2>1, NeedsOne
  <2>4. p.is = v
    <3> HIDE DEF v
    <3> QED BY <2>3 DEF Taken
  <2> DEFINE Works == /\ asked.pair \notin {"absent", "broken"} /\ asked.root # "broken"
                      /\ asked.root # "absent" => t.is.asksClient
                      /\ asked.min = "1.3" => "1.2" \notin t.is.versions
                      /\ asked.max = "1.2" => "1.3" \notin t.is.versions
                      /\ t.is.suites = asked.suites \cap KnownSuite
  <2>5. t.is.works => Works
    BY <2>3, ServerTlsKept
  <2> HIDE DEF v, t, got
  <2>6. got.is.protocol = l.protocol /\ got.is.tls # <<>> /\ got.is.tls[1] = t.is
    <3> HIDE DEF p
    <3> QED BY <1>3, <2>2, <2>4
  <2>7. ListenerHolds(l, got.is)
    BY <2>5, <2>6 DEF ListenerHolds
  <2> QED BY <2>7 DEF got
<1>5. CASE l.protocol \in {"http", "tls", "tcp", "hbone"} /\ l.tls = <<>>
  <2> DEFINE v == [protocol |-> l.protocol, tls |-> <<>>]
  <2>1. p = Taken(v)
    BY Zenon, <1>5 DEF ListenerProtocol
  <2>2. v.protocol = l.protocol
    OBVIOUS
  <2> HIDE DEF v, p, got
  <2>3. got.is.protocol = l.protocol
    BY <1>3, <2>1, <2>2 DEF Taken
  <2>4. ListenerHolds(l, got.is)
    BY <1>5, <2>3 DEF ListenerHolds
  <2> QED BY <2>4 DEF got
<1>6. CASE ~(\/ l.protocol \in {"https", "tls"} /\ l.tls # <<>>
             \/ l.protocol \in {"http", "tls", "tcp", "hbone"} /\ l.tls = <<>>)
  <2>1. p = Refused
    BY Zenon, <1>6 DEF ListenerProtocol
  <2>2. ~Refused.ok
    BY DEF Refused
  <2> HIDE DEF p
  <2> QED BY <1>2, <2>1, <2>2
<1> QED BY Zenon, <1>4, <1>5, <1>6

(* A list of policies is taken as the list of what each became.            *)
LEMMA BackendPoliciesKept ==
  ASSUME NEW s, ListOf(s, BackendPolicyShaped), Each(s, BackendPolicy).ok
  PROVE  AllHold(s, Each(s, BackendPolicy).is, BackendPolicyHolds)
<1> DEFINE a == Each(s, BackendPolicy)
           c == [i \in DOMAIN s |-> BackendPolicy(s[i])]
           w == [i \in DOMAIN s |-> BackendPolicy(s[i]).is]
           C == {s[i] : i \in DOMAIN s}
<1>1. a = Needs(c, w) /\ a.ok
  BY Zenon DEF Each
<1>2. DOMAIN c = DOMAIN s /\ \A i \in DOMAIN s : c[i] = BackendPolicy(s[i])
  OBVIOUS
<1>3. DOMAIN w = DOMAIN s /\ \A i \in DOMAIN s : w[i] = BackendPolicy(s[i]).is
  OBVIOUS
<1>4. s \in Seq(C) /\ \A i \in DOMAIN s : BackendPolicyShaped(s[i])
  BY Zenon DEF ListOf
<1> HIDE DEF a, c, w, C
<1>5. a = Taken(w) /\ \A i \in DOMAIN s : c[i].ok
  BY <1>1, <1>2, <1>4, ListTaken
<1>6. a.is = w
  BY <1>5 DEF Taken
<1>7. \A i \in DOMAIN s : BackendPolicyHolds(s[i], w[i])
  BY <1>2, <1>3, <1>4, <1>5, BackendPolicyKept
<1>8. AllHold(s, a.is, BackendPolicyHolds)
  BY <1>3, <1>6, <1>7 DEF AllHold
<1> QED BY <1>8 DEF a

LEMMA TrafficPoliciesKept ==
  ASSUME NEW s, ListOf(s, TrafficPolicyShaped), Each(s, TrafficPolicy).ok
  PROVE  AllHold(s, Each(s, TrafficPolicy).is, TrafficPolicyHolds)
<1> DEFINE a == Each(s, TrafficPolicy)
           c == [i \in DOMAIN s |-> TrafficPolicy(s[i])]
           w == [i \in DOMAIN s |-> TrafficPolicy(s[i]).is]
           C == {s[i] : i \in DOMAIN s}
<1>1. a = Needs(c, w) /\ a.ok
  BY Zenon DEF Each
<1>2. DOMAIN c = DOMAIN s /\ \A i \in DOMAIN s : c[i] = TrafficPolicy(s[i])
  OBVIOUS
<1>3. DOMAIN w = DOMAIN s /\ \A i \in DOMAIN s : w[i] = TrafficPolicy(s[i]).is
  OBVIOUS
<1>4. s \in Seq(C) /\ \A i \in DOMAIN s : TrafficPolicyShaped(s[i])
  BY Zenon DEF ListOf
<1> HIDE DEF a, c, w, C
<1>5. a = Taken(w) /\ \A i \in DOMAIN s : c[i].ok
  BY <1>1, <1>2, <1>4, ListTaken
<1>6. a.is = w
  BY <1>5 DEF Taken
<1>7. \A i \in DOMAIN s : TrafficPolicyHolds(s[i], w[i])
  BY <1>2, <1>3, <1>4, <1>5, TrafficPolicyKept
<1>8. AllHold(s, a.is, TrafficPolicyHolds)
  BY <1>3, <1>6, <1>7 DEF AllHold
<1> QED BY <1>8 DEF a

LEMMA RouteBackendKept ==
  ASSUME NEW b, BackendShaped(b), RouteBackend(b).ok
  PROVE  AllHold(b.policies, RouteBackend(b).is.policies, BackendPolicyHolds)
<1> DEFINE a == Each(b.policies, BackendPolicy)
           v == [target |-> Reference(b.target), policies |-> a.is]
           t == RouteBackend(b)
<1>1. t = Needs(<<a>>, v) /\ t.ok
  BY Zenon DEF RouteBackend
<1>2. v.policies = a.is
  OBVIOUS
<1>3. t = Taken(v) /\ a.ok
  <2> HIDE DEF a, v, t
  <2> QED BY <1>1, NeedsOne
<1>4. AllHold(b.policies, a.is, BackendPolicyHolds)
  <2>1. ListOf(b.policies, BackendPolicyShaped)
    BY Zenon DEF BackendShaped
  <2> QED BY Zenon, <1>3, <2>1, BackendPoliciesKept
<1>5. t.is.policies = a.is
  <2> HIDE DEF a, v, t
  <2> QED BY <1>2, <1>3 DEF Taken
<1> QED BY Zenon, <1>4, <1>5

LEMMA RouteKept ==
  ASSUME NEW r, RouteShaped(r), ConvertRoute(r).ok
  PROVE  RouteHolds(r, ConvertRoute(r).is)
<1> DEFINE matches == Each(r.matches, RouteMatches)
           backends == Each(r.backends, RouteBackend)
           traffic == Each(r.policies, TrafficPolicy)
           name == Required(r.name)
           v == [matches |-> matches.is, backends |-> backends.is, policies |-> traffic.is]
           t == ConvertRoute(r)
<1>1. t = Needs(<<name, matches, backends, traffic>>, v) /\ t.ok
  BY Zenon DEF ConvertRoute
<1>2. v.backends = backends.is /\ v.policies = traffic.is
  OBVIOUS
<1>3. t = Taken(v) /\ backends.ok /\ traffic.ok
  <2> HIDE DEF name, matches, backends, traffic, v, t
  <2> QED BY <1>1, NeedsFour
<1>4. t.is.backends = backends.is /\ t.is.policies = traffic.is
  <2> HIDE DEF backends, traffic, v, t
  <2> QED BY <1>2, <1>3 DEF Taken
<1>5. AllHold(r.policies, traffic.is, TrafficPolicyHolds)
  <2>1. ListOf(r.policies, TrafficPolicyShaped)
    BY Zenon DEF RouteShaped
  <2> QED BY Zenon, <1>3, <2>1, TrafficPoliciesKept
<1> DEFINE s == r.backends
           c == [i \in DOMAIN s |-> RouteBackend(s[i])]
           w == [i \in DOMAIN s |-> RouteBackend(s[i]).is]
           C == {s[i] : i \in DOMAIN s}
<1>6. backends = Needs(c, w)
  BY Zenon DEF Each
<1>7. DOMAIN c = DOMAIN s /\ \A i \in DOMAIN s : c[i] = RouteBackend(s[i])
  OBVIOUS
<1>8. DOMAIN w = DOMAIN s /\ \A i \in DOMAIN s : w[i] = RouteBackend(s[i]).is
  OBVIOUS
<1>9. s \in Seq(C) /\ \A i \in DOMAIN s : BackendShaped(s[i])
  BY Zenon DEF RouteShaped, ListOf
<1> HIDE DEF backends, c, w, C, s
<1>10. backends = Taken(w) /\ \A i \in DOMAIN s : c[i].ok
  BY <1>3, <1>6, <1>7, <1>9, ListTaken
<1>11. backends.is = w
  BY <1>10 DEF Taken
<1>12. \A i \in DOMAIN s : AllHold(s[i].policies, w[i].policies, BackendPolicyHolds)
  BY <1>7, <1>8, <1>9, <1>10, RouteBackendKept
<1>13. AllHold(s, w, LAMBDA x, g : AllHold(x.policies, g.policies, BackendPolicyHolds))
  BY Zenon, <1>8, <1>12 DEF AllHold
<1>14. AllHold(r.backends, t.is.backends,
               LAMBDA x, g : AllHold(x.policies, g.policies, BackendPolicyHolds))
  <2>1. t.is.backends = w
    BY Zenon, <1>4, <1>11
  <2> HIDE DEF t, w
  <2> QED BY Zenon, <1>13, <2>1 DEF s
<1>15. AllHold(r.policies, t.is.policies, TrafficPolicyHolds)
  BY Zenon, <1>4, <1>5
<1> QED BY Zenon, <1>14, <1>15 DEF RouteHolds

LEMMA BackendKept ==
  ASSUME NEW b, BackendShaped(b), ConvertBackend(b).ok
  PROVE  AllHold(b.policies, ConvertBackend(b).is.policies, BackendPolicyHolds)
<1> DEFINE pols == Each(b.policies, BackendPolicy)
           name == Required(b.name)
           of == CASE b.of \in {"static", "dynamic"} -> Taken(b.of)
                   [] b.of = "ai" -> AiBackend(b.parts)
                   [] b.of = "mcp" -> Each(b.parts, XdsMcpTarget)
                   [] OTHER -> Refused
           v == [of |-> b.of, parts |-> of.is, policies |-> pols.is]
           t == ConvertBackend(b)
<1>1. t = Needs(<<pols, name, of>>, v) /\ t.ok
  BY Zenon DEF ConvertBackend
<1>2. v.policies = pols.is
  <2> HIDE DEF of, pols
  <2> QED OBVIOUS
<1>3. t = Taken(v) /\ pols.ok
  <2> HIDE DEF pols, name, of, v, t
  <2> QED BY <1>1, NeedsThree
<1>4. t.is.policies = pols.is
  <2> HIDE DEF pols, v, t
  <2> QED BY <1>2, <1>3 DEF Taken
<1>5. AllHold(b.policies, pols.is, BackendPolicyHolds)
  <2>1. ListOf(b.policies, BackendPolicyShaped)
    BY Zenon DEF BackendShaped
  <2> QED BY Zenon, <1>3, <2>1, BackendPoliciesKept
<1> QED BY Zenon, <1>4, <1>5

LEMMA FrontendPolicyKept ==
  ASSUME NEW p, FrontendPolicy(p).ok PROVE FrontendPolicyHolds(p, FrontendPolicy(p).is)
<1> SUFFICES ASSUME p.kind = "tls" PROVE FrontendPolicyHolds(p, FrontendPolicy(p).is)
  BY Zenon DEF FrontendPolicyHolds
<1> DEFINE v == [kind |-> "tls", min |-> TlsVersionOf(p.min), max |-> TlsVersionOf(p.max),
                 suites |-> Suites(p.suites)]
           t == FrontendPolicy(p)
<1>1. t = Taken(v)
  BY Zenon DEF FrontendPolicy
<1>2. /\ v.min = TlsVersionOf(p.min) /\ v.max = TlsVersionOf(p.max)
      /\ v.suites = p.suites \cap KnownSuite
  BY DEF Suites
<1>3. t.is = v
  BY Zenon, <1>1, TakenIs
<1> HIDE DEF v, t
<1>4. (p.min = "1.3" => t.is.min = "1.3") /\ (p.max = "1.2" => t.is.max = "1.2")
  BY <1>2, <1>3 DEF TlsVersionOf
<1>5. t.is.suites = p.suites \cap KnownSuite
  BY <1>2, <1>3
<1> QED BY Zenon, <1>4, <1>5 DEF FrontendPolicyHolds, t

LEMMA PolicyKept ==
  ASSUME NEW p, ConvertPolicy(p).ok
  PROVE  /\ p.type = "traffic" /\ TrafficPolicyShaped(p.spec) =>
              TrafficPolicyHolds(p.spec, ConvertPolicy(p).is.spec.policy)
         /\ p.type = "backend" /\ BackendPolicyShaped(p.spec) =>
              BackendPolicyHolds(p.spec, ConvertPolicy(p).is.spec)
         /\ p.type = "frontend" => FrontendPolicyHolds(p.spec, ConvertPolicy(p).is.spec)
<1> DEFINE c == CASE p.type = "traffic" -> Phased(p.spec)
                  [] p.type = "backend" -> BackendPolicy(p.spec)
                  [] p.type = "frontend" -> FrontendPolicy(p.spec)
                  [] OTHER -> Refused
           a == Required(p.target)
           v == [type |-> p.type, spec |-> c.is]
           t == ConvertPolicy(p)
<1>1. t = Needs(<<a, c>>, v) /\ t.ok
  BY Zenon DEF ConvertPolicy
<1>2. v.spec = c.is
  <2> HIDE DEF c
  <2> QED OBVIOUS
<1>3. t = Taken(v) /\ c.ok
  <2> HIDE DEF a, c, v, t
  <2> QED BY <1>1, NeedsTwo
<1>4. t.is.spec = c.is
  <2> HIDE DEF c, v, t
  <2> QED BY <1>2, <1>3 DEF Taken
<1>5. ASSUME p.type = "traffic", TrafficPolicyShaped(p.spec)
      PROVE  TrafficPolicyHolds(p.spec, t.is.spec.policy)
  <2> DEFINE q == TrafficPolicy(p.spec)
             d == Optional(p.spec.phase)
             w == [phase |-> p.spec.phase, policy |-> q.is]
  <2>1. c = Needs(<<q, d>>, w)
    BY Zenon, <1>5 DEF Phased
  <2>2. w.policy = q.is
    OBVIOUS
  <2> HIDE DEF c, q, d, w, t
  <2>3. c = Taken(w) /\ q.ok
    BY <1>3, <2>1, NeedsTwo
  <2>4. t.is.spec.policy = q.is
    BY <1>4, <2>2, <2>3 DEF Taken
  <2>5. TrafficPolicyHolds(p.spec, q.is)
    BY Zenon, <1>5, <2>3, TrafficPolicyKept DEF q
  <2> QED BY Zenon, <2>4, <2>5
<1>6. ASSUME p.type = "backend", BackendPolicyShaped(p.spec)
      PROVE  BackendPolicyHolds(p.spec, t.is.spec)
  <2>1. c = BackendPolicy(p.spec)
    BY Zenon, <1>6
  <2> HIDE DEF c, t
  <2>2. BackendPolicyHolds(p.spec, BackendPolicy(p.spec).is)
    BY Zenon, <1>3, <1>6, <2>1, BackendPolicyKept
  <2> QED BY Zenon, <1>4, <2>1, <2>2
<1>7. ASSUME p.type = "frontend" PROVE FrontendPolicyHolds(p.spec, t.is.spec)
  <2>1. c = FrontendPolicy(p.spec)
    BY Zenon, <1>7
  <2> HIDE DEF c, t
  <2>2. FrontendPolicyHolds(p.spec, FrontendPolicy(p.spec).is)
    BY Zenon, <1>3, <2>1, FrontendPolicyKept
  <2> QED BY Zenon, <1>4, <2>1, <2>2
<1> QED BY Zenon, <1>5, <1>6, <1>7

(* A resource of the control plane that is taken keeps what it restricts,  *)
(* whatever its fields hold and however many policies, backends and guards *)
(* it lists: no policy and no guard of requests is left out, no mode or    *)
(* verification is loosened, TLS of a listener works only as strict as     *)
(* named.  What it loses, of what does not compile or is not known, is     *)
(* rules to deny, patterns, guards of answers, suites and versions.        *)
THEOREM ResourcesKeepRestrictions == ConversionSpec => []RestrictionsKept
<1> DEFINE Inv == /\ xdsMessage \in XdsMessage
                  /\ taken = <<>> \/ taken = <<Convert(xdsMessage)>>
<1>1. ConversionInit => Inv
  BY DEF ConversionInit
<1>2. Inv /\ [ConversionNext]_xdsConversionVars => Inv'
  BY DEF ConversionNext, ResourceReceived, xdsConversionVars
<1>3. Inv => RestrictionsKept
  <2> SUFFICES ASSUME Inv, taken # <<>>, taken[1].ok PROVE RestrictionsKept
    BY Zenon DEF RestrictionsKept
  <2> DEFINE m == xdsMessage
             t == Convert(m)
  <2>1. taken[1] = t /\ t.ok /\ m \in XdsMessage
    <3>1. taken = <<t>> /\ m \in XdsMessage
      BY Zenon
    <3> HIDE DEF t
    <3> QED BY <3>1
  <2>2. CASE m.resource = "listener"
    <3>1. t = ConvertListener(m)
      BY Zenon, <2>2 DEF Convert
    <3>2. ListenerHolds(m, t.is)
      BY Zenon, <2>1, <3>1, ListenerKept
    <3> QED BY Zenon, <2>1, <2>2, <3>2 DEF RestrictionsKept
  <2>3. CASE m.resource = "route"
    <3>1. t = ConvertRoute(m)
      BY Zenon, <2>3 DEF Convert
    <3>2. RouteHolds(m, t.is)
      BY Zenon, <2>1, <2>3, <3>1, MessagesAssumption, RouteKept
    <3> QED BY Zenon, <2>1, <2>3, <3>2 DEF RestrictionsKept
  <2>4. CASE m.resource = "backend"
    <3>1. t = ConvertBackend(m)
      BY Zenon, <2>4 DEF Convert
    <3>2. AllHold(m.policies, t.is.policies, BackendPolicyHolds)
      BY Zenon, <2>1, <2>4, <3>1, MessagesAssumption, BackendKept
    <3> QED BY Zenon, <2>1, <2>4, <3>2 DEF RestrictionsKept
  <2>5. CASE m.resource = "policy"
    <3>1. t = ConvertPolicy(m)
      BY Zenon, <2>5 DEF Convert
    <3>2. /\ m.type = "traffic" => TrafficPolicyHolds(m.spec, t.is.spec.policy)
          /\ m.type = "backend" => BackendPolicyHolds(m.spec, t.is.spec)
          /\ m.type = "frontend" => FrontendPolicyHolds(m.spec, t.is.spec)
      BY Zenon, <2>1, <2>5, <3>1, MessagesAssumption, PolicyKept
    <3> QED BY Zenon, <2>1, <2>5, <3>2 DEF RestrictionsKept
  <2>6. CASE m.resource \notin {"listener", "route", "backend", "policy"}
    BY Zenon, <2>6 DEF RestrictionsKept
  <2> QED BY Zenon, <2>2, <2>3, <2>4, <2>5, <2>6
<1> QED BY <1>1, <1>2, <1>3, PTL DEF ConversionSpec
=============================================================================
