--------------------------- MODULE Traffic_proofs ---------------------------
(***************************************************************************)
(* Proofs about what a request meets on its way: the pool of HBONE         *)
(* connections, the local rate limiter, the HTTP proxy and the log.        *)
(***************************************************************************)
EXTENDS TLC, HbonePool, RateLimiter, HttpProxy, LogWriter, Integers, FiniteSetTheorems, WellFoundedInduction, TLAPS

-----------------------------------------------------------------------------
(***************************************************************************)
(* HbonePool, for any requests, destinations that collide in any way, and  *)
(* any number of connections.                                              *)
(***************************************************************************)

USE DEF HashFor, PoolWaiting, Locked, Finished

(* The types, but for the counters: that they stay natural numbers is a    *)
(* consequence of what they count.                                         *)
WithUser == {"have", "sent", "open", "half"}
PoolTypes ==
  /\ locks \in SUBSET Hash
  /\ holder \in [Hash -> Req \cup {NoReq}]
  /\ pooled \in SUBSET PoolConn
  /\ conn \in [PoolConn -> [dest : Dest, state : {"none", "up", "broken"}]]
  /\ streams \in [PoolConn -> Int]
  /\ step \in [Req -> PoolWaiting \cup Locked \cup Finished \cup WithUser]
  /\ using \in [Req -> PoolConn \cup {NoConn}]
  /\ news \in [Req -> BOOLEAN]
  /\ leaked \in [PoolConn -> Nat]

(* Whoever was given a connection keeps it, it was made, and to the right  *)
(* destination.                                                            *)
UsersConnected ==
  \A r \in Req :
    /\ step[r] \in WithUser => using[r] # NoConn
    /\ using[r] # NoConn => /\ conn[using[r]].dest = DestOf[r]
                            /\ conn[using[r]].state # "none"

LEMMA HashForType == \A r \in Req : HashFor(r) \in Hash
BY DestOfAssumption, HashOfAssumption

(* What the steps of a request share: only its own place and connection    *)
(* change.                                                                 *)
LEMMA GiveTypes ==
  ASSUME PoolTypes, NEW r \in Req, NEW c \in PoolConn, NEW rest \in SUBSET PoolConn,
         GiveAndCheckIn(r, c, rest)
  PROVE  /\ holder' \in [Hash -> Req \cup {NoReq}]
         /\ pooled' \in SUBSET PoolConn
         /\ step' = [step EXCEPT ![r] = "have"]
         /\ step' \in [Req -> PoolWaiting \cup Locked \cup Finished \cup WithUser]
         /\ using' = [using EXCEPT ![r] = c]
         /\ using' \in [Req -> PoolConn \cup {NoConn}]
         /\ news' \in [Req -> BOOLEAN]
         /\ holder' = [holder EXCEPT ![HashFor(r)] = NoReq]
<1>1. /\ using' = [using EXCEPT ![r] = c]
      /\ step' = [step EXCEPT ![r] = "have"]
      /\ holder' = [holder EXCEPT ![HashFor(r)] = NoReq]
  BY DEF GiveAndCheckIn, Goto, Unlock
<1>2. pooled' \in SUBSET PoolConn /\ news' \in [Req -> BOOLEAN]
  BY DEF GiveAndCheckIn, PoolTypes
<1> QED  BY <1>1, <1>2 DEF PoolTypes, WithUser

LEMMA PoolTypesInvariant == PoolSpec => []PoolTypes
<1>1. PoolInit => PoolTypes
  BY DestOfAssumption DEF PoolInit, PoolTypes
<1>2. PoolTypes /\ [PoolNext]_poolVars => PoolTypes'
  <2> SUFFICES ASSUME PoolTypes, [PoolNext]_poolVars PROVE PoolTypes'
    OBVIOUS
  <2> USE DEF WithUser
  <2>1. ASSUME NEW r \in Req,
               \/ Connect(r) \/ InsertLock(r) \/ WinLock(r) \/ LoseLock(r) \/ Notified(r)
               \/ TakeLock(r) \/ DialNeeded(r) \/ DialFails(r)
        PROVE  PoolTypes'
    <3>1. CASE Connect(r)
      BY <3>1 DEF Connect, Goto, PoolTypes
    <3>2. CASE InsertLock(r)
      BY <3>2, HashForType DEF InsertLock, Goto, PoolTypes
    <3>3. CASE WinLock(r) \/ TakeLock(r)
      BY <3>3, HashForType DEF WinLock, TakeLock, Goto, PoolTypes
    <3>4. CASE LoseLock(r) \/ Notified(r) \/ DialNeeded(r)
      BY <3>4 DEF LoseLock, Notified, DialNeeded, Goto, PoolTypes
    <3>5. CASE DialFails(r)
      BY <3>5 DEF DialFails, Goto, Unlock, PoolTypes
    <3> QED  BY <2>1, <3>1, <3>2, <3>3, <3>4, <3>5
  <2>2. ASSUME NEW r \in Req, NEW c \in PoolConn, Reuse(r, c) \/ DialSucceeds(r, c)
        PROVE  PoolTypes'
    <3>1. CASE Reuse(r, c)
      <4>1. pooled \ {c} \in SUBSET PoolConn
        BY DEF PoolTypes
      <4> QED  BY <3>1, <4>1, GiveTypes DEF Reuse, PoolTypes
    <3>2. CASE DialSucceeds(r, c)
      <4>1. pooled \in SUBSET PoolConn /\ DestOf[r] \in Dest
        BY DestOfAssumption DEF PoolTypes
      <4>2. conn' \in [PoolConn -> [dest : Dest, state : {"none", "up", "broken"}]]
        BY <3>2, <4>1 DEF DialSucceeds, PoolTypes
      <4> QED  BY <3>2, <4>1, <4>2, GiveTypes DEF DialSucceeds, PoolTypes
    <3> QED  BY <2>2, <3>1, <3>2
  <2>3. ASSUME NEW r \in Req, NEW c \in PoolConn, DropBroken(r, c) \/ Collision(r, c)
        PROVE  PoolTypes'
    BY <2>3 DEF DropBroken, Collision, Goto, Unlock, PoolTypes
  <2>4. ASSUME NEW r \in Req,
               Send(r) \/ SendFails(r) \/ SendOk(r) \/ DropFirstHalf(r) \/ DropSecondHalf(r)
        PROVE  PoolTypes'
    BY <2>4 DEF Send, SendFails, SendOk, DropFirstHalf, DropSecondHalf, SetCount, Count,
                Goto, PoolTypes
  <2>5. ASSUME NEW r \in Req, Cancel(r)
        PROVE  PoolTypes'
    <3>1. step' \in [Req -> PoolWaiting \cup Locked \cup Finished \cup WithUser]
      BY <2>5 DEF Cancel, Goto, PoolTypes
    <3>2. holder' \in [Hash -> Req \cup {NoReq}]
      BY <2>5 DEF Cancel, Unlock, PoolTypes
    <3>3. leaked' \in [PoolConn -> Nat]
      <4>1. CASE step[r] = "sent" /\ using[r] \in PoolConn
        <5>1. leaked[using[r]] + 1 \in Nat
          BY <4>1 DEF PoolTypes
        <5> QED  BY <2>5, <4>1, <5>1 DEF Cancel, PoolTypes
      <4>2. CASE step[r] = "sent" /\ using[r] \notin PoolConn
        BY <2>5, <4>2 DEF Cancel, PoolTypes
      <4>3. CASE step[r] # "sent"
        BY <2>5, <4>3 DEF Cancel, PoolTypes
      <4> QED  BY <4>1, <4>2, <4>3
    <3> QED  BY <2>5, <3>1, <3>2, <3>3 DEF Cancel, PoolTypes
  <2>6. ASSUME NEW c \in PoolConn, Break(c) \/ IdleTimeout(c)
        PROVE  PoolTypes'
    BY <2>6 DEF Break, IdleTimeout, PoolTypes
  <2>7. CASE UNCHANGED poolVars
    BY <2>7 DEF poolVars, PoolTypes
  <2> QED
    BY <2>1, <2>2, <2>3, <2>4, <2>5, <2>6, <2>7 DEF PoolNext, Acquire
<1> QED  BY <1>1, <1>2, PTL DEF PoolSpec

-----------------------------------------------------------------------------
(* Locks                                                                   *)

(* Whatever a step does to the place of r and to the lock of its hash, no  *)
(* other request takes part in it.                                         *)
LEMMA LockMoves ==
  ASSUME PoolTypes, LockExcludes, NEW r \in Req,
         \A q \in Req \ {r} : step'[q] = step[q],
         \/ /\ holder' = holder /\ (step[r] \in Locked <=> step'[r] \in Locked)
         \/ /\ holder[HashFor(r)] = NoReq /\ holder' = [holder EXCEPT ![HashFor(r)] = r]
            /\ step'[r] \in Locked
         \/ /\ step[r] \in Locked /\ holder' = [holder EXCEPT ![HashFor(r)] = NoReq]
            /\ step'[r] \notin Locked
  PROVE  LockExcludes'
<1> SUFFICES ASSUME NEW q \in Req
             PROVE  step'[q] \in Locked <=> holder'[HashFor(q)] = q
  BY DEF LockExcludes
<1>1. HashFor(q) \in Hash /\ HashFor(r) \in Hash /\ NoReq \notin Req
  BY HashForType, NullAssumption
<1>2. step[q] \in Locked <=> holder[HashFor(q)] = q
  BY DEF LockExcludes
<1>3. step[r] \in Locked <=> holder[HashFor(r)] = r
  BY DEF LockExcludes
<1> HIDE DEF HashFor, Locked
<1> QED  BY <1>1, <1>2, <1>3 DEF PoolTypes

LEMMA LockInvariant == PoolSpec => []LockExcludes
<1>1. PoolInit => LockExcludes
  BY HashForType, NullAssumption DEF PoolInit, LockExcludes
<1>2. PoolTypes /\ LockExcludes /\ [PoolNext]_poolVars => LockExcludes'
  <2> SUFFICES ASSUME PoolTypes, LockExcludes, [PoolNext]_poolVars PROVE LockExcludes'
    OBVIOUS
  <2>1. ASSUME NEW r \in Req,
               \/ Connect(r) \/ InsertLock(r) \/ LoseLock(r) \/ Notified(r) \/ DialNeeded(r)
               \/ Send(r) \/ SendFails(r) \/ SendOk(r) \/ DropFirstHalf(r) \/ DropSecondHalf(r)
        PROVE  LockExcludes'
    <3>1. /\ \A q \in Req \ {r} : step'[q] = step[q]
          /\ holder' = holder /\ (step[r] \in Locked <=> step'[r] \in Locked)
      BY <2>1 DEF Connect, InsertLock, LoseLock, Notified, DialNeeded, Send, SendFails,
                  SendOk, DropFirstHalf, DropSecondHalf, Goto, PoolTypes
    <3> QED  BY <3>1, LockMoves
  <2>2. ASSUME NEW r \in Req, WinLock(r) \/ TakeLock(r)
        PROVE  LockExcludes'
    <3>1. /\ \A q \in Req \ {r} : step'[q] = step[q]
          /\ holder[HashFor(r)] = NoReq /\ holder' = [holder EXCEPT ![HashFor(r)] = r]
          /\ step'[r] \in Locked
      BY <2>2 DEF WinLock, TakeLock, Goto, PoolTypes
    <3> QED  BY <3>1, LockMoves
  <2>3. ASSUME NEW r \in Req, NEW c \in PoolConn,
               Reuse(r, c) \/ DialSucceeds(r, c) \/ Collision(r, c)
        PROVE  LockExcludes'
    <3>1. /\ \A q \in Req \ {r} : step'[q] = step[q]
          /\ step[r] \in Locked /\ holder' = [holder EXCEPT ![HashFor(r)] = NoReq]
          /\ step'[r] \notin Locked
      BY <2>3 DEF Reuse, DialSucceeds, Collision, GiveAndCheckIn, Goto, Unlock, PoolTypes
    <3> QED  BY <3>1, LockMoves
  <2>4. ASSUME NEW r \in Req, Cancel(r) \/ DialFails(r)
        PROVE  LockExcludes'
    <3>1. \A q \in Req \ {r} : step'[q] = step[q]
      BY <2>4 DEF Cancel, DialFails, Goto, PoolTypes
    <3>2. step'[r] \notin Locked
      BY <2>4 DEF Cancel, DialFails, Goto, PoolTypes
    <3>3. CASE step[r] \in Locked
      <4>1. holder' = [holder EXCEPT ![HashFor(r)] = NoReq]
        BY <2>4, <3>3 DEF Cancel, DialFails, Unlock
      <4> QED  BY <3>1, <3>2, <3>3, <4>1, LockMoves
    <3>4. CASE step[r] \notin Locked
      <4>1. holder' = holder
        BY <2>4, <3>4 DEF Cancel, DialFails
      <4> QED  BY <3>1, <3>2, <3>4, <4>1, LockMoves
    <3> QED  BY <3>3, <3>4
  <2>5. CASE UNCHANGED <<holder, step>>
    BY <2>5 DEF LockExcludes
  <2>6. ASSUME NEW r \in Req, NEW c \in PoolConn, DropBroken(r, c)
        PROVE  UNCHANGED <<holder, step>>
    BY <2>6 DEF DropBroken
  <2> QED
    BY <2>1, <2>2, <2>3, <2>4, <2>5, <2>6
    DEF PoolNext, Acquire, Break, IdleTimeout, poolVars
<1> QED  BY <1>1, <1>2, PoolTypesInvariant, PTL DEF PoolSpec

-----------------------------------------------------------------------------
(* Connections in use                                                      *)

LEMMA UsersStay ==
  ASSUME UsersConnected, UNCHANGED <<conn, using>>,
         \A r \in Req : step'[r] \in WithUser => step[r] \in WithUser
  PROVE  UsersConnected'
BY DEF UsersConnected

LEMMA UsersInvariant == PoolSpec => []UsersConnected
<1>1. PoolInit => UsersConnected
  BY DEF PoolInit, UsersConnected, WithUser
<1>2. PoolTypes /\ UsersConnected /\ [PoolNext]_poolVars => UsersConnected'
  <2> SUFFICES ASSUME PoolTypes, UsersConnected, [PoolNext]_poolVars PROVE UsersConnected'
    OBVIOUS
  <2>1. ASSUME NEW r \in Req,
               \/ Connect(r) \/ InsertLock(r) \/ WinLock(r) \/ LoseLock(r) \/ Notified(r)
               \/ TakeLock(r) \/ DialNeeded(r) \/ DialFails(r)
        PROVE  UsersConnected'
    <3>1. UNCHANGED <<conn, using>>
      BY <2>1 DEF Connect, InsertLock, WinLock, LoseLock, Notified, TakeLock, DialNeeded,
                  DialFails
    <3>2. \A q \in Req : step'[q] \in WithUser => step[q] \in WithUser
      BY <2>1 DEF Connect, InsertLock, WinLock, LoseLock, Notified, TakeLock, DialNeeded,
                  DialFails, Goto, PoolTypes, WithUser
    <3> QED  BY <3>1, <3>2, UsersStay
  <2>2. ASSUME NEW r \in Req,
               \/ Send(r) \/ SendFails(r) \/ SendOk(r)
               \/ DropFirstHalf(r) \/ DropSecondHalf(r) \/ Cancel(r)
        PROVE  UsersConnected'
    <3>1. UNCHANGED <<conn, using>>
      BY <2>2 DEF Send, SendFails, SendOk, DropFirstHalf, DropSecondHalf, Cancel
    <3>2. \A q \in Req : step'[q] \in WithUser => step[q] \in WithUser
      BY <2>2 DEF Send, SendFails, SendOk, DropFirstHalf, DropSecondHalf, Cancel, Goto,
                  PoolTypes, WithUser
    <3> QED  BY <3>1, <3>2, UsersStay
  <2>3. ASSUME NEW r \in Req, NEW c \in PoolConn, Reuse(r, c) \/ DialSucceeds(r, c)
        PROVE  UsersConnected'
    <3>1. /\ step' = [step EXCEPT ![r] = "have"] /\ using' = [using EXCEPT ![r] = c]
          /\ c # NoConn
      BY <2>3, NullAssumption DEF Reuse, DialSucceeds, GiveAndCheckIn, Goto
    <3>2. conn'[c].dest = DestOf[r] /\ conn'[c].state = "up"
      BY <2>3 DEF Reuse, DialSucceeds, PoolTypes
    <3>3. \A d \in PoolConn : conn[d].state # "none" => conn'[d] = conn[d]
      BY <2>3 DEF Reuse, DialSucceeds, PoolTypes
    <3> QED  BY <3>1, <3>2, <3>3 DEF UsersConnected, PoolTypes
  <2>4. ASSUME NEW c \in PoolConn, Break(c)
        PROVE  UsersConnected'
    <3>1. \A d \in PoolConn : /\ conn'[d].dest = conn[d].dest
                             /\ conn[d].state # "none" => conn'[d].state # "none"
      BY <2>4 DEF Break, PoolTypes
    <3> QED  BY <2>4, <3>1 DEF Break, UsersConnected, PoolTypes
  <2>5. CASE UNCHANGED <<conn, using, step>>
    BY <2>5, UsersStay
  <2>6. ASSUME NEW r \in Req, NEW c \in PoolConn, DropBroken(r, c) \/ Collision(r, c)
        PROVE  UsersConnected'
    <3>1. UNCHANGED <<conn, using>>
      BY <2>6 DEF DropBroken, Collision
    <3>2. \A q \in Req : step'[q] \in WithUser => step[q] \in WithUser
      BY <2>6 DEF DropBroken, Collision, Goto, PoolTypes, WithUser
    <3> QED  BY <3>1, <3>2, UsersStay
  <2> QED
    BY <2>1, <2>2, <2>3, <2>4, <2>5, <2>6 DEF PoolNext, Acquire, IdleTimeout, poolVars
<1> QED  BY <1>1, <1>2, PoolTypesInvariant, PTL DEF PoolSpec

-----------------------------------------------------------------------------
(* Counters of streams                                                     *)

Streaming(c) == {r \in Req : using[r] = c /\ step[r] \in {"sent", "open"}}
OnStream(r, c) == using[r] = c /\ step[r] \in {"sent", "open"}
One(yes) == IF yes THEN 1 ELSE 0

(* Two sets that agree on all but one element differ by that one at most.  *)
LEMMA AllButOne ==
  ASSUME NEW before, NEW after, NEW r, \A q : q # r => (q \in before <=> q \in after)
  PROVE  /\ (r \in before <=> r \in after) => after = before
         /\ r \in after => after = before \cup {r}
         /\ r \notin after => after = before \ {r}
<1>1. ASSUME r \in before <=> r \in after PROVE after = before
  <2>1. \A q : q \in after <=> q \in before
    BY <1>1
  <2> QED  BY <2>1
<1>2. ASSUME r \in after PROVE after = before \cup {r}
  <2>1. \A q : q \in after <=> q \in before \cup {r}
    BY <1>2
  <2> QED  BY <2>1
<1>3. ASSUME r \notin after PROVE after = before \ {r}
  <2>1. \A q : q \in after <=> q \in before \ {r}
    BY <1>3
  <2> QED  BY <2>1
<1> QED  BY <1>1, <1>2, <1>3

(* If one request moves, and the counter of each connection moves with it, *)
(* up when its stream begins to count and down when it ceases to, the      *)
(* counters stay right.                                                    *)
LEMMA CountMoves ==
  ASSUME PoolTypes, PoolTypes', CountBalanced, NEW r \in Req,
         \A q \in Req \ {r} : step'[q] = step[q] /\ using'[q] = using[q],
         \A c \in PoolConn :
           streams'[c] - leaked'[c]
             = streams[c] - leaked[c] + One(OnStream(r, c)') - One(OnStream(r, c))
  PROVE  CountBalanced'
<1> SUFFICES ASSUME NEW c \in PoolConn
             PROVE  streams'[c] = leaked'[c] + Cardinality(Streaming(c)')
  BY DEF CountBalanced, Streaming
<1> DEFINE before == Streaming(c)
           after == Streaming(c)'
<1>1. streams[c] = leaked[c] + Cardinality(before)
  BY DEF CountBalanced, Streaming
<1>2. /\ IsFiniteSet(before) /\ Cardinality(before) \in Nat
      /\ IsFiniteSet(after) /\ Cardinality(after) \in Nat
  BY ReqAssumption, FS_Subset, FS_CardinalityType DEF Streaming
<1>3. streams[c] \in Int /\ leaked[c] \in Int /\ streams'[c] \in Int /\ leaked'[c] \in Int
  BY DEF PoolTypes
<1>4. r \in before <=> OnStream(r, c)
  BY DEF Streaming, OnStream
<1>5. r \in after <=> OnStream(r, c)'
  BY DEF Streaming, OnStream
<1>6. \A q : q # r => (q \in before <=> q \in after)
  BY DEF Streaming
<1>7. /\ (r \in before <=> r \in after) => after = before
      /\ r \in after => after = before \cup {r}
      /\ r \notin after => after = before \ {r}
  <2> HIDE DEF before, after
  <2> QED  BY <1>6, AllButOne
<1>8. streams'[c] - leaked'[c]
        = streams[c] - leaked[c] + One(OnStream(r, c)') - One(OnStream(r, c))
  OBVIOUS
<1> HIDE DEF before, after
<1>9. CASE r \in before <=> r \in after
  <2>1. before = after
    BY <1>7, <1>9
  <2>2. One(OnStream(r, c)') = One(OnStream(r, c))
    BY <1>4, <1>5, <1>9 DEF One
  <2>3. One(OnStream(r, c)) \in Int
    BY DEF One
  <2> QED  BY <1>1, <1>2, <1>3, <1>8, <2>1, <2>2, <2>3 DEF after
<1>10. CASE r \in after /\ r \notin before
  <2>1. after = before \cup {r}
    BY <1>7, <1>10
  <2>2. Cardinality(after) = Cardinality(before) + 1
    BY <1>2, <1>10, <2>1, FS_AddElement
  <2>3. One(OnStream(r, c)') = 1 /\ One(OnStream(r, c)) = 0
    BY <1>4, <1>5, <1>10 DEF One
  <2> QED  BY <1>1, <1>2, <1>3, <1>8, <2>2, <2>3 DEF after
<1>11. CASE r \in before /\ r \notin after
  <2>1. after = before \ {r}
    BY <1>7, <1>11
  <2>2. Cardinality(after) = Cardinality(before) - 1
    BY <1>2, <1>11, <2>1, FS_RemoveElement
  <2>3. One(OnStream(r, c)') = 0 /\ One(OnStream(r, c)) = 1
    BY <1>4, <1>5, <1>11 DEF One
  <2> QED  BY <1>1, <1>2, <1>3, <1>8, <2>2, <2>3 DEF after
<1> QED  BY <1>9, <1>10, <1>11

(* A step that counts nothing and moves nobody on or off a stream.         *)
LEMMA CountStays ==
  ASSUME PoolTypes, PoolTypes', CountBalanced, UNCHANGED <<streams, leaked>>, NEW r \in Req,
         \A q \in Req \ {r} : step'[q] = step[q] /\ using'[q] = using[q],
         \A c \in PoolConn : OnStream(r, c)' <=> OnStream(r, c)
  PROVE  CountBalanced'
<1>1. \A c \in PoolConn : One(OnStream(r, c)') = One(OnStream(r, c)) /\ One(OnStream(r, c)) \in Int
  BY DEF One
<1>2. \A c \in PoolConn : streams[c] \in Int /\ leaked[c] \in Int
  BY DEF PoolTypes
<1>3. \A c \in PoolConn :
        streams'[c] - leaked'[c]
          = streams[c] - leaked[c] + One(OnStream(r, c)') - One(OnStream(r, c))
  BY <1>1, <1>2
<1> QED  BY <1>3, CountMoves

LEMMA CountInvariant == PoolSpec => []CountBalanced
<1>1. PoolInit => CountBalanced
  <2> SUFFICES ASSUME PoolInit, NEW c \in PoolConn
               PROVE  streams[c] = leaked[c] + Cardinality(Streaming(c))
    BY DEF CountBalanced, Streaming
  <2>1. Streaming(c) = {}
    BY DEF PoolInit, Streaming
  <2>2. Cardinality(Streaming(c)) = 0
    BY <2>1, FS_EmptySet
  <2> QED  BY <2>2 DEF PoolInit
<1>2. PoolTypes /\ PoolTypes' /\ UsersConnected /\ CountBalanced /\ [PoolNext]_poolVars
        => CountBalanced'
  <2> SUFFICES ASSUME PoolTypes, PoolTypes', UsersConnected, CountBalanced,
                      [PoolNext]_poolVars
               PROVE  CountBalanced'
    OBVIOUS
  <2>1. ASSUME NEW r \in Req,
               \/ Connect(r) \/ InsertLock(r) \/ WinLock(r) \/ LoseLock(r) \/ Notified(r)
               \/ TakeLock(r) \/ DialNeeded(r) \/ DialFails(r)
               \/ SendOk(r) \/ DropSecondHalf(r)
        PROVE  CountBalanced'
    <3>1. /\ UNCHANGED <<streams, leaked, using>>
          /\ \E s : step' = [step EXCEPT ![r] = s] /\ (s \in {"sent", "open"} <=> step[r] \in {"sent", "open"})
      BY <2>1 DEF Connect, InsertLock, WinLock, LoseLock, Notified, TakeLock, DialNeeded,
                  DialFails, SendOk, DropSecondHalf, Goto, PoolTypes
    <3>2. \A c \in PoolConn : OnStream(r, c)' <=> OnStream(r, c)
      BY <3>1 DEF OnStream, PoolTypes
    <3> QED  BY <3>1, <3>2, CountStays DEF PoolTypes
  <2>2. ASSUME NEW r \in Req, NEW c \in PoolConn,
               Reuse(r, c) \/ DialSucceeds(r, c) \/ Collision(r, c) \/ DropBroken(r, c)
        PROVE  CountBalanced'
    <3>1. /\ UNCHANGED <<streams, leaked>>
          /\ \A q \in Req \ {r} : step'[q] = step[q] /\ using'[q] = using[q]
          /\ step[r] \notin {"sent", "open"} /\ step'[r] \notin {"sent", "open"}
      BY <2>2 DEF Reuse, DialSucceeds, Collision, DropBroken, GiveAndCheckIn, Goto, PoolTypes
    <3>2. \A d \in PoolConn : OnStream(r, d)' <=> OnStream(r, d)
      BY <3>1 DEF OnStream
    <3> QED  BY <3>1, <3>2, CountStays
  <2>3. ASSUME NEW r \in Req, Send(r)
        PROVE  CountBalanced'
    <3> DEFINE u == using[r]
    <3>1. /\ u \in PoolConn /\ UNCHANGED <<leaked, using>>
          /\ streams' = [streams EXCEPT ![u] = streams[u] + 1]
          /\ step[r] = "have" /\ step' = [step EXCEPT ![r] = "sent"]
      BY <2>3 DEF Send, SetCount, Count, Goto, UsersConnected, PoolTypes, WithUser
    <3>2. \A c \in PoolConn : One(OnStream(r, c)') = One(c = u) /\ One(OnStream(r, c)) = 0
      BY <3>1 DEF OnStream, PoolTypes, One
    <3>3. \A c \in PoolConn :
            streams'[c] - leaked'[c]
              = streams[c] - leaked[c] + One(OnStream(r, c)') - One(OnStream(r, c))
      BY <3>1, <3>2 DEF PoolTypes, One
    <3> QED  BY <3>1, <3>3, CountMoves DEF PoolTypes
  <2>4. ASSUME NEW r \in Req, SendFails(r) \/ DropFirstHalf(r)
        PROVE  CountBalanced'
    <3> DEFINE u == using[r]
    <3>1. /\ u \in PoolConn /\ UNCHANGED <<leaked, using>>
          /\ streams' = [streams EXCEPT ![u] = streams[u] - 1]
          /\ step[r] \in {"sent", "open"}
          /\ \A q \in Req \ {r} : step'[q] = step[q]
          /\ step'[r] \notin {"sent", "open"}
      BY <2>4 DEF SendFails, DropFirstHalf, SetCount, Count, Goto, UsersConnected, PoolTypes,
                  WithUser
    <3>2. \A c \in PoolConn : One(OnStream(r, c)) = One(c = u) /\ One(OnStream(r, c)') = 0
      BY <3>1 DEF OnStream, One
    <3>3. \A c \in PoolConn :
            streams'[c] - leaked'[c]
              = streams[c] - leaked[c] + One(OnStream(r, c)') - One(OnStream(r, c))
      <4> SUFFICES ASSUME NEW c \in PoolConn
            PROVE  streams'[c] - leaked'[c]
                     = streams[c] - leaked[c] + One(OnStream(r, c)') - One(OnStream(r, c))
        OBVIOUS
      <4>1. streams[c] \in Int /\ leaked[c] \in Int
        BY DEF PoolTypes
      <4>2. CASE c = u
        <5>1. One(OnStream(r, c)) = 1 /\ One(OnStream(r, c)') = 0
          BY <3>1, <3>2, <4>2 DEF One
        <5> QED  BY <3>1, <3>2, <4>1, <4>2, <5>1 DEF PoolTypes
      <4>3. CASE c # u
        <5>1. One(OnStream(r, c)) = 0 /\ One(OnStream(r, c)') = 0
          BY <3>1, <3>2, <4>3 DEF One
        <5> QED  BY <3>1, <3>2, <4>1, <4>3, <5>1 DEF PoolTypes
      <4> QED  BY <4>2, <4>3
    <3> QED  BY <3>1, <3>3, CountMoves
  <2>5. ASSUME NEW r \in Req, Cancel(r)
        PROVE  CountBalanced'
    <3> DEFINE u == using[r]
    <3>1. /\ UNCHANGED <<streams, using>>
          /\ \A q \in Req \ {r} : step'[q] = step[q]
          /\ step'[r] = "failed" /\ step[r] # "open"
      BY <2>5 DEF Cancel, Goto, PoolTypes
    <3>2. CASE step[r] # "sent"
      <4>1. \A c \in PoolConn : OnStream(r, c)' <=> OnStream(r, c)
        BY <3>1, <3>2 DEF OnStream
      <4>2. leaked' = leaked
        BY <2>5, <3>2 DEF Cancel
      <4> QED  BY <3>1, <4>1, <4>2, CountStays
    <3>3. CASE step[r] = "sent"
      <4>1. u \in PoolConn /\ leaked' = [leaked EXCEPT ![u] = leaked[u] + 1]
        BY <2>5, <3>3 DEF Cancel, UsersConnected, PoolTypes, WithUser
      <4>2. \A c \in PoolConn : One(OnStream(r, c)) = One(c = u) /\ One(OnStream(r, c)') = 0
        BY <3>1, <3>3 DEF OnStream, One
      <4>3. \A c \in PoolConn :
              streams'[c] - leaked'[c]
                = streams[c] - leaked[c] + One(OnStream(r, c)') - One(OnStream(r, c))
        <5> SUFFICES ASSUME NEW c \in PoolConn
              PROVE  streams'[c] - leaked'[c]
                       = streams[c] - leaked[c] + One(OnStream(r, c)') - One(OnStream(r, c))
          OBVIOUS
        <5>1. streams[c] \in Int /\ leaked[c] \in Int
          BY DEF PoolTypes
        <5>2. CASE c = u
          <6>1. One(OnStream(r, c)) = 1 /\ One(OnStream(r, c)') = 0
            BY <3>1, <4>1, <4>2, <5>2 DEF One
          <6> QED  BY <3>1, <4>1, <4>2, <5>1, <5>2, <6>1 DEF PoolTypes
        <5>3. CASE c # u
          <6>1. One(OnStream(r, c)) = 0 /\ One(OnStream(r, c)') = 0
            BY <3>1, <4>1, <4>2, <5>3 DEF One
          <6> QED  BY <3>1, <4>1, <4>2, <5>1, <5>3, <6>1 DEF PoolTypes
        <5> QED  BY <5>2, <5>3
      <4> QED  BY <3>1, <4>3, CountMoves
    <3> QED  BY <3>2, <3>3
  <2>6. CASE UNCHANGED <<streams, leaked, using, step>>
    BY <2>6 DEF CountBalanced
  <2> QED
    BY <2>1, <2>2, <2>3, <2>4, <2>5, <2>6
    DEF PoolNext, Acquire, Break, IdleTimeout, poolVars
<1> QED  BY <1>1, <1>2, PoolTypesInvariant, UsersInvariant, PTL DEF PoolSpec

-----------------------------------------------------------------------------

(* The variables keep their types; a counter of streams in particular      *)
(* never goes below zero.                                                  *)
THEOREM PoolTypeCorrect == PoolSpec => []PoolTypeOK
<1>1. PoolTypes /\ CountBalanced => PoolTypeOK
  <2> SUFFICES ASSUME PoolTypes, CountBalanced PROVE PoolTypeOK
    OBVIOUS
  <2>1. \A c \in PoolConn : streams[c] \in Nat
    <3> SUFFICES ASSUME NEW c \in PoolConn PROVE streams[c] \in Nat
      OBVIOUS
    <3>1. Cardinality(Streaming(c)) \in Nat
      BY ReqAssumption, FS_Subset, FS_CardinalityType DEF Streaming
    <3>2. streams[c] = leaked[c] + Cardinality(Streaming(c)) /\ leaked[c] \in Nat
      BY DEF CountBalanced, Streaming, PoolTypes
    <3> QED  BY <3>1, <3>2
  <2>2. streams \in [PoolConn -> Nat]
    BY <2>1 DEF PoolTypes
  <2> QED  BY <2>2 DEF PoolTypes, PoolTypeOK, WithUser
<1> QED  BY <1>1, PoolTypesInvariant, CountInvariant, PTL

(* However requests of colliding hashes race, fail and are dropped, a lock *)
(* has one holder, a stream is counted once, and no request gets a         *)
(* connection to another destination than its own.                         *)
THEOREM PoolStaysConsistent == PoolSpec => []PoolConsistent
<1>1. UsersConnected => NeverCrossed
  BY DEF UsersConnected, NeverCrossed
<1> QED
  BY <1>1, PoolTypeCorrect, LockInvariant, CountInvariant, UsersInvariant, PTL
  DEF PoolConsistent

-----------------------------------------------------------------------------
(***************************************************************************)
(* Sums over finite sets.                                                  *)
(***************************************************************************)

(* Among finite sets there is one that is minimal for inclusion.           *)
LEMMA SmallestFinite ==
  ASSUME NEW F, F # {}, \A S \in F : IsFiniteSet(S)
  PROVE  \E S \in F : \A R \in F : R \subseteq S => R = S
<1> DEFINE U == UNION F
<1>1. F \subseteq FiniteSubsetsOf(U)
  BY DEF FiniteSubsetsOf
<1>2. PICK S \in F : \A R \in F : <<R, S>> \notin StrictSubsetOrdering(U)
  BY <1>1, FS_StrictSubsetOrderingWellFounded, WFMin
<1>3. \A R \in F : R \subseteq S => R = S
  BY <1>2 DEF StrictSubsetOrdering
<1> QED  BY <1>3

(* What MapThenFoldSet computes for the values g of the elements of S.     *)
Picked(s) == CHOOSE c \in s : TRUE
SumsOf(g, it, S) ==
  /\ it \in [SUBSET S -> Int]
  /\ \A s \in SUBSET S : it[s] = IF s = {} THEN 0 ELSE g[Picked(s)] + it[s \ {Picked(s)}]

LEMMA PickedIn == \A s : s # {} => Picked(s) \in s
BY DEF Picked

(* Sums of values that differ at one element differ by as much.            *)
LEMMA SumsDiffer ==
  ASSUME NEW S, NEW T, NEW U \in SUBSET (S \cap T), IsFiniteSet(U), NEW c,
         NEW g \in [S -> Int], NEW h \in [T -> Int],
         \A d \in S \cap T : d # c => g[d] = h[d],
         NEW it, SumsOf(g, it, S), NEW jt, SumsOf(h, jt, T)
  PROVE  jt[U] = it[U] + (IF c \in U THEN h[c] - g[c] ELSE 0)
<1> DEFINE Right(u) == jt[u] = it[u] + (IF c \in u THEN h[c] - g[c] ELSE 0)
           F == {u \in SUBSET U : ~Right(u)}
<1>1. \A u \in F : IsFiniteSet(u)
  BY FS_Subset
<1>2. SUFFICES ASSUME F # {} PROVE FALSE
  OBVIOUS
<1>3. PICK u \in F : \A v \in F : v \subseteq u => v = u
  <2> HIDE DEF F
  <2> QED  BY <1>1, <1>2, SmallestFinite
<1> DEFINE x == Picked(u)
           v == u \ {x}
<1>4. u \in SUBSET S /\ u \in SUBSET T
  OBVIOUS
<1>5. u # {}
  <2>1. it[{}] = 0 /\ jt[{}] = 0
    BY DEF SumsOf
  <2> QED  BY <2>1
<1>6. x \in u /\ x \in S \cap T
  BY <1>4, <1>5, PickedIn
<1>7. it[u] = g[x] + it[v] /\ jt[u] = h[x] + jt[v]
  BY <1>4, <1>5 DEF SumsOf
<1>8. it[v] \in Int /\ jt[v] \in Int /\ g[x] \in Int /\ h[x] \in Int
  <2>1. v \in SUBSET S /\ v \in SUBSET T
    BY <1>4
  <2> QED  BY <1>6, <2>1 DEF SumsOf
<1>9. Right(v)
  BY <1>3, <1>6
<1> HIDE DEF v, x
<1>10. c \in u <=> c \in v \/ c = x
  BY <1>6 DEF v
<1>11. x \notin v
  BY DEF v
<1>12. CASE c = x
  <2>1. jt[v] = it[v]
    <3>1. jt[v] = it[v] + 0
      BY <1>9, <1>11, <1>12
    <3> QED  BY <1>8, <3>1
  <2> QED  BY <1>3, <1>6, <1>7, <1>8, <1>12, <2>1
<1>13. CASE c # x
  <2>1. g[x] = h[x]
    BY <1>6, <1>13
  <2>2. CASE c \in v
    <3>1. h[c] \in Int /\ g[c] \in Int
      BY <1>4, <1>10, <2>2
    <3>2. jt[v] = it[v] + (h[c] - g[c])
      BY <1>9, <2>2
    <3> QED  BY <1>3, <1>7, <1>8, <1>10, <2>1, <2>2, <3>1, <3>2
  <2>3. CASE c \notin v
    BY <1>3, <1>7, <1>8, <1>9, <1>10, <1>13, <2>1, <2>3
  <2> QED  BY <2>2, <2>3
<1> QED  BY <1>12, <1>13

LEMMA SumsAgree ==
  ASSUME NEW S, NEW g \in [S -> Int], NEW R \in SUBSET S, NEW Q \in SUBSET S,
         NEW it, SumsOf(g, it, R), NEW jt, SumsOf(g, jt, Q),
         NEW u \in SUBSET (R \cap Q), IsFiniteSet(u)
  PROVE  it[u] = jt[u]
<1> DEFINE gr == [d \in R |-> g[d]]
           gq == [d \in Q |-> g[d]]
<1>1. gr \in [R -> Int] /\ gq \in [Q -> Int]
  OBVIOUS
<1>2. SumsOf(gr, it, R) /\ SumsOf(gq, jt, Q)
  <2>1. \A s \in SUBSET R : s # {} => gr[Picked(s)] = g[Picked(s)]
    BY PickedIn
  <2>2. \A s \in SUBSET Q : s # {} => gq[Picked(s)] = g[Picked(s)]
    BY PickedIn
  <2> HIDE DEF gr, gq
  <2> QED  BY <2>1, <2>2 DEF SumsOf
<1>3. \A d \in R \cap Q : gr[d] = gq[d]
  OBVIOUS
<1> HIDE DEF gr, gq
<1>4. PICK c : c \notin u
  <2>1. u \notin u \/ u \in u
    OBVIOUS
  <2>2. \E c : c \notin u
    <3>1. {y \in u : y \notin y} \notin u
      OBVIOUS
    <3> QED  BY <3>1
  <2> QED  BY <2>2
<1>5. jt[u] = it[u] + (IF c \in u THEN gq[c] - gr[c] ELSE 0)
  <2>1. \A d \in R \cap Q : d # c => gr[d] = gq[d]
    BY <1>3
  <2> QED  BY <1>1, <1>2, <2>1, SumsDiffer
<1>6. it[u] \in Int
  BY DEF SumsOf
<1> QED  BY <1>4, <1>5, <1>6

(* There are such sums.                                                    *)
LEMMA SumsExist ==
  ASSUME NEW S, IsFiniteSet(S), NEW g \in [S -> Int]
  PROVE  \E it : SumsOf(g, it, S)
<1> DEFINE Bad == {s \in SUBSET S : ~\E it : SumsOf(g, it, s)}
<1>1. \A s \in SUBSET S : IsFiniteSet(s)
  BY FS_Subset
<1>2. SUFFICES ASSUME Bad # {} PROVE FALSE
  OBVIOUS
<1>3. PICK s \in Bad : \A r \in Bad : r \subseteq s => r = s
  <2>1. \A r \in Bad : IsFiniteSet(r)
    BY <1>1
  <2> HIDE DEF Bad
  <2> QED  BY <1>2, <2>1, SmallestFinite
<1> DEFINE Of(r) == CHOOSE it : SumsOf(g, it, r)
           less(u) == u \ {Picked(u)}
           it == [u \in SUBSET s |->
                    IF u = {} THEN 0 ELSE g[Picked(u)] + Of(less(u))[less(u)]]
<1>4. \A r \in SUBSET s : r # s => SumsOf(g, Of(r), r)
  BY <1>3
<1>5. \A u \in SUBSET s : u # {} => /\ less(u) \in SUBSET u /\ less(u) # s
                                    /\ Picked(u) \in S
  BY PickedIn
<1> HIDE DEF Of
<1>6. it \in [SUBSET s -> Int]
  <2> SUFFICES ASSUME NEW u \in SUBSET s, u # {}
               PROVE  g[Picked(u)] + Of(less(u))[less(u)] \in Int
    OBVIOUS
  <2>1. SumsOf(g, Of(less(u)), less(u))
    BY <1>4, <1>5
  <2>2. Of(less(u))[less(u)] \in Int
    BY <2>1 DEF SumsOf
  <2> QED  BY <1>5, <2>2
<1>7. ASSUME NEW u \in SUBSET s, u # {}
      PROVE  it[less(u)] = Of(less(u))[less(u)]
  <2> DEFINE t == less(u)
  <2>1. t \in SUBSET s /\ t # s
    BY <1>5, <1>7
  <2>2. SumsOf(g, Of(t), t)
    BY <1>4, <2>1
  <2>3. CASE t = {}
    <3>1. it[t] = 0
      BY <2>1, <2>3
    <3>2. Of(t)[t] = 0
      BY <2>2, <2>3 DEF SumsOf
    <3> QED  BY <3>1, <3>2
  <2>4. CASE t # {}
    <3> HIDE DEF t
    <3>1. it[t] = g[Picked(t)] + Of(less(t))[less(t)]
      BY <2>1, <2>4
    <3>2. Of(t)[t] = g[Picked(t)] + Of(t)[less(t)]
      BY <2>2, <2>4 DEF SumsOf
    <3>3. less(t) \in SUBSET t /\ SumsOf(g, Of(less(t)), less(t)) /\ IsFiniteSet(less(t))
      BY <1>1, <1>4, <1>5, <2>1, <2>4
    <3> HIDE DEF less
    <3>4. Of(t)[less(t)] = Of(less(t))[less(t)]
      <4> DEFINE lt == less(t)
                 f1 == Of(t)
                 f2 == Of(lt)
      <4>1. /\ t \in SUBSET S /\ lt \in SUBSET S
            /\ lt \in SUBSET (t \cap lt) /\ IsFiniteSet(lt)
        BY <2>1, <3>3
      <4>2. SumsOf(g, f1, t) /\ SumsOf(g, f2, lt)
        BY <2>2, <3>3
      <4> HIDE DEF lt, f1, f2
      <4>3. f1[lt] = f2[lt]
        BY <4>1, <4>2, SumsAgree
      <4> QED  BY <4>3 DEF lt, f1, f2
    <3> QED  BY <3>1, <3>2, <3>4 DEF t
  <2> QED  BY <2>3, <2>4
<1>8. \A u \in SUBSET s : it[u] = IF u = {} THEN 0 ELSE g[Picked(u)] + it[u \ {Picked(u)}]
  <2> SUFFICES ASSUME NEW u \in SUBSET s
               PROVE  it[u] = IF u = {} THEN 0 ELSE g[Picked(u)] + it[less(u)]
    OBVIOUS
  <2>1. it[u] = IF u = {} THEN 0 ELSE g[Picked(u)] + Of(less(u))[less(u)]
    OBVIOUS
  <2> HIDE DEF it, less
  <2> QED  BY <1>7, <2>1
<1> HIDE DEF it
<1>9. SumsOf(g, it, s)
  BY <1>6, <1>8 DEF SumsOf
<1> QED  BY <1>3, <1>9

-----------------------------------------------------------------------------
(***************************************************************************)
(* RateLimiter, for finitely many callers, any capacity, rate and width.   *)
(***************************************************************************)

CallStates ==
  [at : {"idle", "refill", "claim", "read", "add", "load", "take",
         "admitted", "refused", "amended"},
   want : Asked \cup {Uncounted, 0}, time : Nat, due : Nat, amount : Nat,
   seen : 0 .. Width - 1, refilled : BOOLEAN]

(* A call's time has come; a caller that claims intervals has seen a due   *)
(* refill; one that takes tokens has seen enough of them.                  *)
CallTimely(k) ==
  /\ k \in CallStates
  /\ k.time <= now
  /\ k.at = "claim" => k.due \in 1 .. k.time
  /\ k.at = "take" => k.want \in 0 .. k.seen

LimiterInvariant ==
  /\ now \in 0 .. LastTick /\ refillAt \in 1 .. now + 1
  /\ available \in 0 .. Width - 1 /\ dropped \in 0 .. Width - 1
  /\ call \in [Caller -> CallStates] /\ \A c \in Caller : CallTimely(call[c])
  /\ issued \in Nat /\ spent \in Int

LEMMA LimiterConstants ==
  /\ MaxTokens \in Nat /\ TokensPerFill \in Nat /\ Width \in Nat /\ MaxTokens < Width
  /\ Asked \subseteq Nat /\ Amends \subseteq Int
  /\ LastTick \in Nat /\ IsFiniteSet(Caller)
BY FillFits, AskedAssumption, CallersAssumption

LEMMA WantsAreInts == \A w \in Asked \cup {Uncounted, 0} : w \in Int
BY AskedAssumption DEF Uncounted

LEMMA MoveTimely ==
  ASSUME call \in [Caller -> CallStates], \A c \in Caller : CallTimely(call[c]),
         NEW c \in Caller, NEW k, CallTimely(k), Move(c, k), UNCHANGED now
  PROVE  call' \in [Caller -> CallStates] /\ \A d \in Caller : CallTimely(call[d])'
<1>1. k \in CallStates
  BY DEF CallTimely
<1>2. call' = [call EXCEPT ![c] = k]
  BY DEF Move
<1>3. \A d \in Caller : call'[d] = IF d = c THEN k ELSE call[d]
  BY <1>2
<1>4. call' \in [Caller -> CallStates]
  BY <1>1, <1>2
<1>5. ASSUME NEW d \in Caller PROVE CallTimely(call[d])'
  <2> DEFINE old == IF d = c THEN k ELSE call[d]
  <2>1. CallTimely(old)
    OBVIOUS
  <2>2. call'[d] = old
    BY <1>3
  <2> HIDE DEF old
  <2> QED  BY <2>1, <2>2 DEF CallTimely
<1> QED  BY <1>4, <1>5

(* The states a call goes to.                                              *)
LEMMA IdleState == Idle \in CallStates
BY LimiterConstants DEF Idle, CallStates

LEMMA AnswerTimely ==
  ASSUME LimiterInvariant, NEW c \in Caller, NEW a \in Answered \cup {"amended"}
  PROVE  CallTimely(Answer(c, a))
<1>1. call[c].time \in Nat /\ call[c].time <= now
  BY DEF LimiterInvariant, CallTimely, CallStates
<1> DEFINE k == [Idle EXCEPT !.at = a, !.time = call[c].time]
<1>2. k \in CallStates
  BY <1>1, IdleState DEF CallStates, Answered
<1>3. k.at = a /\ k.time = call[c].time
  BY DEF Idle
<1> HIDE DEF k
<1>4. k.at # "claim" /\ k.at # "take" /\ k.time <= now
  BY <1>1, <1>3 DEF Answered
<1>5. CallTimely(k)
  BY <1>2, <1>4 DEF CallTimely
<1> QED  BY <1>5 DEF k, Answer

LEMMA LoadMoves ==
  ASSUME NEW c \in Caller, LoadAvailable(c)
  PROVE  \/ \E a \in Answered : Move(c, Answer(c, a))
         \/ /\ call[c].want # Uncounted /\ available >= call[c].want
            /\ Move(c, [call[c] EXCEPT !.at = "take", !.seen = available])
         \/ Move(c, [call[c] EXCEPT !.at = "refill", !.time = now, !.refilled = FALSE])
BY DEF LoadAvailable, Answered

LEMMA LimiterStep ==
  ASSUME LimiterInvariant, NEW c \in Caller, CallStep(c) PROVE LimiterInvariant'
<1> DEFINE k == call[c]
<1>1. /\ k \in CallStates /\ CallTimely(k)
      /\ k.time \in Nat /\ k.due \in Nat /\ k.amount \in Nat /\ k.want \in Int
      /\ k.seen \in 0 .. Width - 1 /\ k.refilled \in BOOLEAN
  <2>1. k \in CallStates /\ CallTimely(k)
    BY DEF LimiterInvariant
  <2>2. k.want \in Int
    <3>1. k.want \in Asked \cup {Uncounted, 0}
      BY <2>1 DEF CallStates
    <3> QED  BY <3>1, WantsAreInts
  <2> QED  BY <2>1, <2>2 DEF CallStates
<1>2. call \in [Caller -> CallStates] /\ \A d \in Caller : CallTimely(call[d])
  BY DEF LimiterInvariant
<1>3. CASE RefillDue(c)
  <2>1. CallTimely([k EXCEPT !.at = "load", !.refilled = FALSE])
    BY <1>1 DEF CallTimely, CallStates
  <2>2. ASSUME ~(k.time < refillAt) PROVE CallTimely([k EXCEPT !.at = "claim", !.due = refillAt])
    <3>1. refillAt \in Nat /\ refillAt \in 1 .. k.time
      BY <1>1, <2>2 DEF LimiterInvariant
    <3> QED  BY <1>1, <3>1 DEF CallTimely, CallStates
  <2>3. UNCHANGED <<now, available, dropped, refillAt, issued, spent>>
    BY <1>3 DEF RefillDue
  <2>4. CASE k.time < refillAt
    <3>1. Move(c, [k EXCEPT !.at = "load", !.refilled = FALSE])
      BY <1>3, <2>4 DEF RefillDue
    <3>2. call' \in [Caller -> CallStates] /\ \A d \in Caller : CallTimely(call[d])'
      BY <1>2, <2>1, <2>3, <3>1, MoveTimely
    <3> QED  BY <2>3, <3>2 DEF LimiterInvariant
  <2>5. CASE ~(k.time < refillAt)
    <3>1. Move(c, [k EXCEPT !.at = "claim", !.due = refillAt])
      BY <1>3, <2>5 DEF RefillDue
    <3>2. call' \in [Caller -> CallStates] /\ \A d \in Caller : CallTimely(call[d])'
      BY <1>2, <2>2, <2>3, <2>5, <3>1, MoveTimely
    <3> QED  BY <2>3, <3>2 DEF LimiterInvariant
  <2> QED  BY <2>4, <2>5
<1>4. CASE Claim(c)
  <2>1. k.at = "claim" /\ k.due \in 1 .. k.time /\ UNCHANGED <<now, available, dropped, spent>>
    BY <1>1, <1>4 DEF Claim, CallTimely
  <2>2. CASE refillAt = k.due
    <3> DEFINE n == Intervals(c)
               m == n * TokensPerFill
    <3>1. n = k.time - k.due + 1 /\ n \in Nat
      BY <1>1, <2>1 DEF Intervals
    <3> HIDE DEF n
    <3>2. m \in Nat
      BY <3>1, LimiterConstants
    <3> HIDE DEF m
    <3>3. /\ refillAt' = k.due + n /\ issued' = issued + m
          /\ Move(c, [k EXCEPT !.at = "read", !.amount = m])
      BY <1>4, <2>2 DEF Claim, n, m
    <3>4. refillAt' \in 1 .. now + 1
      BY <1>1, <2>1, <3>1, <3>3 DEF LimiterInvariant, CallTimely
    <3>5. CallTimely([k EXCEPT !.at = "read", !.amount = m])
      BY <1>1, <3>2 DEF CallTimely, CallStates
    <3>6. call' \in [Caller -> CallStates] /\ \A d \in Caller : CallTimely(call[d])'
      BY <1>2, <2>1, <3>3, <3>5, MoveTimely
    <3> QED  BY <2>1, <3>2, <3>3, <3>4, <3>6 DEF LimiterInvariant
  <2>3. CASE refillAt # k.due
    <3>1. Move(c, [k EXCEPT !.at = "refill", !.due = 0]) /\ UNCHANGED <<refillAt, issued>>
      BY <1>4, <2>3 DEF Claim
    <3>2. CallTimely([k EXCEPT !.at = "refill", !.due = 0])
      BY <1>1 DEF CallTimely, CallStates
    <3>3. call' \in [Caller -> CallStates] /\ \A d \in Caller : CallTimely(call[d])'
      BY <1>2, <2>1, <3>1, <3>2, MoveTimely
    <3> QED  BY <2>1, <3>1, <3>3 DEF LimiterInvariant
  <2> QED  BY <2>2, <2>3
<1>5. CASE ReadAvailable(c)
  <2>1. /\ Move(c, [k EXCEPT !.at = "add", !.seen = available])
        /\ UNCHANGED <<now, available, dropped, refillAt, issued, spent>>
    BY <1>5 DEF ReadAvailable
  <2>2. CallTimely([k EXCEPT !.at = "add", !.seen = available])
    BY <1>1 DEF CallTimely, CallStates, LimiterInvariant
  <2>3. call' \in [Caller -> CallStates] /\ \A d \in Caller : CallTimely(call[d])'
    BY <1>2, <2>1, <2>2, MoveTimely
  <2> QED  BY <2>1, <2>3 DEF LimiterInvariant
<1>6. CASE AddTokens(c)
  <2> DEFINE t == ToAdd(c)
             new == [Idle EXCEPT !.at = "load", !.want = k.want, !.time = k.time, !.refilled = TRUE]
  <2>1. t \in Int
    BY <1>1, LimiterConstants DEF ToAdd
  <2> HIDE DEF t
  <2>2. /\ available' = (available + t) % Width
        /\ dropped' = (dropped + k.amount - t) % Width
        /\ Move(c, new) /\ UNCHANGED <<now, refillAt, issued, spent>>
    BY <1>6 DEF AddTokens, t
  <2>3. available' \in 0 .. Width - 1 /\ dropped' \in 0 .. Width - 1
    BY <1>1, <2>1, <2>2, LimiterConstants DEF LimiterInvariant
  <2>4. CallTimely(new)
    <3>1. new \in CallStates
      <4>1. k.want \in Asked \cup {Uncounted, 0}
        BY <1>1 DEF CallStates
      <4> QED  BY <1>1, <4>1, IdleState DEF CallStates
    <3>2. new.at = "load" /\ new.time = k.time
      BY DEF Idle
    <3>3. k.time <= now
      BY <1>1 DEF CallTimely
    <3> HIDE DEF new
    <3> QED  BY <3>1, <3>2, <3>3 DEF CallTimely
  <2> HIDE DEF new
  <2>5. call' \in [Caller -> CallStates] /\ \A d \in Caller : CallTimely(call[d])'
    BY <1>2, <2>2, <2>4, MoveTimely
  <2> QED  BY <2>2, <2>3, <2>5 DEF LimiterInvariant
<1>7. CASE LoadAvailable(c)
  <2>1. UNCHANGED <<now, available, dropped, refillAt, issued, spent>>
    BY <1>7 DEF LoadAvailable
  <2>2. PICK new : CallTimely(new) /\ Move(c, new)
    <3>1. CASE \E a \in Answered : Move(c, Answer(c, a))
      BY <3>1, AnswerTimely
    <3>2. CASE /\ k.want # Uncounted /\ available >= k.want
               /\ Move(c, [k EXCEPT !.at = "take", !.seen = available])
      <4>1. k.want \in 0 .. available /\ available \in 0 .. Width - 1
        BY <1>1, <3>2, LimiterConstants DEF LimiterInvariant, CallStates, Uncounted
      <4>2. CallTimely([k EXCEPT !.at = "take", !.seen = available])
        BY <1>1, <4>1 DEF CallTimely, CallStates
      <4> QED  BY <3>2, <4>2
    <3>3. CASE Move(c, [k EXCEPT !.at = "refill", !.time = now, !.refilled = FALSE])
      <4>1. now \in Nat
        BY LimiterConstants DEF LimiterInvariant
      <4> DEFINE new == [k EXCEPT !.at = "refill", !.time = now, !.refilled = FALSE]
      <4>2. new \in CallStates /\ new.at = "refill" /\ new.time = now
        BY <1>1, <4>1 DEF CallStates
      <4> HIDE DEF new
      <4>3. CallTimely(new)
        BY <4>1, <4>2 DEF CallTimely
      <4> QED  BY <3>3, <4>3 DEF new
    <3> QED  BY <1>7, <3>1, <3>2, <3>3, LoadMoves
  <2>3. call' \in [Caller -> CallStates] /\ \A d \in Caller : CallTimely(call[d])'
    BY <1>2, <2>1, <2>2, MoveTimely
  <2> QED  BY <2>1, <2>3 DEF LimiterInvariant
<1>8. CASE Take(c)
  <2>1. /\ k.at = "take" /\ k.want \in 0 .. k.seen
        /\ UNCHANGED <<now, dropped, refillAt, issued>>
    BY <1>1, <1>8 DEF Take, CallTimely
  <2>2. CASE available = k.seen
    <3>1. /\ available' = available - k.want /\ spent' = spent + k.want
          /\ Move(c, Answer(c, "admitted"))
      BY <1>8, <2>2 DEF Take
    <3>2. CallTimely(Answer(c, "admitted"))
      BY AnswerTimely DEF Answered
    <3>3. call' \in [Caller -> CallStates] /\ \A d \in Caller : CallTimely(call[d])'
      BY <1>2, <2>1, <3>1, <3>2, MoveTimely
    <3>4. available' \in 0 .. Width - 1 /\ spent' \in Int
      BY <1>1, <2>1, <2>2, <3>1, LimiterConstants DEF LimiterInvariant
    <3> QED  BY <2>1, <3>3, <3>4 DEF LimiterInvariant
  <2>3. CASE available # k.seen
    <3>1. Move(c, [k EXCEPT !.at = "load", !.seen = 0]) /\ UNCHANGED <<available, spent>>
      BY <1>8, <2>3 DEF Take
    <3>2. CallTimely([k EXCEPT !.at = "load", !.seen = 0])
      <4> DEFINE new == [k EXCEPT !.at = "load", !.seen = 0]
      <4>1. 0 \in 0 .. Width - 1
        BY LimiterConstants
      <4>2. new \in CallStates /\ new.at = "load" /\ new.time = k.time
        BY <1>1, <4>1 DEF CallStates
      <4>3. k.time <= now
        BY <1>1 DEF CallTimely
      <4> HIDE DEF new
      <4>4. CallTimely(new)
        BY <4>2, <4>3 DEF CallTimely
      <4> QED  BY <4>4 DEF new
    <3>3. call' \in [Caller -> CallStates] /\ \A d \in Caller : CallTimely(call[d])'
      BY <1>2, <2>1, <3>1, <3>2, MoveTimely
    <3> QED  BY <2>1, <3>1, <3>3 DEF LimiterInvariant
  <2> QED  BY <2>2, <2>3
<1> QED  BY <1>3, <1>4, <1>5, <1>6, <1>7, <1>8 DEF CallStep

LEMMA LimiterTypes == LimiterSpec => []LimiterInvariant
<1>1. LimiterInit => LimiterInvariant
  BY LimiterConstants DEF LimiterInit, LimiterInvariant, CallTimely, CallStates, Idle
<1>2. LimiterInvariant /\ [LimiterNext]_limiterVars => LimiterInvariant'
  <2> SUFFICES ASSUME LimiterInvariant, [LimiterNext]_limiterVars PROVE LimiterInvariant'
    OBVIOUS
  <2>1. call \in [Caller -> CallStates] /\ \A d \in Caller : CallTimely(call[d])
    BY DEF LimiterInvariant
  <2>2. CASE Tick
    <3>1. /\ now' = now + 1 /\ now < LastTick
          /\ UNCHANGED <<available, dropped, refillAt, call, issued, spent>>
      BY <2>2 DEF Tick
    <3>2. now' \in 0 .. LastTick /\ refillAt' \in 1 .. now' + 1 /\ now \in Nat
      BY <3>1, LimiterConstants DEF LimiterInvariant
    <3>3. ASSUME NEW d \in Caller PROVE CallTimely(call[d])'
      <4>1. CallTimely(call[d]) /\ call[d].time \in Nat
        BY <2>1 DEF CallStates
      <4> QED  BY <3>1, <3>2, <4>1 DEF CallTimely
    <3> QED  BY <2>1, <3>1, <3>2, <3>3 DEF LimiterInvariant
  <2>3. ASSUME NEW c \in Caller, NEW n \in Asked \cup {Uncounted}, Check(c, n)
        PROVE  LimiterInvariant'
    <3>1. UNCHANGED <<now, available, dropped, refillAt, issued, spent>>
      BY <2>3 DEF Check
    <3>2. PICK new : CallTimely(new) /\ Move(c, new)
      <4>1. now \in Nat
        BY LimiterConstants DEF LimiterInvariant
      <4> DEFINE no == [Idle EXCEPT !.at = "refused", !.time = now]
                 yes == [Idle EXCEPT !.at = "refill", !.want = n, !.time = now]
      <4>2. no \in CallStates /\ yes \in CallStates
        BY <4>1, IdleState DEF CallStates
      <4>3. /\ no.at = "refused" /\ no.time = now
            /\ yes.at = "refill" /\ yes.time = now
        BY DEF Idle
      <4>4. Move(c, no) \/ Move(c, yes)
        BY <2>3 DEF Check
      <4> HIDE DEF no, yes
      <4>5. CallTimely(no) /\ CallTimely(yes)
        BY <4>1, <4>2, <4>3 DEF CallTimely
      <4> QED  BY <4>4, <4>5
    <3>3. call' \in [Caller -> CallStates] /\ \A d \in Caller : CallTimely(call[d])'
      BY <2>1, <3>1, <3>2, MoveTimely
    <3> QED  BY <3>1, <3>3 DEF LimiterInvariant
  <2>4. ASSUME NEW c \in Caller, NEW n \in Amends, Amend(c, n) PROVE LimiterInvariant'
    <3>1. /\ available' = IF n > available THEN 0
                          ELSE IF available - n >= Width THEN Width - 1 ELSE available - n
          /\ spent' = spent + available - available'
          /\ Move(c, Answer(c, "amended")) /\ UNCHANGED <<now, dropped, refillAt, issued>>
      BY <2>4 DEF Amend
    <3>2. available' \in 0 .. Width - 1 /\ spent' \in Int
      BY <3>1, LimiterConstants DEF LimiterInvariant
    <3>3. CallTimely(Answer(c, "amended"))
      BY AnswerTimely
    <3>4. call' \in [Caller -> CallStates] /\ \A d \in Caller : CallTimely(call[d])'
      BY <2>1, <3>1, <3>3, MoveTimely
    <3> QED  BY <3>1, <3>2, <3>4 DEF LimiterInvariant
  <2>5. ASSUME NEW c \in Caller, Again(c) PROVE LimiterInvariant'
    <3>1. CallTimely(Idle)
      <4>1. now \in Nat
        BY LimiterConstants DEF LimiterInvariant
      <4> QED  BY <4>1, LimiterConstants DEF CallTimely, CallStates, Idle
    <3>2. Move(c, Idle) /\ UNCHANGED <<now, available, dropped, refillAt, issued, spent>>
      BY <2>5 DEF Again
    <3>3. call' \in [Caller -> CallStates] /\ \A d \in Caller : CallTimely(call[d])'
      BY <2>1, <3>1, <3>2, MoveTimely
    <3> QED  BY <3>2, <3>3 DEF LimiterInvariant
  <2>6. CASE UNCHANGED limiterVars
    BY <2>6 DEF limiterVars, LimiterInvariant, CallTimely
  <2> QED  BY <2>2, <2>3, <2>4, <2>5, <2>6, LimiterStep DEF LimiterNext
<1> QED  BY <1>1, <1>2, PTL DEF LimiterSpec


(* Whatever is computed like a sum of integers is an integer.              *)
LEMMA SumsTyped ==
  ASSUME NEW S, IsFiniteSet(S), NEW g \in [S -> Int], NEW it,
         it = [s \in SUBSET S |-> it[s]],
         \A s \in SUBSET S : it[s] = IF s = {} THEN 0 ELSE g[Picked(s)] + it[s \ {Picked(s)}]
  PROVE  SumsOf(g, it, S)
<1> DEFINE Bad == {s \in SUBSET S : it[s] \notin Int}
<1>1. ASSUME Bad # {} PROVE FALSE
  <2>1. PICK s \in Bad : \A r \in Bad : r \subseteq s => r = s
    <3>1. \A r \in Bad : IsFiniteSet(r)
      BY FS_Subset
    <3> HIDE DEF Bad
    <3> QED  BY <1>1, <3>1, SmallestFinite
  <2> DEFINE x == Picked(s)
             r == s \ {x}
  <2>2. s \in SUBSET S /\ it[s] \notin Int
    OBVIOUS
  <2>3. s # {}
    <3>1. it[{}] = 0
      BY Zenon
    <3> HIDE DEF x, r, Bad
    <3> QED  BY ONLY <2>2, <3>1
  <2>4. x \in s
    BY <2>3, PickedIn
  <2>5. r \in SUBSET S /\ r \subseteq s /\ r # s
    BY <2>2, <2>4
  <2>6. it[r] \in Int
    BY <2>1, <2>5
  <2>7. g[x] \in Int
    BY <2>2, <2>4
  <2>8. it[s] = g[x] + it[r]
    BY <2>2, <2>3
  <2> HIDE DEF x, r, Bad
  <2> QED  BY <2>2, <2>6, <2>7, <2>8
<1>2. \A s \in SUBSET S : it[s] \in Int
  BY <1>1
<1>3. it \in [SUBSET S -> Int]
  BY <1>2
<1> QED  BY <1>3 DEF SumsOf

(* What is being added, summed as the model sums it.                       *)
Claims == [c \in Caller |-> Claimed(c)]
Pending == MapThenFoldSet(+, 0, Claimed, LAMBDA S : CHOOSE c \in S : TRUE, Caller)

ClaimsSummed == \E it : SumsOf(Claims, it, Caller) /\ Pending = it[Caller]

LEMMA ClaimsType == LimiterInvariant => Claims \in [Caller -> Int]
BY DEF LimiterInvariant, Claims, Claimed, CallStates

LEMMA PendingIsSum == LimiterInvariant => ClaimsSummed
<1> SUFFICES ASSUME LimiterInvariant PROVE ClaimsSummed
  OBVIOUS
<1> DEFINE At1(it, s) == IF s = {} THEN 0
                         ELSE Claimed(CHOOSE c \in s : TRUE) + it[s \ {CHOOSE c \in s : TRUE}]
           Eq(it) == it = [s \in SUBSET Caller |-> At1(it, s)]
           iter == CHOOSE it : Eq(it)
<1>1. Pending = iter[Caller]
  BY DEF Pending, MapThenFoldSet
<1>2. ASSUME NEW it, NEW s \in SUBSET Caller
      PROVE  At1(it, s) = IF s = {} THEN 0 ELSE Claims[Picked(s)] + it[s \ {Picked(s)}]
  <2>1. s # {} => Picked(s) \in Caller
    BY PickedIn
  <2> QED  BY <2>1 DEF Claims, Picked
<1> HIDE DEF At1
<1>3. PICK jt : SumsOf(Claims, jt, Caller)
  BY ClaimsType, SumsExist, LimiterConstants
<1>4. Eq(jt)
  <2>1. \A s \in SUBSET Caller : jt[s] = At1(jt, s)
    BY <1>2, <1>3 DEF SumsOf
  <2>2. jt = [s \in SUBSET Caller |-> jt[s]]
    BY <1>3 DEF SumsOf
  <2> QED  BY <2>1, <2>2
<1>5. Eq(iter)
  BY <1>4
<1> HIDE DEF iter
<1>6. SumsOf(Claims, iter, Caller)
  <2>1. iter = [s \in SUBSET Caller |-> iter[s]] /\ \A s \in SUBSET Caller : iter[s] = At1(iter, s)
    BY <1>5
  <2>2. \A s \in SUBSET Caller :
          iter[s] = IF s = {} THEN 0 ELSE Claims[Picked(s)] + iter[s \ {Picked(s)}]
    BY <1>2, <2>1
  <2> QED  BY <2>1, <2>2, ClaimsType, LimiterConstants, SumsTyped
<1> QED  BY <1>1, <1>6 DEF ClaimsSummed

(* A step of one caller moves the sum by what it changes of its own.       *)
LEMMA PendingMoves ==
  ASSUME NEW c \in Caller, NEW k
  PROVE  LimiterInvariant /\ LimiterInvariant' /\ Move(c, k)
           => /\ Pending \in Int
              /\ Pending' = Pending + Claimed(c)' - Claimed(c)
<1>1. (LimiterInvariant => ClaimsSummed) /\ (LimiterInvariant' => ClaimsSummed')
  BY PendingIsSum, PTL
<1>2. /\ LimiterInvariant => Claims \in [Caller -> Int]
      /\ LimiterInvariant' => (Claims \in [Caller -> Int])'
  BY ClaimsType, PTL
<1> SUFFICES ASSUME LimiterInvariant, LimiterInvariant', Move(c, k)
             PROVE  Pending \in Int /\ Pending' = Pending + Claimed(c)' - Claimed(c)
  OBVIOUS
<1>3. PICK it : SumsOf(Claims, it, Caller) /\ Pending = it[Caller]
  BY <1>1 DEF ClaimsSummed
<1>4. PICK jt : SumsOf(Claims', jt, Caller) /\ Pending' = jt[Caller]
  BY <1>1 DEF ClaimsSummed, SumsOf, Picked
<1>5. \A d \in Caller : d # c => Claims[d] = Claims'[d]
  BY DEF Move, Claims, Claimed, LimiterInvariant
<1>6. jt[Caller] = it[Caller] + (Claims'[c] - Claims[c])
  BY <1>2, <1>3, <1>4, <1>5, SumsDiffer, LimiterConstants
<1>7. Claims[c] = Claimed(c) /\ Claims'[c] = Claimed(c)'
  BY DEF Claims
<1>8. it[Caller] \in Int
  BY <1>3 DEF SumsOf
<1> QED  BY <1>2, <1>3, <1>4, <1>6, <1>7, <1>8

(* The tokens of the bucket, of what it dropped, of what was spent and of  *)
(* what is being added are those it was filled with and those issued, but  *)
(* for turns of the counters.                                              *)
Balance == (available - MaxTokens) + dropped + spent + Pending - issued
BalanceTurns == \E n \in Int : Balance = n * Width

LEMMA TurnsOfRemainder ==
  ASSUME NEW x \in Int, NEW y \in Int, x = y % Width
  PROVE  \E n \in Int : x = y - n * Width
<1>1. Width \in Nat /\ Width > 0
  BY LimiterConstants
<1>2. x = y - Width * (y \div Width) /\ y \div Width \in Int
  BY <1>1
<1> QED  BY <1>1, <1>2

LEMMA TurnsKept ==
  ASSUME BalanceTurns, LimiterInvariant, LimiterInvariant', Pending \in Int, Pending' \in Int,
         NEW m \in Int, Balance' = Balance + m * Width
  PROVE  BalanceTurns'
<1>1. PICK n \in Int : Balance = n * Width
  BY DEF BalanceTurns
<1>2. Width \in Int /\ Balance' = (n + m) * Width
  BY <1>1, LimiterConstants
<1> QED  BY <1>2 DEF BalanceTurns

Adding(k) == IF k.at \in {"read", "add"} THEN k.amount ELSE 0

(* A step that changes no counter but those of its own call.               *)
LEMMA BalanceMoves ==
  ASSUME NEW c \in Caller, NEW k
  PROVE  LimiterInvariant /\ LimiterInvariant' /\ Move(c, k)
           => /\ Pending \in Int /\ Pending' \in Int
              /\ Pending' = Pending + Adding(k) - Claimed(c)
<1> SUFFICES ASSUME LimiterInvariant, LimiterInvariant', Move(c, k)
             PROVE  /\ Pending \in Int /\ Pending' \in Int
                    /\ Pending' = Pending + Adding(k) - Claimed(c)
  OBVIOUS
<1>1. Pending \in Int /\ Pending' = Pending + Claimed(c)' - Claimed(c)
  BY PendingMoves
<1>2. call'[c] = k
  BY DEF Move, LimiterInvariant
<1>3. Claimed(c)' = Adding(k)
  BY <1>2 DEF Claimed, Adding
<1>4. Claimed(c) \in Int /\ Claimed(c)' \in Int
  BY DEF LimiterInvariant, Claimed, CallStates
<1> QED  BY <1>1, <1>3, <1>4

LEMMA BalanceSteps ==
  ASSUME NEW c \in Caller
  PROVE  LimiterInvariant /\ LimiterInvariant' /\ BalanceTurns
           /\ (\/ \E n \in Asked \cup {Uncounted} : Check(c, n)
               \/ CallStep(c)
               \/ \E n \in Amends : Amend(c, n)
               \/ Again(c))
         => BalanceTurns'
<1> SUFFICES ASSUME LimiterInvariant, LimiterInvariant', BalanceTurns,
                    \/ \E n \in Asked \cup {Uncounted} : Check(c, n)
                    \/ CallStep(c)
                    \/ \E n \in Amends : Amend(c, n)
                    \/ Again(c)
             PROVE  BalanceTurns'
  OBVIOUS
<1>1. ASSUME NEW k, Move(c, k), Adding(k) = Claimed(c),
             spent' = spent + available - available', UNCHANGED <<dropped, issued>>
      PROVE  BalanceTurns'
  <2>1. Pending \in Int /\ Pending' \in Int /\ Pending' = Pending
    <3>1. Claimed(c) \in Int
      BY DEF LimiterInvariant, Claimed, CallStates
    <3> QED  BY <1>1, <3>1, BalanceMoves
  <2>2. Balance' = Balance + 0 * Width
    <3>1. /\ available \in Int /\ spent \in Int /\ available' \in Int /\ spent' \in Int
          /\ dropped \in Int /\ issued \in Int /\ dropped' \in Int /\ issued' \in Int
          /\ MaxTokens \in Int /\ 0 * Width = 0
      BY LimiterConstants DEF LimiterInvariant
    <3> QED  BY <1>1, <2>1, <3>1 DEF Balance
  <2> QED  BY <2>1, <2>2, TurnsKept
<1>2. ASSUME NEW k, Move(c, k), Adding(k) = Claimed(c),
             UNCHANGED <<available, spent, dropped, issued>>
      PROVE  BalanceTurns'
  <2>1. spent' = spent + available - available'
    <3>1. available \in Int /\ spent \in Int
      BY LimiterConstants DEF LimiterInvariant
    <3> QED  BY <1>2, <3>1
  <2> QED  BY <1>1, <1>2, <2>1
<1>3. ASSUME NEW n \in Asked \cup {Uncounted}, Check(c, n) PROVE BalanceTurns'
  <2> DEFINE no == [Idle EXCEPT !.at = "refused", !.time = now]
             yes == [Idle EXCEPT !.at = "refill", !.want = n, !.time = now]
  <2>1. Adding(no) = 0 /\ Adding(yes) = 0
    BY DEF Adding, Idle
  <2>2. Claimed(c) = 0 /\ (Move(c, no) \/ Move(c, yes))
    BY <1>3 DEF Check, Claimed
  <2> HIDE DEF no, yes
  <2> QED  BY <1>2, <1>3, <2>1, <2>2 DEF Check
<1>4. CASE RefillDue(c)
  <2> DEFINE no == [call[c] EXCEPT !.at = "load", !.refilled = FALSE]
             yes == [call[c] EXCEPT !.at = "claim", !.due = refillAt]
  <2>1. Adding(no) = 0 /\ Adding(yes) = 0
    BY DEF Adding, LimiterInvariant, CallStates
  <2>2. Claimed(c) = 0 /\ (Move(c, no) \/ Move(c, yes))
    BY <1>4 DEF RefillDue, Claimed
  <2> HIDE DEF no, yes
  <2> QED  BY <1>2, <1>4, <2>1, <2>2 DEF RefillDue
<1>5. CASE Claim(c)
  <2>1. Claimed(c) = 0 /\ UNCHANGED <<available, dropped, spent>>
    BY <1>5 DEF Claim, Claimed
  <2>2. CASE refillAt = call[c].due
    <3> DEFINE m == Intervals(c) * TokensPerFill
               k == [call[c] EXCEPT !.at = "read", !.amount = m]
    <3>1. issued' = issued + m /\ Move(c, k)
      BY <1>5, <2>2 DEF Claim
    <3>2. Adding(k) = m
      BY DEF Adding, LimiterInvariant, CallStates
    <3> HIDE DEF m, k
    <3>3. m \in Int
      <4>1. m = issued' - issued \/ m \in Int
        <5>1. call[c].time \in Nat /\ call[c].due \in Nat
          BY DEF LimiterInvariant, CallStates
        <5>2. Intervals(c) \in Int
          BY <5>1 DEF Intervals
        <5> QED  BY <5>2, LimiterConstants DEF m
      <4> QED  BY <4>1 DEF LimiterInvariant
    <3>4. Pending \in Int /\ Pending' \in Int /\ Pending' = Pending + m
      BY <2>1, <3>1, <3>2, <3>3, BalanceMoves
    <3>5. Balance' = Balance + 0 * Width
      BY <2>1, <3>1, <3>3, <3>4, LimiterConstants DEF Balance, LimiterInvariant
    <3> QED  BY <3>4, <3>5, TurnsKept
  <2>3. CASE refillAt # call[c].due
    <3> DEFINE k == [call[c] EXCEPT !.at = "refill", !.due = 0]
    <3>1. Move(c, k) /\ UNCHANGED issued
      BY <1>5, <2>3 DEF Claim
    <3>2. Adding(k) = 0
      BY DEF Adding, LimiterInvariant, CallStates
    <3> HIDE DEF k
    <3> QED  BY <1>2, <2>1, <3>1, <3>2
  <2> QED  BY <2>2, <2>3
<1>6. CASE ReadAvailable(c)
  <2> DEFINE k == [call[c] EXCEPT !.at = "add", !.seen = available]
  <2>1. Move(c, k) /\ Claimed(c) = call[c].amount
    BY <1>6 DEF ReadAvailable, Claimed
  <2>2. Adding(k) = call[c].amount
    BY DEF Adding, LimiterInvariant, CallStates
  <2> HIDE DEF k
  <2> QED  BY <1>2, <1>6, <2>1, <2>2 DEF ReadAvailable
<1>7. CASE AddTokens(c)
  <2> DEFINE t == ToAdd(c)
             a == call[c].amount
             k == [Idle EXCEPT !.at = "load", !.want = call[c].want,
                               !.time = call[c].time, !.refilled = TRUE]
  <2>1. a \in Nat /\ call[c].seen \in Nat
    BY LimiterConstants DEF LimiterInvariant, CallStates
  <2>2. t \in Int
    BY <2>1, LimiterConstants DEF ToAdd
  <2>3. Adding(k) = 0
    BY DEF Adding, Idle
  <2>4. /\ available' = (available + t) % Width
        /\ dropped' = (dropped + a - t) % Width
        /\ Move(c, k) /\ UNCHANGED <<issued, spent>> /\ Claimed(c) = a
    BY <1>7 DEF AddTokens, Claimed
  <2> HIDE DEF t, a, k
  <2>5. /\ available \in Int /\ dropped \in Int /\ available' \in Int /\ dropped' \in Int
        /\ issued \in Int /\ spent \in Int /\ MaxTokens \in Int /\ Width \in Int
    BY LimiterConstants DEF LimiterInvariant
  <2> DEFINE y == available + t
             z == dropped + a - t
  <2>6. /\ y \in Int /\ y = available + t /\ available' = y % Width
        /\ z \in Int /\ z = dropped + a - t /\ dropped' = z % Width
    BY <2>1, <2>2, <2>4, <2>5
  <2> HIDE DEF y, z
  <2>7. /\ \E n \in Int : available' = y - n * Width
        /\ \E m \in Int : dropped' = z - m * Width
    BY ZenonT(60), <2>5, <2>6, TurnsOfRemainder
  <2>8. Pending \in Int /\ Pending' \in Int /\ Pending' = Pending - a
    BY <2>1, <2>3, <2>4, BalanceMoves
  <2>9. ASSUME NEW n \in Int, NEW m \in Int,
               available' = y - n * Width, dropped' = z - m * Width
        PROVE  Balance' = Balance + (-(n + m)) * Width
    BY <2>1, <2>2, <2>4, <2>5, <2>6, <2>8, <2>9 DEF Balance
  <2> QED  BY <2>7, <2>8, <2>9, TurnsKept
<1>8. CASE LoadAvailable(c)
  <2> DEFINE take == [call[c] EXCEPT !.at = "take", !.seen = available]
             again == [call[c] EXCEPT !.at = "refill", !.time = now, !.refilled = FALSE]
  <2>1. /\ Adding(take) = 0 /\ Adding(again) = 0
        /\ \A a \in Answered : Adding(Answer(c, a)) = 0
    BY DEF Adding, LimiterInvariant, CallStates, Answer, Idle, Answered
  <2>2. Claimed(c) = 0 /\ UNCHANGED <<available, spent, dropped, issued>>
    BY <1>8 DEF LoadAvailable, Claimed
  <2>3. \/ \E a \in Answered : Move(c, Answer(c, a))
        \/ Move(c, take) \/ Move(c, again)
    BY <1>8, LoadMoves
  <2> HIDE DEF take, again
  <2> QED  BY <1>2, <2>1, <2>2, <2>3
<1>9. CASE Take(c)
  <2> DEFINE again == [call[c] EXCEPT !.at = "load", !.seen = 0]
             done == Answer(c, "admitted")
  <2>1. Adding(again) = 0 /\ Adding(done) = 0
    BY DEF Adding, LimiterInvariant, CallStates, Answer, Idle
  <2>2. Claimed(c) = 0 /\ UNCHANGED <<dropped, issued>>
    BY <1>9 DEF Take, Claimed
  <2>3. \/ /\ Move(c, done)
           /\ available' = available - call[c].want /\ spent' = spent + call[c].want
        \/ Move(c, again) /\ UNCHANGED <<available, spent>>
    BY <1>9 DEF Take
  <2> HIDE DEF again, done
  <2>4. available \in Int /\ spent \in Int /\ call[c].want \in Int
    <3>1. call[c].want \in Asked \cup {Uncounted, 0}
      BY DEF LimiterInvariant, CallStates
    <3>2. call[c].want \in Int
      BY <3>1, WantsAreInts
    <3> QED  BY <3>2, LimiterConstants DEF LimiterInvariant
  <2>5. spent' = spent + available - available'
    BY <2>3, <2>4
  <2> QED  BY <1>1, <2>1, <2>2, <2>3, <2>5
<1>10. ASSUME NEW n \in Amends, Amend(c, n) PROVE BalanceTurns'
  <2> DEFINE done == Answer(c, "amended")
  <2>1. Adding(done) = 0
    BY DEF Adding, Answer, Idle
  <2>2. Claimed(c) = 0 /\ UNCHANGED <<dropped, issued>> /\ Move(c, done)
        /\ spent' = spent + available - available'
    BY <1>10 DEF Amend, Claimed
  <2> HIDE DEF done
  <2>3. spent' = spent + available - available'
    <3>1. available \in Int /\ spent \in Int /\ available' \in Int /\ spent' \in Int
      BY LimiterConstants DEF LimiterInvariant
    <3> QED  BY <2>2, <3>1
  <2> QED  BY <1>1, <2>1, <2>2, <2>3
<1>11. CASE Again(c)
  <2>1. Adding(Idle) = 0
    BY DEF Adding, Idle
  <2>2. /\ Claimed(c) = 0 /\ Move(c, Idle)
        /\ UNCHANGED <<available, spent, dropped, issued>>
    BY <1>11 DEF Again, Claimed, Answered
  <2> QED  BY <1>2, <2>1, <2>2
<1> QED  BY <1>3, <1>4, <1>5, <1>6, <1>7, <1>8, <1>9, <1>10, <1>11 DEF CallStep

LEMMA RefilledOnceStep ==
  ASSUME LimiterInvariant, IntervalsRefilledOnce, [LimiterNext]_limiterVars
  PROVE  IntervalsRefilledOnce'
<1>1. CASE UNCHANGED <<issued, refillAt>>
  BY <1>1 DEF IntervalsRefilledOnce
<1>2. ASSUME NEW c \in Caller, Claim(c) PROVE IntervalsRefilledOnce'
  <2> DEFINE n == Intervals(c)
  <2>1. CASE refillAt = call[c].due
    <3>1. refillAt' = refillAt + n /\ issued' = issued + n * TokensPerFill
      BY <1>2, <2>1 DEF Claim
    <3>2. n \in Int /\ refillAt \in Int
      <4>1. call[c].time \in Nat /\ call[c].due \in Nat
        BY DEF LimiterInvariant, CallStates
      <4> QED  BY <2>1, <4>1 DEF Intervals
    <3> HIDE DEF n
    <3> QED  BY <3>1, <3>2, LimiterConstants DEF IntervalsRefilledOnce
  <2>2. CASE refillAt # call[c].due
    BY <1>1, <1>2, <2>2 DEF Claim
  <2> QED  BY <2>1, <2>2
<1> QED
  BY <1>1, <1>2 DEF LimiterNext, CallStep, limiterVars, Tick, Check, RefillDue, ReadAvailable,
                    AddTokens, LoadAvailable, Take, Amend, Again

LEMMA LimiterBalanced == LimiterSpec => [](BalanceTurns /\ IntervalsRefilledOnce)
<1>1. LimiterInit => LimiterInvariant
  BY LimiterConstants DEF LimiterInit, LimiterInvariant, CallTimely, CallStates, Idle
<1>2. LimiterInit => BalanceTurns /\ IntervalsRefilledOnce
  <2> SUFFICES ASSUME LimiterInit PROVE BalanceTurns /\ IntervalsRefilledOnce
    OBVIOUS
  <2>1. Pending = 0
    <3>1. PICK it : SumsOf(Claims, it, Caller) /\ Pending = it[Caller]
      BY <1>1, PendingIsSum DEF ClaimsSummed
    <3>2. Claims = [c \in Caller |-> 0]
      BY DEF LimiterInit, Claims, Claimed, Idle
    <3>3. SumsOf(Claims, [s \in SUBSET Caller |-> 0], Caller)
      <4>1. \A s \in SUBSET Caller : s # {} => Claims[Picked(s)] = 0
        BY <3>2, PickedIn
      <4> QED  BY <4>1 DEF SumsOf
    <3>4. [s \in SUBSET Caller |-> 0][Caller] = it[Caller]
      BY <1>1, <3>1, <3>3, ClaimsType, SumsAgree, LimiterConstants
    <3> QED  BY <3>1, <3>4
  <2>2. Balance = 0 * Width
    BY <2>1, LimiterConstants DEF LimiterInit, Balance
  <2>3. IntervalsRefilledOnce
    BY LimiterConstants DEF LimiterInit, IntervalsRefilledOnce
  <2> QED  BY <2>2, <2>3 DEF BalanceTurns
<1>3. LimiterInvariant /\ LimiterInvariant' /\ BalanceTurns /\ IntervalsRefilledOnce
        /\ [LimiterNext]_limiterVars => BalanceTurns' /\ IntervalsRefilledOnce'
  <2> SUFFICES ASSUME LimiterInvariant, LimiterInvariant', BalanceTurns, IntervalsRefilledOnce,
                      [LimiterNext]_limiterVars
               PROVE  BalanceTurns'
    BY RefilledOnceStep
  <2>1. CASE UNCHANGED <<available, dropped, spent, issued, call>>
    BY ZenonT(60), <2>1 DEF BalanceTurns, Balance, Pending, Claimed, MapThenFoldSet
  <2> QED  BY <2>1, BalanceSteps DEF LimiterNext, limiterVars, Tick
<1> QED  BY <1>2, <1>3, LimiterTypes, PTL DEF LimiterSpec

(* Whatever callers, refills and amendments race, and however far behind   *)
(* the clock a caller is: every elapsed interval is refilled once, and no  *)
(* token is lost or made up but by a whole turn of the 64-bit counters.    *)
THEOREM TokensStayAccounted == LimiterSpec => []TokensAccounted
<1>1. LimiterInvariant => LimiterTypeOK
  BY LimiterConstants DEF LimiterInvariant, LimiterTypeOK, CallStates
<1>2. LimiterInvariant /\ BalanceTurns => TokensConserved
  <2> SUFFICES ASSUME LimiterInvariant, BalanceTurns PROVE TokensConserved
    OBVIOUS
  <2>1. PICK n \in Int : Balance = n * Width
    BY DEF BalanceTurns
  <2>2. Width \in Nat /\ Width > 0
    BY LimiterConstants
  <2>3. (n * Width) % Width = 0
    BY <2>2
  <2>4. available + dropped + spent + Pending - MaxTokens - issued = Balance
    <3>1. /\ available \in Int /\ dropped \in Int /\ spent \in Int /\ issued \in Int
          /\ MaxTokens \in Int
      BY LimiterConstants DEF LimiterInvariant
    <3>2. Pending \in Int
      BY PendingIsSum DEF ClaimsSummed, SumsOf
    <3> QED  BY <3>1, <3>2 DEF Balance
  <2> QED  BY <2>1, <2>3, <2>4 DEF TokensConserved, Pending
<1> QED  BY <1>1, <1>2, LimiterTypes, LimiterBalanced, PTL DEF TokensAccounted
-----------------------------------------------------------------------------
(***************************************************************************)
(* HttpProxy, for any policies, retries, frames and buffer.                *)
(***************************************************************************)

Requests == [retries : 0 .. MaxRetries, timeout : BOOLEAN, backoff : BOOLEAN,
             frames : 0 .. MaxFrames, hinted : BOOLEAN]
BodyStates == [owner : AttemptNo \cup {Shared}, read : 0 .. MaxFrames,
               kept : 0 .. MaxFrames, capped : BOOLEAN]

BodyTypes ==
  /\ cfg \in Requests /\ attempt \in AttemptNo
  /\ body \in BodyStates /\ sent \in [AttemptNo -> Seq(1 .. MaxFrames)]
  /\ alive \in SUBSET AttemptNo /\ broke \in SUBSET AttemptNo

(* What was read is kept until the buffer is full.                         *)
BufferExact ==
  /\ body.read <= cfg.frames
  /\ body.capped <=> body.read > Buffered
  /\ ~body.capped => body.kept = body.read
  /\ body.capped => body.kept = 0

(* An attempt that has not begun has left no trace.                        *)
Untouched(n) == n \notin alive /\ n \notin broke /\ sent[n] = <<>>
Ahead ==
  /\ \A n \in AttemptNo : n > attempt => Untouched(n) /\ body.owner # n
  /\ at \in {"gates", "prepare"} =>
       Untouched(attempt) /\ (attempt = 1 => body.owner = 1)
  /\ at = "gates" => attempt = 1

(* The original has the state until it is dropped, a clone from its first  *)
(* poll.  Who has the state and cannot replay has sent all that was read.  *)
OwnersSent ==
  /\ 1 \in alive => body.owner = 1
  /\ attempt > 1 => 1 \notin alive /\ body.owner # 1
  /\ \A n \in AttemptNo :
       /\ n \in alive /\ body.owner # n => sent[n] = <<>>
       /\ body.owner = n /\ (n = 1 \/ body.capped) => Len(sent[n]) = body.read
       /\ Len(sent[n]) <= body.read

(* The first two attempts find the state and what they have to replay.     *)
FirstTwo ==
  /\ attempt <= 2 /\ (attempt \in alive \/ at = "prepare") /\ body.capped =>
       body.owner = attempt
  /\ broke \cap alive = {}

BodyInvariant ==
  /\ BodyTypes /\ BufferExact /\ Ahead /\ OwnersSent /\ FirstTwo
  /\ WholeBodies /\ FirstRetrySound

LEMMA ProxyConstants ==
  /\ MaxRetries \in Nat /\ MaxFrames \in Nat /\ Buffered \in Nat
  /\ AttemptsMod \in Nat /\ AttemptsMod > 0 /\ MaxRetries < AttemptsMod
BY BoundsAssumption

LEMMA BodyInit == ProxyInit => BodyInvariant
<1> SUFFICES ASSUME ProxyInit PROVE BodyInvariant
  OBVIOUS
<1>1. /\ cfg \in Requests /\ attempt = 1 /\ 1 \in AttemptNo
      /\ body = [owner |-> 1, read |-> 0, kept |-> 0, capped |-> FALSE]
      /\ alive = {} /\ broke = {}
      /\ sent = [n \in AttemptNo |-> <<>>]
  BY ProxyConstants DEF ProxyInit, Requests, AttemptNo
<1>2. body \in BodyStates /\ sent \in [AttemptNo -> Seq(1 .. MaxFrames)]
  BY <1>1, ProxyConstants DEF BodyStates
<1>3. body.read <= cfg.frames
  BY <1>1, ProxyConstants DEF Requests
<1>4. BodyTypes /\ BufferExact
  BY <1>1, <1>2, <1>3, ProxyConstants DEF BodyTypes, BufferExact
<1>5. Ahead
  BY <1>1, ProxyConstants DEF Ahead, Untouched, AttemptNo
<1>6. OwnersSent /\ FirstTwo /\ WholeBodies /\ FirstRetrySound
  BY <1>1 DEF OwnersSent, FirstTwo, WholeBodies, FirstRetrySound
<1> QED  BY <1>4, <1>5, <1>6 DEF BodyInvariant

(* A frame in its place.                                                   *)
LEMMA NextFrame ==
  ASSUME NEW s \in Seq(1 .. MaxFrames), Len(s) + 1 \in 1 .. MaxFrames,
         \A i \in DOMAIN s : s[i] = i
  PROVE  /\ Append(s, Len(s) + 1) \in Seq(1 .. MaxFrames)
         /\ Len(Append(s, Len(s) + 1)) = Len(s) + 1
         /\ \A i \in DOMAIN Append(s, Len(s) + 1) : Append(s, Len(s) + 1)[i] = i
<1>1. Len(s) \in Nat /\ DOMAIN s = 1 .. Len(s)
  OBVIOUS
<1>2. /\ Append(s, Len(s) + 1) \in Seq(1 .. MaxFrames)
      /\ Len(Append(s, Len(s) + 1)) = Len(s) + 1
  BY <1>1
<1>3. ASSUME NEW i \in DOMAIN Append(s, Len(s) + 1) PROVE Append(s, Len(s) + 1)[i] = i
  <2>1. i \in 1 .. Len(s) + 1
    BY <1>1, <1>2, <1>3
  <2>2. CASE i = Len(s) + 1
    BY <1>1, <2>2
  <2>3. CASE i # Len(s) + 1
    BY <1>1, <2>1, <2>3
  <2> QED  BY <2>2, <2>3
<1> QED  BY <1>2, <1>3

(* Attempt n takes the state or keeps it, and sends the next frame, either *)
(* of what was read or read now, or none.                                  *)
LEMMA TakeStep ==
  ASSUME BodyInvariant, NEW n \in AttemptNo, n \in alive, HasState(n),
         BodyMoves, UNCHANGED <<alive, broke>>, body' \in BodyStates,
         body'.owner = n, BufferExact',
         \/ UNCHANGED sent
         \/ /\ sent' = [sent EXCEPT ![n] = Append(@, Len(@) + 1)]
            /\ Len(sent[n]) + 1 <= body'.read,
         body.read <= body'.read /\ body'.read <= MaxFrames,
         n = 1 \/ body'.capped => Len(sent'[n]) = body'.read
  PROVE  BodyInvariant'
<1>1. /\ n \in Nat /\ n >= 1 /\ n <= attempt /\ attempt \in Nat /\ attempt >= 1
      /\ at \in {"gates", "prepare"} => n # attempt
      /\ UNCHANGED <<cfg, attempt, at>>
  BY ProxyConstants DEF BodyInvariant, BodyTypes, Ahead, Untouched, AttemptNo, BodyMoves
<1>2. /\ sent \in [AttemptNo -> Seq(1 .. MaxFrames)] /\ sent[n] \in Seq(1 .. MaxFrames)
      /\ \A m \in AttemptNo : Len(sent[m]) \in Nat
  BY DEF BodyInvariant, BodyTypes
<1>3. /\ sent' \in [AttemptNo -> Seq(1 .. MaxFrames)]
      /\ \A i \in DOMAIN sent'[n] : sent'[n][i] = i
      /\ Len(sent'[n]) <= body'.read
      /\ \A m \in AttemptNo : m # n => sent'[m] = sent[m]
  <2>1. CASE UNCHANGED sent
    <3>1. /\ Len(sent[n]) <= body.read /\ Len(sent[n]) \in Nat /\ body.read \in Nat
          /\ body'.read \in Nat /\ \A i \in DOMAIN sent[n] : sent[n][i] = i
      BY <1>2, ProxyConstants DEF BodyInvariant, BodyTypes, OwnersSent, WholeBodies, BodyStates
    <3> QED  BY <1>2, <2>1, <3>1
  <2>2. CASE /\ sent' = [sent EXCEPT ![n] = Append(@, Len(@) + 1)]
             /\ Len(sent[n]) + 1 <= body'.read
    <3>1. Len(sent[n]) + 1 \in 1 .. MaxFrames
      BY <1>2, <2>2, ProxyConstants DEF BodyStates
    <3>2. \A i \in DOMAIN sent[n] : sent[n][i] = i
      BY DEF BodyInvariant, WholeBodies
    <3>3. PICK f : f = Append(sent[n], Len(sent[n]) + 1)
      OBVIOUS
    <3>4. /\ f \in Seq(1 .. MaxFrames) /\ Len(f) = Len(sent[n]) + 1
          /\ \A i \in DOMAIN f : f[i] = i
      BY <1>2, <3>1, <3>2, <3>3, NextFrame
    <3>5. sent' = [sent EXCEPT ![n] = f]
      BY <2>2, <3>3
    <3>6. sent'[n] = f /\ \A m \in AttemptNo : m # n => sent'[m] = sent[m]
      BY <1>2, <3>5
    <3>7. sent' \in [AttemptNo -> Seq(1 .. MaxFrames)]
      BY <1>2, <3>4, <3>5
    <3> QED  BY <2>2, <3>4, <3>6, <3>7
  <2> QED  BY <2>1, <2>2
<1>4. BodyTypes'
  BY <1>1, <1>3 DEF BodyInvariant, BodyTypes
<1>5. Ahead'
  <2>1. ASSUME NEW m \in AttemptNo, m > attempt
        PROVE  m \notin alive /\ m \notin broke /\ sent'[m] = <<>> /\ n # m
    BY <1>1, <1>3, <2>1, ProxyConstants DEF BodyInvariant, Ahead, Untouched, AttemptNo
  <2>2. ASSUME at \in {"gates", "prepare"}
        PROVE  /\ attempt \notin alive /\ attempt \notin broke /\ sent'[attempt] = <<>>
               /\ attempt # 1
    BY <1>1, <1>3, <2>2, ProxyConstants
       DEF BodyInvariant, Ahead, Untouched, AttemptNo, BodyTypes
  <2> QED  BY <1>1, <2>1, <2>2 DEF BodyInvariant, Ahead, Untouched
<1>6. OwnersSent'
  <2>1. 1 \in alive => n = 1
    BY DEF BodyInvariant, OwnersSent, HasState, Shared
  <2>2. attempt > 1 => 1 \notin alive /\ n # 1
    BY DEF BodyInvariant, OwnersSent
  <2>3. ASSUME NEW m \in AttemptNo
        PROVE  /\ m \in alive /\ n # m => sent'[m] = <<>>
               /\ n = m /\ (m = 1 \/ body'.capped) => Len(sent'[m]) = body'.read
               /\ Len(sent'[m]) <= body'.read
    <3>1. CASE m = n
      BY <1>3, <3>1
    <3>2. CASE m # n
      <4>1. sent'[m] = sent[m] /\ Len(sent[m]) <= body.read /\ Len(sent[m]) \in Nat
        BY <1>2, <1>3, <3>2 DEF BodyInvariant, OwnersSent
      <4>2. body.read \in Nat /\ body'.read \in Nat
        BY ProxyConstants DEF BodyInvariant, BodyTypes, BodyStates
      <4>3. m \in alive => sent[m] = <<>>
        BY <3>2 DEF BodyInvariant, OwnersSent, HasState, Shared, AttemptNo
      <4> QED  BY <3>2, <4>1, <4>2, <4>3
    <3> QED  BY <3>1, <3>2
  <2> QED  BY <1>1, <2>1, <2>2, <2>3 DEF OwnersSent
<1>7. FirstTwo'
  <2>1. attempt <= 2 => n = attempt
    BY <1>1 DEF BodyInvariant, OwnersSent
  <2> QED  BY <1>1, <2>1 DEF BodyInvariant, FirstTwo
<1>8. WholeBodies'
  BY <1>3 DEF BodyInvariant, WholeBodies
<1>9. FirstRetrySound'
  <2>1. n \notin broke
    BY DEF BodyInvariant, FirstTwo
  <2> QED  BY <1>1, <1>3, <2>1 DEF BodyInvariant, BodyTypes, FirstRetrySound
<1> QED  BY <1>4, <1>5, <1>6, <1>7, <1>8, <1>9 DEF BodyInvariant

(* What a body in a connection has sent.                                   *)
LEMMA HeldSent ==
  ASSUME BodyInvariant, NEW n \in AttemptNo, n \in alive, HasState(n)
  PROVE  /\ body \in BodyStates /\ body.read \in Nat /\ body.kept \in Nat
         /\ body.read <= MaxFrames /\ cfg.frames \in Nat /\ cfg.frames <= MaxFrames
         /\ body.capped \in BOOLEAN /\ n \in Nat /\ n >= 1
         /\ sent \in [AttemptNo -> Seq(1 .. MaxFrames)] /\ Len(sent[n]) \in Nat
         /\ Len(sent[n]) <= body.read
         /\ ~Replays(n) /\ ~FindsCapped(n) => Len(sent[n]) = body.read
         /\ Replays(n) => ~body.capped /\ n > 1 /\ Len(sent[n]) + 1 <= body.read
<1>1. /\ body \in BodyStates /\ body.read \in Nat /\ body.kept \in Nat
      /\ body.read <= MaxFrames /\ cfg.frames \in Nat /\ cfg.frames <= MaxFrames
      /\ body.capped \in BOOLEAN /\ n \in Nat /\ n >= 1
  BY ProxyConstants DEF BodyInvariant, BodyTypes, BodyStates, Requests, AttemptNo
<1>2. /\ sent \in [AttemptNo -> Seq(1 .. MaxFrames)] /\ Len(sent[n]) \in Nat
      /\ Len(sent[n]) <= body.read
  BY DEF BodyInvariant, BodyTypes, OwnersSent
<1>3. /\ ~body.capped => body.kept = body.read
      /\ body.capped => body.kept = 0
  BY DEF BodyInvariant, BufferExact
<1>4. n = 1 => body.owner = 1
  BY DEF BodyInvariant, OwnersSent
<1>5. body.owner = n /\ (n = 1 \/ body.capped) => Len(sent[n]) = body.read
  BY DEF BodyInvariant, OwnersSent
<1>6. body.owner = n \/ body.owner = Shared
  BY DEF HasState
<1>7. ASSUME ~Replays(n), ~FindsCapped(n) PROVE Len(sent[n]) = body.read
  <2>1. CASE n = 1
    BY <1>4, <1>5, <2>1
  <2>2. CASE n # 1 /\ body.capped
    BY <1>1, <1>5, <1>6, <1>7, <2>2 DEF FindsCapped
  <2>3. CASE n # 1 /\ ~body.capped
    BY <1>1, <1>2, <1>3, <1>7, <2>3 DEF Replays
  <2> QED  BY <1>1, <2>1, <2>2, <2>3
<1>8. Replays(n) => ~body.capped /\ n > 1 /\ Len(sent[n]) + 1 <= body.read
  BY <1>1, <1>2, <1>3 DEF Replays
<1> QED  BY <1>1, <1>2, <1>7, <1>8

LEMMA ReplayStep ==
  ASSUME BodyInvariant, NEW n \in AttemptNo, ReplayFrame(n) PROVE BodyInvariant'
<1>1. /\ n \in alive /\ HasState(n) /\ Replays(n) /\ BodyMoves
      /\ UNCHANGED <<alive, broke>>
      /\ sent' = [sent EXCEPT ![n] = Append(@, Len(@) + 1)]
      /\ body' = [body EXCEPT !.owner = n]
  BY DEF ReplayFrame
<1>2. /\ body \in BodyStates /\ body.read \in Nat /\ body.read <= MaxFrames
      /\ ~body.capped /\ n > 1 /\ Len(sent[n]) + 1 <= body.read
  BY <1>1, HeldSent
<1>3. /\ body' \in BodyStates /\ body'.owner = n /\ body'.read = body.read
      /\ body'.kept = body.kept /\ body'.capped = body.capped
  BY <1>1, <1>2 DEF BodyStates
<1>4. BufferExact'
  BY <1>1, <1>3 DEF BodyInvariant, BufferExact, BodyMoves
<1>5. ~(n = 1 \/ body'.capped)
  BY <1>2, <1>3
<1>6. body.read <= body'.read /\ body'.read <= MaxFrames /\ Len(sent[n]) + 1 <= body'.read
  BY <1>2, <1>3
<1> QED  BY <1>1, <1>3, <1>4, <1>5, <1>6, TakeStep

LEMMA ReadStep ==
  ASSUME BodyInvariant, NEW n \in AttemptNo, ReadFrame(n) PROVE BodyInvariant'
<1> DEFINE over == body.read + 1 > Buffered
<1>1. /\ n \in alive /\ HasState(n) /\ ~Replays(n) /\ ~FindsCapped(n) /\ BodyMoves
      /\ UNCHANGED <<alive, broke>> /\ body.read < cfg.frames
      /\ sent' = [sent EXCEPT ![n] = Append(@, body.read + 1)]
      /\ body' = [owner |-> n, read |-> body.read + 1,
                  kept |-> IF over THEN 0 ELSE body.kept + 1, capped |-> over]
  BY DEF ReadFrame
<1>2. /\ body \in BodyStates /\ body.read \in Nat /\ body.kept \in Nat
      /\ cfg.frames \in Nat /\ cfg.frames <= MaxFrames
      /\ sent \in [AttemptNo -> Seq(1 .. MaxFrames)]
      /\ Len(sent[n]) = body.read
  BY <1>1, HeldSent
<1>3. sent' = [sent EXCEPT ![n] = Append(@, Len(@) + 1)]
  BY <1>1, <1>2
<1>4. /\ body'.owner = n /\ body'.read = body.read + 1
      /\ body'.kept = (IF over THEN 0 ELSE body.kept + 1) /\ (body'.capped <=> over)
  BY <1>1
<1>5. body.kept = body.read \/ body.kept = 0
  BY DEF BodyInvariant, BufferExact, BodyTypes, BodyStates
<1>6. /\ over => body'.kept = 0
      /\ ~over => body'.kept = body.read + 1
  <2>1. ~over => ~body.capped
    BY <1>2, ProxyConstants DEF BodyInvariant, BufferExact
  <2> QED  BY <1>4, <2>1 DEF BodyInvariant, BufferExact
<1>7. body'.read \in 0 .. MaxFrames /\ body'.kept \in 0 .. MaxFrames /\ over \in BOOLEAN
  BY <1>1, <1>2, <1>4, <1>6, ProxyConstants
<1>8. body' \in BodyStates
  BY <1>1, <1>4, <1>7 DEF BodyStates
<1>9. BufferExact'
  <2>1. body'.read <= cfg'.frames
    BY <1>1, <1>2, <1>4 DEF BodyMoves
  <2>2. body'.capped <=> body'.read > Buffered
    BY <1>4
  <2> QED  BY <1>4, <1>6, <2>1, <2>2 DEF BufferExact
<1>10. Len(sent[n]) + 1 <= body'.read /\ body.read <= body'.read /\ body'.read <= MaxFrames
  BY <1>1, <1>2, <1>4, ProxyConstants
<1>11. Len(sent'[n]) = body'.read
  <2>1. sent'[n] = Append(sent[n], Len(sent[n]) + 1)
    BY <1>2, <1>3
  <2>2. Len(Append(sent[n], Len(sent[n]) + 1)) = Len(sent[n]) + 1
    BY <1>2
  <2> QED  BY <1>2, <1>4, <2>1, <2>2
<1> QED  BY <1>1, <1>3, <1>4, <1>8, <1>9, <1>10, <1>11, TakeStep

LEMMA PendingStep ==
  ASSUME BodyInvariant, NEW n \in AttemptNo, PollPending(n) PROVE BodyInvariant'
<1>1. /\ n \in alive /\ HasState(n) /\ ~Replays(n) /\ ~FindsCapped(n) /\ BodyMoves
      /\ UNCHANGED <<alive, broke, sent>> /\ body.owner = Shared
      /\ body' = [body EXCEPT !.owner = n]
  BY DEF PollPending, HasState
<1>2. /\ body \in BodyStates /\ body.read \in Nat /\ body.read <= MaxFrames
      /\ Len(sent[n]) = body.read
  BY <1>1, HeldSent
<1>3. /\ body' \in BodyStates /\ body'.owner = n /\ body'.read = body.read
      /\ body'.kept = body.kept /\ body'.capped = body.capped
  BY <1>1, <1>2 DEF BodyStates
<1>4. BufferExact'
  BY <1>1, <1>3 DEF BodyInvariant, BufferExact, BodyMoves
<1>5. Len(sent'[n]) = body'.read /\ body.read <= body'.read /\ body'.read <= MaxFrames
  BY <1>1, <1>2, <1>3
<1> QED  BY <1>1, <1>3, <1>4, <1>5, TakeStep

(* A body that breaks had no state, and had sent nothing.                  *)
LEMMA BreakStep ==
  ASSUME BodyInvariant, NEW n \in AttemptNo, PollBreaks(n) PROVE BodyInvariant'
<1>2. /\ n \in alive /\ (~HasState(n) \/ FindsCapped(n))
      /\ UNCHANGED <<body, sent, cfg, attempt, at>>
      /\ broke' = broke \cup {n} /\ alive' = alive \ {n}
  BY DEF PollBreaks, BodyMoves
<1>3. n # 1 /\ body.owner # n /\ n \in Nat /\ n >= 1 /\ attempt \in Nat /\ attempt >= 1
  BY <1>2, ProxyConstants
     DEF BodyInvariant, BodyTypes, OwnersSent, HasState, FindsCapped, Shared, AttemptNo
<1>4. n <= attempt /\ attempt > 1
  BY <1>2, <1>3 DEF BodyInvariant, Ahead, Untouched
<1>5. attempt > 2
  <2> SUFFICES ASSUME attempt = 2, n = 2 PROVE FALSE
    BY <1>3, <1>4
  <2>1. body.owner # 1
    BY <1>4 DEF BodyInvariant, OwnersSent
  <2>2. body.owner \in {Shared, 1, 2}
    <3>1. body.owner \in AttemptNo \cup {Shared}
      BY DEF BodyInvariant, BodyTypes, BodyStates
    <3>2. \A m \in AttemptNo : m > 2 => body.owner # m
      BY DEF BodyInvariant, Ahead
    <3> QED  BY <3>1, <3>2, ProxyConstants DEF AttemptNo
  <2>3. HasState(n)
    BY <2>1, <2>2 DEF HasState
  <2>4. body.owner = Shared /\ body.capped
    BY <1>2, <2>3 DEF FindsCapped
  <2>5. body.owner = attempt
    BY <1>2, <2>4 DEF BodyInvariant, FirstTwo
  <2> QED  BY <2>4, <2>5 DEF Shared
<1>6. sent[n] = <<>>
  BY <1>2, <1>3 DEF BodyInvariant, OwnersSent
<1>7. BodyTypes' /\ BufferExact' /\ WholeBodies'
  BY <1>2 DEF BodyInvariant, BodyTypes, BufferExact, WholeBodies
<1>8. Ahead'
  BY <1>2, <1>4 DEF BodyInvariant, Ahead, Untouched, BodyTypes, AttemptNo
<1>9. OwnersSent' /\ FirstTwo'
  BY <1>2, <1>5 DEF BodyInvariant, OwnersSent, FirstTwo
<1>10. FirstRetrySound'
  BY <1>2, <1>3, <1>5, <1>6 DEF BodyInvariant, FirstRetrySound
<1> QED  BY <1>7, <1>8, <1>9, <1>10 DEF BodyInvariant

(* A body that is dropped gives the state back.                            *)
LEMMA DropStep ==
  ASSUME BodyInvariant, NEW n \in AttemptNo, GivesBack(n),
         UNCHANGED <<cfg, attempt, broke, sent>>,
         \/ n \in alive /\ alive' = alive \ {n} /\ UNCHANGED at
         \/ n = attempt /\ at = "prepare" /\ at' = "ended" /\ UNCHANGED alive
  PROVE  BodyInvariant'
<1>1. /\ body' \in BodyStates /\ body'.read = body.read /\ body'.kept = body.kept
      /\ body'.capped = body.capped
      /\ body'.owner = (IF body.owner = n THEN Shared ELSE body.owner)
  BY DEF GivesBack, BodyInvariant, BodyTypes, BodyStates
<1>2. /\ attempt \in Nat /\ attempt >= 1 /\ n \in Nat /\ n >= 1 /\ n <= attempt
      /\ n \notin alive'
  BY ProxyConstants DEF BodyInvariant, BodyTypes, Ahead, Untouched, AttemptNo
<1>3. BodyTypes' /\ BufferExact' /\ WholeBodies' /\ FirstRetrySound'
  BY <1>1 DEF BodyInvariant, BodyTypes, BufferExact, WholeBodies, FirstRetrySound
<1>4. Ahead'
  <2>1. at' \in {"gates", "prepare"} => n \in alive /\ at' = at
    OBVIOUS
  <2>2. \A m \in AttemptNo : m > attempt => Untouched(m)' /\ body'.owner # m
    BY <1>1, ProxyConstants DEF BodyInvariant, Ahead, Untouched, Shared, AttemptNo
  <2>3. ASSUME at' \in {"gates", "prepare"}
        PROVE  /\ attempt \notin alive' /\ attempt \notin broke /\ sent[attempt] = <<>>
               /\ attempt = 1 => body'.owner = 1
    BY <1>1, <1>2, <2>1, <2>3 DEF BodyInvariant, Ahead, Untouched
  <2>4. at' = "gates" => attempt = 1
    BY DEF BodyInvariant, Ahead
  <2> QED  BY <2>2, <2>3, <2>4 DEF Ahead, Untouched
<1>5. OwnersSent'
  BY <1>1, <1>2 DEF BodyInvariant, OwnersSent, Shared, AttemptNo
<1>6. FirstTwo'
  <2>1. ASSUME attempt <= 2, attempt \in alive' \/ at' = "prepare", body.capped
        PROVE  body'.owner = attempt
    <3>1. body.owner = attempt
      BY <2>1 DEF BodyInvariant, FirstTwo
    <3>2. n # attempt
      BY <1>2, <2>1 DEF BodyInvariant, Ahead, Untouched
    <3> QED  BY <1>1, <3>1, <3>2
  <2> QED  BY <1>1, <2>1 DEF BodyInvariant, FirstTwo
<1> QED  BY <1>3, <1>4, <1>5, <1>6 DEF BodyInvariant

LEMMA RetryStep ==
  ASSUME BodyInvariant, Retry PROVE BodyInvariant'
<1>1. /\ attempt' = attempt + 1 /\ attempt < Attempts /\ at' = "prepare"
      /\ body.owner = Shared /\ ~body.capped
      /\ UNCHANGED <<cfg, body, alive, broke, sent>>
  BY DEF Retry, Retries, CanReplay, bodyVars
<1>2. attempt' \in AttemptNo
  <2>1. cfg.retries \in 0 .. MaxRetries
    BY DEF BodyInvariant, BodyTypes, Requests
  <2>2. Attempts <= MaxRetries + 1 /\ Attempts \in Int
    <3>1. CASE cfg.retries + 1 < AttemptsMod
      <4>1. Attempts = cfg.retries + 1
        BY <2>1, <3>1, ProxyConstants DEF Attempts
      <4> QED  BY <2>1, <4>1, ProxyConstants
    <3>2. CASE ~(cfg.retries + 1 < AttemptsMod)
      <4>1. cfg.retries + 1 = AttemptsMod
        BY <2>1, <3>2, ProxyConstants
      <4>2. AttemptsMod % AttemptsMod = 0
        BY ProxyConstants
      <4> QED  BY <4>1, <4>2, ProxyConstants DEF Attempts
    <3> QED  BY <3>1, <3>2
  <2>3. attempt \in Int /\ attempt >= 1
    BY ProxyConstants DEF BodyInvariant, BodyTypes, AttemptNo
  <2> QED  BY <1>1, <2>2, <2>3, ProxyConstants DEF AttemptNo
<1>3. attempt \in Nat /\ attempt >= 1
  BY ProxyConstants DEF BodyInvariant, BodyTypes, AttemptNo
<1>4. BodyTypes' /\ BufferExact' /\ WholeBodies'
  BY <1>1, <1>2 DEF BodyInvariant, BodyTypes, BufferExact, WholeBodies
<1>5. Ahead'
  <2>1. \A n \in AttemptNo : n > attempt + 1 =>
          n \notin alive /\ n \notin broke /\ sent[n] = <<>> /\ body.owner # n
    BY <1>3, ProxyConstants DEF BodyInvariant, Ahead, Untouched, AttemptNo
  <2>2. attempt + 1 \notin alive /\ attempt + 1 \notin broke /\ sent[attempt + 1] = <<>>
    BY <1>1, <1>2, <1>3 DEF BodyInvariant, Ahead, Untouched
  <2> QED  BY <1>1, <1>3, <2>1, <2>2 DEF Ahead, Untouched
<1>6. OwnersSent'
  <2>1. 1 \notin alive
    BY <1>1 DEF BodyInvariant, OwnersSent, Shared
  <2> QED  BY <1>1, <2>1 DEF BodyInvariant, OwnersSent, Shared
<1>7. FirstTwo' /\ FirstRetrySound'
  BY <1>1, <1>3 DEF BodyInvariant, FirstTwo, FirstRetrySound
<1> QED  BY <1>4, <1>5, <1>6, <1>7 DEF BodyInvariant

LEMMA BodyStep == BodyInvariant /\ [ProxyNext]_proxyVars => BodyInvariant'
<1> SUFFICES ASSUME BodyInvariant, [ProxyNext]_proxyVars PROVE BodyInvariant'
  OBVIOUS
<1>1. ASSUME UNCHANGED <<cfg, attempt, bodyVars>>,
             at' = at \/ at' \notin {"gates", "prepare"} \/ (at = "gates" /\ at' = "prepare")
      PROVE  BodyInvariant'
  <2>1. BodyTypes' /\ BufferExact' /\ WholeBodies' /\ FirstRetrySound' /\ OwnersSent'
    BY <1>1 DEF BodyInvariant, BodyTypes, BufferExact, WholeBodies, FirstRetrySound,
                OwnersSent, bodyVars
  <2>2. Ahead'
    BY <1>1 DEF BodyInvariant, Ahead, Untouched, bodyVars
  <2>3. at = "gates" => attempt = 1 /\ body.owner = 1
    BY DEF BodyInvariant, Ahead
  <2>4. FirstTwo'
    BY <1>1, <2>3 DEF BodyInvariant, FirstTwo, bodyVars
  <2> QED  BY <2>1, <2>2, <2>4 DEF BodyInvariant
<1>2. ASSUME NEW n \in AttemptNo, DropBodyOf(n) PROVE BodyInvariant'
  BY <1>2, DropStep DEF DropBodyOf, BodyMoves
<1>3. ASSUME Prepare, at' = "calling", alive' = alive \cup {attempt}, UNCHANGED <<result, body>>
      PROVE  BodyInvariant'
  <2>1. at = "prepare" /\ UNCHANGED <<cfg, attempt, broke, sent>>
    BY <1>3 DEF Prepare
  <2>2. Untouched(attempt) /\ (attempt = 1 => body.owner = 1) /\ attempt \in AttemptNo
    BY <2>1 DEF BodyInvariant, Ahead, BodyTypes
  <2>3. BodyTypes' /\ BufferExact' /\ WholeBodies' /\ FirstRetrySound'
    BY <1>3, <2>1, <2>2
       DEF BodyInvariant, BodyTypes, BufferExact, WholeBodies, FirstRetrySound
  <2>4. Ahead'
    BY <1>3, <2>1, <2>2, ProxyConstants DEF BodyInvariant, Ahead, Untouched, AttemptNo
  <2>5. OwnersSent'
    BY <1>3, <2>1, <2>2, ProxyConstants DEF BodyInvariant, OwnersSent, Untouched, AttemptNo
  <2>6. FirstTwo'
    BY <1>3, <2>1, <2>2 DEF BodyInvariant, FirstTwo, Untouched
  <2> QED  BY <2>3, <2>4, <2>5, <2>6 DEF BodyInvariant
<1>4. CASE NoEndpoint
  <2>1. attempt \in AttemptNo
    BY DEF BodyInvariant, BodyTypes
  <2> QED  BY <1>4, <2>1, DropStep DEF NoEndpoint, EndAttempt
<1>5. CASE Prepare
  <2>1. attempt \in AttemptNo
    BY DEF BodyInvariant, BodyTypes
  <2>2. \/ at' = "calling" /\ alive' = alive \cup {attempt} /\ UNCHANGED <<result, body>>
        \/ at' = "ended" /\ GivesBack(attempt) /\ UNCHANGED alive
    BY <1>5 DEF Prepare, EndAttempt
  <2>3. at = "prepare" /\ UNCHANGED <<cfg, attempt, broke, sent>>
    BY <1>5 DEF Prepare
  <2> QED  BY <1>3, <1>5, <2>1, <2>2, <2>3, DropStep
<1>6. CASE \/ \E asks \in BOOLEAN : PassGate(asks)
           \/ TimeoutPasses
  BY <1>1, <1>6 DEF PassGate, TimeoutPasses
<1>7. CASE \/ \E r \in {"refused", "direct"} : StopAtGate(r)
           \/ GatesPassed \/ CallTimesOut \/ NoRetry \/ Backoff \/ GiveUp \/ BackoffTimesOut
           \/ \E fails \in BOOLEAN : Respond(fails)
           \/ StreamEnds \/ ClientGone
           \/ \E r \in {"ok", "retry code", "switching", "call failed", "backend timeout"} :
                CallEnds(r)
  <2>1. UNCHANGED <<cfg, attempt, bodyVars>>
    BY <1>7 DEF StopAtGate, GatesPassed, CallTimesOut, NoRetry, Backoff, GiveUp,
                BackoffTimesOut, Respond, StreamEnds, ClientGone, CallEnds, EndAttempt, FinishLog
  <2>2. at' \notin {"gates", "prepare"} \/ (at = "gates" /\ at' = "prepare")
    BY <1>7 DEF StopAtGate, GatesPassed, CallTimesOut, NoRetry, Backoff, GiveUp,
                BackoffTimesOut, Respond, StreamEnds, ClientGone, CallEnds, EndAttempt, FinishLog
  <2> QED  BY <1>1, <2>1, <2>2
<1>8. CASE UNCHANGED proxyVars
  BY <1>1, <1>8 DEF proxyVars, bodyVars
<1> QED
  BY <1>2, <1>4, <1>5, <1>6, <1>7, <1>8, ReplayStep, ReadStep, PendingStep, BreakStep, RetryStep
     DEF ProxyNext

LEMMA BodyAlways == ProxySpec => []BodyInvariant
BY BodyInit, BodyStep, PTL DEF ProxySpec

(* The rest of the state: policies, handles and results.                   *)
Results == Retryable \cup Final \cup {"none"}
RestTypes ==
  /\ at \in {"gates", "prepare", "calling", "ended", "backoff", "respond",
             "streaming", "done"}
  /\ gate \in 0 .. Len(Gates)
  /\ owed \in SUBSET GateNames /\ given \in SUBSET owed
  /\ late \in BOOLEAN /\ upgrade \in BOOLEAN
  /\ handle \in [AttemptNo -> {"none", "held", "dropped", "finished"}]
  /\ result \in Results
  /\ out \in [what : Results, headers : SUBSET GateNames]

LEMMA GatesAreNames ==
  /\ Len(Gates) \in Nat
  /\ \A i \in 1 .. Len(Gates) : Gates[i] \in Configured => Gates[i] \in GateNames
<1> DEFINE Of(s) == {s[i] : i \in DOMAIN s}
           S == Of(GatewayGates) \cup Of(RouteGates)
<1>1. GatewayGates \in Seq(S)
  <2>1. Len(GatewayGates) = 3 /\ DOMAIN GatewayGates = 1 .. 3
    BY DEF GatewayGates
  <2>2. \A i \in 1 .. 3 : GatewayGates[i] \in S
    BY <2>1
  <2>3. GatewayGates = [i \in 1 .. 3 |-> GatewayGates[i]]
    BY DEF GatewayGates
  <2> HIDE DEF S
  <2> QED  BY <2>2, <2>3
<1>2. RouteGates \in Seq(S)
  <2>1. Len(RouteGates) = 12 /\ DOMAIN RouteGates = 1 .. 12
    BY DEF RouteGates
  <2>2. \A i \in 1 .. 12 : RouteGates[i] \in S
    BY <2>1
  <2>3. RouteGates = [i \in 1 .. 12 |-> RouteGates[i]]
    BY DEF RouteGates
  <2> HIDE DEF S
  <2> QED  BY <2>2, <2>3
<1> HIDE DEF S
<1>3. Gates \in Seq(S)
  BY <1>1, <1>2 DEF Gates
<1> QED  BY <1>3 DEF GateNames

LEMMA RestAlways == ProxySpec => []RestTypes
<1>1. ProxyInit => RestTypes
  <2> SUFFICES ASSUME ProxyInit PROVE RestTypes
    OBVIOUS
  <2>1. gate \in 0 .. Len(Gates)
    BY GatesAreNames DEF ProxyInit
  <2>2. out \in [what : Results, headers : SUBSET GateNames] /\ result \in Results
    BY DEF ProxyInit, Results
  <2>3. handle \in [AttemptNo -> {"none", "held", "dropped", "finished"}]
    BY DEF ProxyInit
  <2> QED  BY <2>1, <2>2, <2>3 DEF ProxyInit, RestTypes
<1>2. RestTypes /\ [ProxyNext]_proxyVars => RestTypes'
  <2> SUFFICES ASSUME RestTypes, [ProxyNext]_proxyVars PROVE RestTypes'
    OBVIOUS
  <2>1. ASSUME NEW asks \in BOOLEAN, PassGate(asks) PROVE RestTypes'
    <3>1. gate' = gate + 1 /\ gate + 1 \in 1 .. Len(Gates)
      BY <2>1, GatesAreNames DEF PassGate, RestTypes
    <3>2. asks => Gates[gate + 1] \in GateNames
      BY <2>1, <3>1, GatesAreNames DEF PassGate
    <3>3. owed' \in SUBSET GateNames /\ given' \in SUBSET owed'
      BY <2>1, <3>2 DEF PassGate, RestTypes
    <3> QED  BY <2>1, <3>1, <3>3 DEF PassGate, RestTypes
  <2>2. ASSUME NEW r \in {"refused", "direct"}, StopAtGate(r) PROVE RestTypes'
    BY <2>2 DEF StopAtGate, RestTypes, Results, Final
  <2>3. CASE Prepare \/ NoEndpoint
    BY <2>3 DEF Prepare, NoEndpoint, EndAttempt, RestTypes, Results, Final
  <2>4. ASSUME NEW r \in {"ok", "retry code", "switching", "call failed", "backend timeout"},
               CallEnds(r)
        PROVE  RestTypes'
    <3>1. result' \in Results
      BY <2>4 DEF CallEnds, EndAttempt, Results, Final, Retryable
    <3>2. upgrade' \in BOOLEAN
      BY <2>4 DEF CallEnds, RestTypes
    <3>3. at' = "ended" /\ UNCHANGED <<gate, owed, given, late, handle, out>>
      BY <2>4 DEF CallEnds, EndAttempt
    <3> QED  BY <3>1, <3>2, <3>3 DEF RestTypes
  <2>5. CASE TimeoutPasses \/ CallTimesOut \/ BackoffTimesOut
    BY <2>5 DEF TimeoutPasses, CallTimesOut, BackoffTimesOut, EndAttempt, RestTypes, Results,
                Retryable
  <2>6. CASE GatesPassed \/ NoRetry \/ Backoff \/ Retry \/ GiveUp
    BY <2>6 DEF GatesPassed, NoRetry, Backoff, Retry, GiveUp, RestTypes
  <2>7. ASSUME NEW fails \in BOOLEAN, Respond(fails) PROVE RestTypes'
    <3>1. out' \in [what : Results, headers : SUBSET GateNames]
      BY <2>7 DEF Respond, RestTypes, Results, Final
    <3> QED  BY <2>7, <3>1 DEF Respond, RestTypes
  <2>8. CASE StreamEnds \/ ClientGone
    <3>1. /\ at' = "done"
          /\ UNCHANGED <<gate, owed, given, late, result, upgrade, out>>
      BY <2>8 DEF StreamEnds, ClientGone, FinishLog
    <3>2. PICK enabled \in BOOLEAN :
            handle' = [n \in AttemptNo |-> IF handle[n] # "held" THEN handle[n]
                                           ELSE IF enabled THEN "finished" ELSE "dropped"]
      BY <2>8 DEF StreamEnds, ClientGone, FinishLog
    <3>3. handle' \in [AttemptNo -> {"none", "held", "dropped", "finished"}]
      BY <3>2 DEF RestTypes
    <3> QED  BY <3>1, <3>3 DEF RestTypes
  <2>9. CASE UNCHANGED <<at, gate, owed, given, late, upgrade, handle, result, out>>
    BY <2>9 DEF RestTypes
  <2> QED
    BY <2>1, <2>2, <2>3, <2>4, <2>5, <2>6, <2>7, <2>8, <2>9
       DEF ProxyNext, proxyVars, ReplayFrame, ReadFrame, PollPending, PollBreaks, DropBodyOf,
           BodyMoves
<1> QED  BY <1>1, <1>2, PTL DEF ProxySpec

(* What an upstream is sent of a body are its frames from the first on,    *)
(* each in its place, whatever is retried, times out, is capped or is      *)
(* dropped late; no body of the first two attempts breaks under a poll,    *)
(* and one of a later attempt only before it has sent anything.            *)
THEOREM BodiesStayReplayed == ProxySpec => []BodiesReplayed
<1>1. BodyInvariant /\ RestTypes => ProxyTypeOK
  BY DEF BodyInvariant, BodyTypes, RestTypes, ProxyTypeOK, Requests, BodyStates, Results
<1>2. BodyInvariant => WholeBodies /\ FirstRetrySound
  BY DEF BodyInvariant
<1> QED  BY <1>1, <1>2, BodyAlways, RestAlways, PTL DEF BodiesReplayed

-----------------------------------------------------------------------------
(***************************************************************************)
(* LogWriter, for any threads, records and bounds.                         *)
(***************************************************************************)

Writers == [phase : {"idle", "sending", "counting"}, records : 0..MaxRecords,
            buf : Seq(Record), curr : 0..CounterMax]
Workers == [phase : {"idle", "batch", "flush", "closing", "ended"}, batch : Seq(Line),
            stop : BOOLEAN]

(* What a thread sends ends with its last record.                          *)
BufferSent ==
  \A t \in Thread :
    /\ \A i \in 1..Len(writerOf[t].buf) : writerOf[t].buf[i][1] = t
    /\ writerOf[t].phase = "sending" =>
         /\ writerOf[t].buf # <<>>
         /\ Last(writerOf[t].buf) = <<t, writerOf[t].records>>

LogTypes ==
  /\ lossy \in BOOLEAN
  /\ writerOf \in [Thread -> Writers] /\ BufferSent
  /\ channel \in Seq(Line \cup {Stop}) /\ Len(channel) <= Limit
  /\ worker \in Workers /\ Len(worker.batch) <= Group
  /\ printed \in Seq(Line) /\ lost \in Seq(Line) /\ refused \in Seq(Line)
  /\ counter \in 0..CounterMax
  /\ guard \in {"held", "stopping", "waiting", "flushed", "gone"}
  /\ worker.phase \notin {"batch", "flush"} => worker.batch = <<>>

LEMMA LogBounds ==
  MaxRecords \in Nat /\ Limit \in Nat /\ Group \in Nat /\ Group > 0 /\ CounterMax \in Nat
BY LogBoundsAssumption

(* A writer's step changes its own state only.                             *)
LEMMA WriterMoves ==
  ASSUME writerOf \in [Thread -> Writers], BufferSent, NEW t \in Thread, NEW w \in Writers,
         writerOf' = [writerOf EXCEPT ![t] = w],
         \A i \in 1..Len(w.buf) : w.buf[i][1] = t,
         w.phase = "sending" => w.buf # <<>> /\ Last(w.buf) = <<t, w.records>>
  PROVE  /\ writerOf' \in [Thread -> Writers] /\ BufferSent'
         /\ writerOf'[t] = w /\ \A u \in Thread : u # t => writerOf'[u] = writerOf[u]
BY DEF BufferSent

(* The outcomes of a writer's steps.                                       *)
LEMMA Rendered ==
  ASSUME LogTypes, NEW t \in Thread, Render(t) \/ RenderFails(t)
  PROVE  \E w \in Writers :
           /\ writerOf' = [writerOf EXCEPT ![t] = w]
           /\ w.records = writerOf[t].records + 1 /\ writerOf[t].phase = "idle"
           /\ w.phase \in {"idle", "sending"} /\ w.curr = writerOf[t].curr
           /\ w.buf # <<>> /\ Last(w.buf) = <<t, w.records>>
           /\ \A i \in 1..Len(w.buf) : w.buf[i][1] = t
<1> DEFINE o == writerOf[t]
           n == o.records + 1
           b == Append(o.buf, <<t, n>>)
           w == IF Render(t) THEN [o EXCEPT !.phase = "sending", !.records = n, !.buf = b]
                ELSE [o EXCEPT !.records = n, !.buf = b]
<1>1. o \in Writers /\ o.phase = "idle" /\ n \in 0..MaxRecords /\ n \in 1..MaxRecords
  BY LogBounds DEF LogTypes, Writers, Render, RenderFails
<1>2. /\ b \in Seq(Record) /\ b # <<>> /\ Last(b) = <<t, n>>
      /\ \A i \in 1..Len(b) : b[i][1] = t
  <2>1. o.buf \in Seq(Record) /\ \A i \in 1..Len(o.buf) : o.buf[i][1] = t
    BY <1>1 DEF Writers, LogTypes, BufferSent
  <2>2. <<t, n>> \in Record
    BY <1>1 DEF Record
  <2>3. /\ b \in Seq(Record) /\ Len(b) = Len(o.buf) + 1 /\ Len(o.buf) \in Nat
        /\ b[Len(b)] = <<t, n>>
    BY <2>1, <2>2
  <2>4. ASSUME NEW i \in 1..Len(b)  PROVE b[i][1] = t
    <3>1. CASE i = Len(b)
      BY <3>1, <2>3
    <3>2. CASE i # Len(b)
      <4>1. i \in 1..Len(o.buf) /\ b[i] = o.buf[i]
        BY <3>2, <2>1, <2>2, <2>3
      <4> QED  BY <4>1, <2>1
    <3> QED  BY <3>1, <3>2
  <2>5. b # <<>>
    BY <2>3
  <2> QED  BY <2>3, <2>4, <2>5 DEF Last
<1> HIDE DEF b
<1>3. w \in Writers /\ w.records = n /\ w.phase \in {"idle", "sending"} /\ w.buf = b /\ w.curr = o.curr
  BY <1>1, <1>2 DEF Writers
<1>4. writerOf' = [writerOf EXCEPT ![t] = w]
  <2>1. CASE Render(t)
    <3>1. w = [o EXCEPT !.phase = "sending", !.records = n, !.buf = b]
      BY <2>1
    <3>2. writerOf' = [writerOf EXCEPT ![t] = [o EXCEPT !.phase = "sending", !.records = n, !.buf = b]]
      BY <2>1 DEF Render, b
    <3> QED  BY <3>1, <3>2
  <2>2. CASE ~Render(t)
    <3>1. w = [o EXCEPT !.records = n, !.buf = b]
      BY <2>2
    <3>2. writerOf' = [writerOf EXCEPT ![t] = [o EXCEPT !.records = n, !.buf = b]]
      BY <2>2 DEF RenderFails, b
    <3> QED  BY <3>1, <3>2
  <2> QED  BY <2>1, <2>2
<1> HIDE DEF w
<1> QED  BY <1>1, <1>2, <1>3, <1>4

(* The largest and the smallest of two counts.                             *)
LEMMA Largest2 ==
  ASSUME NEW a \in Nat, NEW b \in Nat
  PROVE  /\ Max({a, b}) = IF a >= b THEN a ELSE b
         /\ Min({a, b}) = IF a <= b THEN a ELSE b
<1>1. Max({a, b}) \in {a, b} /\ Max({a, b}) >= a /\ Max({a, b}) >= b
  <2>1. \E x \in {a, b} : \A y \in {a, b} : x >= y
    OBVIOUS
  <2> QED  BY <2>1 DEF Max
<1>2. Min({a, b}) \in {a, b} /\ Min({a, b}) <= a /\ Min({a, b}) <= b
  <2>1. \E x \in {a, b} : \A y \in {a, b} : x <= y
    OBVIOUS
  <2> QED  BY <2>1 DEF Min
<1> QED  BY <1>1, <1>2

-----------------------------------------------------------------------------
(* The order of the lines                                                  *)

Slot == Line \cup {Stop}
Precede(A, B) == \A l \in A, m \in B : Before(l, m)
Apart(A, B) == \A l \in A, m \in B : l[1][1] = m[1][1] => Last(l)[2] # Last(m)[2]

LEMMA LineParts ==
  ASSUME NEW l \in Line
  PROVE  l # Stop /\ l[1][1] \in Thread /\ Last(l)[2] \in Nat
<1>1. l \in Seq(Record) /\ Len(l) \in Nat /\ Len(l) > 0
  BY DEF Line, Stop
<1>2. l[1] \in Record /\ l[Len(l)] \in Record
  BY <1>1
<1>3. l[1][1] \in Thread /\ l[Len(l)][2] \in 1..MaxRecords
  BY <1>2 DEF Record
<1> QED  BY <1>3 DEF Line, Last, Stop

LEMMA RangeOf ==
  ASSUME NEW S, NEW s \in Seq(S)
  PROVE  /\ Range(s) \subseteq S /\ \A i \in 1..Len(s) : s[i] \in Range(s)
         /\ \A x \in Range(s) : \E i \in 1..Len(s) : x = s[i]
BY DEF Range

LEMMA RangeConcat ==
  ASSUME NEW S, NEW s \in Seq(S), NEW u \in Seq(S)
  PROVE  s \o u \in Seq(S) /\ Range(s \o u) = Range(s) \cup Range(u)
<1>1. s \o u \in Seq(S) /\ Len(s \o u) = Len(s) + Len(u) /\ Len(s) \in Nat /\ Len(u) \in Nat
  OBVIOUS
<1>2. ASSUME NEW x \in Range(s \o u)  PROVE x \in Range(s) \cup Range(u)
  <2>1. PICK i \in 1..Len(s \o u) : x = (s \o u)[i]
    BY <1>1, <1>2, RangeOf
  <2>2. CASE i <= Len(s)
    BY <1>1, <2>1, <2>2, RangeOf
  <2>3. CASE i > Len(s)
    <3>1. i - Len(s) \in 1..Len(u) /\ x = u[i - Len(s)]
      BY <1>1, <2>1, <2>3
    <3> QED  BY <3>1, RangeOf
  <2> QED  BY <1>1, <2>2, <2>3
<1>3. ASSUME NEW x \in Range(s)  PROVE x \in Range(s \o u)
  <2>1. PICK i \in 1..Len(s) : x = s[i]
    BY <1>3, RangeOf
  <2>2. i \in 1..Len(s \o u) /\ x = (s \o u)[i]
    BY <1>1, <2>1
  <2> QED  BY <1>1, <2>2, RangeOf
<1>4. ASSUME NEW x \in Range(u)  PROVE x \in Range(s \o u)
  <2>1. PICK i \in 1..Len(u) : x = u[i]
    BY <1>4, RangeOf
  <2>2. Len(s) + i \in 1..Len(s \o u) /\ x = (s \o u)[Len(s) + i]
    BY <1>1, <2>1
  <2> QED  BY <1>1, <2>2, RangeOf
<1> QED  BY <1>1, <1>2, <1>3, <1>4

LEMMA RangeAppend ==
  ASSUME NEW S, NEW s \in Seq(S), NEW x \in S
  PROVE  Append(s, x) \in Seq(S) /\ Range(Append(s, x)) = Range(s) \cup {x}
<1>1. /\ Append(s, x) \in Seq(S) /\ Len(Append(s, x)) = Len(s) + 1 /\ Len(s) \in Nat
      /\ Append(s, x)[Len(s) + 1] = x
      /\ \A i \in 1..Len(s) : Append(s, x)[i] = s[i]
  OBVIOUS
<1>2. ASSUME NEW y \in Range(Append(s, x))  PROVE y \in Range(s) \cup {x}
  <2>1. PICK i \in 1..Len(Append(s, x)) : y = Append(s, x)[i]
    BY <1>1, <1>2, RangeOf
  <2>2. i = Len(s) + 1 \/ i \in 1..Len(s)
    BY <1>1
  <2> QED  BY <1>1, <2>1, <2>2, RangeOf
<1>3. Range(s) \cup {x} \subseteq Range(Append(s, x))
  <2>1. ASSUME NEW y \in Range(s)  PROVE y \in Range(Append(s, x))
    <3>1. PICK i \in 1..Len(s) : y = s[i]
      BY <2>1, RangeOf
    <3>2. i \in 1..Len(Append(s, x))
      BY <1>1
    <3> QED  BY <1>1, <3>1, <3>2, RangeOf
  <2>2. x \in Range(Append(s, x))
    <3>1. Len(s) + 1 \in 1..Len(Append(s, x))
      BY <1>1
    <3>2. Append(s, x)[Len(s) + 1] \in Range(Append(s, x))
      BY <1>1, <3>1, RangeOf
    <3> QED  BY <1>1, <3>2
  <2> QED  BY <2>1, <2>2
<1> QED  BY <1>1, <1>2, <1>3

LEMMA RangeTail ==
  ASSUME NEW S, NEW s \in Seq(S), s # <<>>
  PROVE  /\ Head(s) \in Range(s) /\ Head(s) \in S /\ Tail(s) \in Seq(S)
         /\ Range(Tail(s)) \subseteq Range(s)
<1>1. /\ Tail(s) \in Seq(S) /\ Len(s) \in Nat /\ Len(s) > 0 /\ Len(Tail(s)) = Len(s) - 1
      /\ Head(s) = s[1] /\ \A i \in 1..Len(Tail(s)) : Tail(s)[i] = s[i + 1]
  OBVIOUS
<1>2. ASSUME NEW y \in Range(Tail(s))  PROVE y \in Range(s)
  <2>1. PICK i \in 1..Len(Tail(s)) : y = Tail(s)[i]
    BY <1>1, <1>2, RangeOf
  <2>2. i + 1 \in 1..Len(s) /\ y = s[i + 1]
    BY <1>1, <2>1
  <2> QED  BY <2>2, RangeOf
<1>3. 1 \in 1..Len(s)
  BY <1>1
<1> QED  BY <1>1, <1>2, <1>3, RangeOf

LEMMA RangeSub ==
  ASSUME NEW S, NEW s \in Seq(S), NEW a \in 1..(Len(s) + 1), NEW b \in 0..Len(s)
  PROVE  SubSeq(s, a, b) \in Seq(S) /\ Range(SubSeq(s, a, b)) \subseteq Range(s)
<1> DEFINE u == SubSeq(s, a, b)
<1>1. /\ u \in Seq(S) /\ Len(s) \in Nat /\ Len(u) = IF a <= b THEN b - a + 1 ELSE 0
      /\ \A i \in 1..Len(u) : u[i] = s[a + i - 1]
  OBVIOUS
<1>2. ASSUME NEW y \in Range(u)  PROVE y \in Range(s)
  <2> HIDE DEF u
  <2>1. PICK i \in 1..Len(u) : y = u[i]
    BY <1>1, <1>2, RangeOf
  <2>2. a + i - 1 \in 1..Len(s) /\ y = s[a + i - 1]
    BY <1>1, <2>1
  <2> QED  BY <2>2, RangeOf
<1> QED  BY <1>1, <1>2

(* An order that holds of two sequences, and between them, holds of the    *)
(* one sequence they make; it holds of every part of a sequence.           *)
LEMMA OrderConcat ==
  ASSUME NEW s \in Seq(Slot), NEW u \in Seq(Slot), InOrder(s), InOrder(u),
         Precede(Range(s), Range(u))
  PROVE  InOrder(s \o u)
<1> DEFINE c == s \o u
<1>1. /\ Len(c) = Len(s) + Len(u) /\ Len(s) \in Nat /\ Len(u) \in Nat
      /\ \A i \in 1..Len(s) : c[i] = s[i]
      /\ \A i \in 1..Len(c) : i > Len(s) => i - Len(s) \in 1..Len(u) /\ c[i] = u[i - Len(s)]
  OBVIOUS
<1> HIDE DEF c
<1>2. ASSUME NEW i \in 1..Len(c), NEW j \in 1..Len(c), i < j  PROVE Before(c[i], c[j])
  <2>1. CASE j <= Len(s)
    <3>1. i \in 1..Len(s) /\ j \in 1..Len(s)
      BY <1>1, <1>2, <2>1
    <3> QED  BY <1>1, <1>2, <3>1 DEF InOrder
  <2>2. CASE i > Len(s)
    <3>1. i - Len(s) < j - Len(s) /\ j > Len(s)
      BY <1>1, <1>2, <2>2
    <3> QED  BY <1>1, <2>2, <3>1 DEF InOrder
  <2>3. CASE i <= Len(s) /\ j > Len(s)
    <3>1. c[i] \in Range(s) /\ c[j] \in Range(u)
      BY <1>1, <2>3, RangeOf
    <3> QED  BY <3>1 DEF Precede
  <2> QED  BY <1>1, <2>1, <2>2, <2>3
<1> QED  BY <1>2 DEF InOrder, c

LEMMA OrderAppend ==
  ASSUME NEW s \in Seq(Slot), NEW x \in Slot, InOrder(s), Precede(Range(s), {x})
  PROVE  InOrder(Append(s, x))
<1> DEFINE c == Append(s, x)
<1>1. /\ Len(c) = Len(s) + 1 /\ Len(s) \in Nat /\ c[Len(c)] = x
      /\ \A i \in 1..Len(s) : c[i] = s[i]
  OBVIOUS
<1> HIDE DEF c
<1>2. ASSUME NEW i \in 1..Len(c), NEW j \in 1..Len(c), i < j  PROVE Before(c[i], c[j])
  <2>1. i \in 1..Len(s) /\ (j = Len(c) \/ j \in 1..Len(s))
    BY <1>1, <1>2
  <2>2. CASE j = Len(c)
    BY <1>1, <2>1, <2>2, RangeOf DEF Precede
  <2>3. CASE j \in 1..Len(s)
    BY <1>1, <1>2, <2>1, <2>3 DEF InOrder
  <2> QED  BY <2>1, <2>2, <2>3
<1> QED  BY <1>2 DEF InOrder, c

LEMMA OrderTail ==
  ASSUME NEW s \in Seq(Slot), s # <<>>, InOrder(s)
  PROVE  InOrder(Tail(s)) /\ Precede({Head(s)}, Range(Tail(s)))
<1>1. /\ Tail(s) \in Seq(Slot) /\ Len(s) \in Nat /\ Len(s) > 0 /\ Len(Tail(s)) = Len(s) - 1
      /\ Head(s) = s[1] /\ \A i \in 1..Len(Tail(s)) : Tail(s)[i] = s[i + 1] /\ i + 1 \in 1..Len(s)
  OBVIOUS
<1>2. InOrder(Tail(s))
  <2>1. ASSUME NEW i \in 1..Len(Tail(s)), NEW j \in 1..Len(Tail(s)), i < j
        PROVE  Before(Tail(s)[i], Tail(s)[j])
    <3>1. i + 1 < j + 1
      BY <2>1
    <3> QED  BY <1>1, <3>1 DEF InOrder
  <2> QED  BY <2>1 DEF InOrder
<1>3. ASSUME NEW m \in Range(Tail(s))  PROVE Before(Head(s), m)
  <2>1. PICK i \in 1..Len(Tail(s)) : m = Tail(s)[i]
    BY <1>1, <1>3, RangeOf
  <2>2. 1 \in 1..Len(s) /\ 1 < i + 1
    BY <1>1
  <2> QED  BY <1>1, <2>1, <2>2 DEF InOrder
<1> QED  BY <1>2, <1>3 DEF Precede

LEMMA OrderCut ==
  ASSUME NEW s \in Seq(Slot), NEW n \in 0..Len(s), InOrder(s)
  PROVE  /\ InOrder(SubSeq(s, 1, n)) /\ InOrder(SubSeq(s, n + 1, Len(s)))
         /\ Precede(Range(SubSeq(s, 1, n)), Range(SubSeq(s, n + 1, Len(s))))
<1> DEFINE f == SubSeq(s, 1, n)
           g == SubSeq(s, n + 1, Len(s))
<1>1. /\ f \in Seq(Slot) /\ g \in Seq(Slot) /\ Len(s) \in Nat
      /\ Len(f) = n /\ Len(g) = Len(s) - n
      /\ \A i \in 1..Len(f) : f[i] = s[i] /\ i \in 1..Len(s)
      /\ \A i \in 1..Len(g) : g[i] = s[n + i] /\ n + i \in 1..Len(s)
  OBVIOUS
<1> HIDE DEF f, g
<1>2. InOrder(f)
  BY <1>1 DEF InOrder
<1>3. InOrder(g)
  <2>1. ASSUME NEW i \in 1..Len(g), NEW j \in 1..Len(g), i < j  PROVE Before(g[i], g[j])
    <3>1. n + i < n + j
      BY <1>1, <2>1
    <3> QED  BY <1>1, <3>1 DEF InOrder
  <2> QED  BY <2>1 DEF InOrder
<1>4. ASSUME NEW l \in Range(f), NEW m \in Range(g)  PROVE Before(l, m)
  <2>1. PICK i \in 1..Len(f) : l = f[i]
    BY <1>1, <1>4, RangeOf
  <2>2. PICK j \in 1..Len(g) : m = g[j]
    BY <1>1, <1>4, RangeOf
  <2>3. i < n + j
    BY <1>1
  <2> QED  BY <1>1, <2>1, <2>2, <2>3 DEF InOrder
<1> QED  BY <1>2, <1>3, <1>4 DEF Precede, f, g

-----------------------------------------------------------------------------
(* What the worker has is older than what is in the channel, and what the  *)
(* channel has is older than what a thread is about to send.               *)
Below(l, w) ==
  \A t \in Thread :
    l[1][1] = t => /\ Last(l)[2] <= w[t].records
                   /\ w[t].phase = "sending" => Last(l)[2] < w[t].records
Behind(A, w) == \A l \in A : l # Stop => Below(l, w)

LinesOrdered ==
  /\ InOrder(printed) /\ InOrder(lost) /\ InOrder(worker.batch) /\ InOrder(channel)
  /\ Precede(Range(printed), Range(worker.batch)) /\ Precede(Range(printed), Range(channel))
  /\ Precede(Range(lost), Range(worker.batch)) /\ Precede(Range(lost), Range(channel))
  /\ Precede(Range(worker.batch), Range(channel))
  /\ Apart(Range(printed), Range(lost))
  /\ Behind(Range(printed), writerOf) /\ Behind(Range(lost), writerOf)
  /\ Behind(Range(worker.batch), writerOf) /\ Behind(Range(channel), writerOf)

(* The types: each writer's step is WriterMoves, and the others leave the  *)
(* writers alone.                                                          *)
LEMMA LogTypesInit == LogInit => LogTypes
BY LogBounds DEF LogInit, LogTypes, BufferSent, Writers, Workers

LEMMA LogTypesStep ==
  ASSUME LogTypes, [LogNext]_logVars
  PROVE  LogTypes'
<1> USE LogBounds
<1>1. ASSUME NEW t \in Thread, Render(t) \/ RenderFails(t)  PROVE LogTypes'
  <2>1. PICK w \in Writers :
          /\ writerOf' = [writerOf EXCEPT ![t] = w]
          /\ w.records = writerOf[t].records + 1 /\ writerOf[t].phase = "idle"
          /\ w.phase \in {"idle", "sending"} /\ w.curr = writerOf[t].curr
          /\ w.buf # <<>> /\ Last(w.buf) = <<t, w.records>>
          /\ \A i \in 1..Len(w.buf) : w.buf[i][1] = t
    BY <1>1, Rendered
  <2>2. writerOf' \in [Thread -> Writers] /\ BufferSent'
    BY <2>1, WriterMoves DEF LogTypes
  <2> QED  BY <1>1, <2>2 DEF LogTypes, Render, RenderFails, OutputStays
<1>2. ASSUME NEW t \in Thread, SendLine(t) \/ RefuseLine(t)  PROVE LogTypes'
  <2> DEFINE b == writerOf[t].buf
  <2>1. writerOf[t] \in Writers /\ b \in Line /\ writerOf[t].phase = "sending"
    BY <1>2 DEF LogTypes, Writers, BufferSent, SendLine, RefuseLine, Line, Stop
  <2>0. <<>> \in Seq(Record) /\ counter \in 0..CounterMax
    BY DEF LogTypes
  <2>2. PICK w \in Writers : writerOf' = [writerOf EXCEPT ![t] = w] /\ w.buf = <<>>
                             /\ w.phase # "sending"
    <3>1. CASE SendLine(t)
      <4> DEFINE w == [writerOf[t] EXCEPT !.phase = "idle", !.buf = <<>>]
      <4>1. w \in Writers /\ w.buf = <<>> /\ w.phase = "idle"
        BY <2>0, <2>1 DEF Writers
      <4>2. writerOf' = [writerOf EXCEPT ![t] = w]
        BY <3>1 DEF SendLine, LogTypes, Writers
      <4> QED  BY <4>1, <4>2
    <3>2. CASE RefuseLine(t)
      <4> DEFINE w == [writerOf[t] EXCEPT !.phase = "counting", !.buf = <<>>,
                                          !.curr = counter]
      <4>1. w \in Writers /\ w.buf = <<>> /\ w.phase = "counting"
        BY <2>0, <2>1 DEF Writers
      <4>2. writerOf' = [writerOf EXCEPT ![t] = w]
        BY <3>2 DEF RefuseLine, LogTypes, Writers
      <4> QED  BY <4>1, <4>2
    <3> QED  BY <1>2, <3>1, <3>2
  <2>3. writerOf' \in [Thread -> Writers] /\ BufferSent'
    <3>1. \A i \in 1..Len(w.buf) : w.buf[i][1] = t
      BY <2>2
    <3> QED  BY <2>2, <3>1, WriterMoves DEF LogTypes
  <2> HIDE DEF b
  <2>5. channel \in Seq(Slot) /\ b \in Slot /\ refused \in Seq(Line) /\ Len(channel) <= Limit
    BY <2>1 DEF LogTypes, Slot
  <2>6. /\ Append(channel, b) \in Seq(Slot) /\ Len(Append(channel, b)) = Len(channel) + 1
        /\ Append(refused, b) \in Seq(Line) /\ Len(channel) \in Nat
    BY <2>1, <2>5
  <2>4. channel' \in Seq(Slot) /\ Len(channel') <= Limit /\ refused' \in Seq(Line)
    <3>1. CASE SendLine(t)
      <4>1. channel' = Append(channel, b) /\ Len(channel) < Limit /\ refused' = refused
        BY <3>1 DEF SendLine, b
      <4> QED  BY <2>5, <2>6, <4>1
    <3>2. CASE RefuseLine(t)
      <4>1. refused' = Append(refused, b) /\ channel' = channel
        BY <3>2 DEF RefuseLine, b
      <4> QED  BY <2>5, <2>6, <4>1
    <3> QED  BY <1>2, <3>1, <3>2
  <2> QED  BY <1>2, <2>3, <2>4 DEF LogTypes, SendLine, RefuseLine, OutputStays, Slot
<1>3. ASSUME NEW t \in Thread, SendErrs(t) \/ CountDropped(t)  PROVE LogTypes'
  <2>1. writerOf[t] \in Writers
    BY DEF LogTypes
  <2>2. counter \in 0..CounterMax /\ counter' \in 0..CounterMax
    <3> DEFINE c == writerOf[t].curr
               d == Incremented(c)
    <3>1. c \in 0..CounterMax /\ counter \in 0..CounterMax
      BY <2>1 DEF LogTypes, Writers
    <3>2. d \in 0..CounterMax
      BY <3>1 DEF Incremented
    <3>3. counter' = Max({counter, d}) \/ counter' = counter
      BY <1>3 DEF SendErrs, CountDropped
    <3> HIDE DEF c, d
    <3>4. Max({counter, d}) = IF counter >= d THEN counter ELSE d
      <4>1. counter \in Nat /\ d \in Nat
        BY <3>1, <3>2
      <4> QED  BY <4>1, Largest2
    <3> QED  BY <3>1, <3>2, <3>3, <3>4
  <2>3. PICK w \in Writers : /\ writerOf' = [writerOf EXCEPT ![t] = w]
                             /\ w.buf = writerOf[t].buf /\ w.phase # "sending"
    <3>1. CASE SendErrs(t) \/ writerOf[t].curr \in {counter, CounterMax}
      <4> DEFINE w == [writerOf[t] EXCEPT !.phase = "idle"]
      <4>1. w \in Writers /\ w.buf = writerOf[t].buf /\ w.phase = "idle"
        BY <2>1 DEF Writers
      <4>2. writerOf' = [writerOf EXCEPT ![t] = w]
        BY <1>3, <3>1 DEF SendErrs, CountDropped, LogTypes, Writers
      <4> QED  BY <4>1, <4>2
    <3>2. CASE CountDropped(t) /\ writerOf[t].curr \notin {counter, CounterMax}
      <4> DEFINE w == [writerOf[t] EXCEPT !.curr = counter]
      <4>1. w \in Writers /\ w.buf = writerOf[t].buf /\ w.phase = "counting"
        BY <2>1, <2>2, <3>2 DEF Writers, CountDropped
      <4>2. writerOf' = [writerOf EXCEPT ![t] = w]
        BY <3>2 DEF CountDropped, LogTypes, Writers
      <4> QED  BY <4>1, <4>2
    <3> QED  BY <1>3, <3>1, <3>2
  <2>4. \A i \in 1..Len(writerOf[t].buf) : writerOf[t].buf[i][1] = t
    BY DEF LogTypes, BufferSent
  <2>5. writerOf' \in [Thread -> Writers] /\ BufferSent'
    BY <2>3, <2>4, WriterMoves DEF LogTypes
  <2> QED  BY <1>3, <2>2, <2>5 DEF LogTypes, SendErrs, CountDropped, OutputStays
<1> DEFINE Bound(k) == Len(k.batch) <= Group
           Rests(k) == k.phase \notin {"batch", "flush"} => k.batch = <<>>
<1>4. UNCHANGED writerOf => writerOf' \in [Thread -> Writers] /\ BufferSent'
  BY DEF LogTypes, BufferSent
<1>5. CASE ReceiveFirst \/ ReceiveMore
  <2> DEFINE h == Head(channel)
  <2>1. h \in Slot /\ Tail(channel) \in Seq(Slot) /\ Len(Tail(channel)) <= Limit
    BY <1>5 DEF ReceiveFirst, ReceiveMore, LogTypes, Slot
  <2>2. worker \in Workers /\ Bound(worker) /\ Rests(worker) /\ <<>> \in Seq(Line)
    BY DEF LogTypes
  <2> HIDE DEF h
  <2>3. worker' \in Workers /\ Bound(worker') /\ Rests(worker')
    <3>1. CASE ReceiveFirst /\ h = Stop
      BY <2>2, <3>1 DEF ReceiveFirst, Workers, h
    <3>2. CASE ReceiveFirst /\ h # Stop
      <4>1. <<h>> \in Seq(Line) /\ Len(<<h>>) = 1
        BY <2>1, <3>2 DEF Slot
      <4> DEFINE k == [worker EXCEPT !.phase = "batch", !.batch = <<h>>]
      <4>2. worker' = k
        BY <3>2 DEF ReceiveFirst, h
      <4>3. k \in Workers /\ k.batch = <<h>> /\ k.phase = "batch"
        BY <2>2, <4>1 DEF Workers
      <4> HIDE DEF k
      <4> QED  BY <2>2, <4>1, <4>2, <4>3
    <3>3. CASE ReceiveMore /\ h = Stop
      <4> DEFINE k == [worker EXCEPT !.stop = TRUE]
      <4>1. worker' = k
        BY <3>3 DEF ReceiveMore, h
      <4>2. k \in Workers /\ k.batch = worker.batch /\ k.phase = worker.phase
        BY <2>2 DEF Workers
      <4> HIDE DEF k
      <4> QED  BY <2>2, <4>1, <4>2
    <3>4. CASE ReceiveMore /\ h # Stop
      <4> DEFINE a == Append(worker.batch, h)
      <4>1. a \in Seq(Line) /\ Len(a) = Len(worker.batch) + 1 /\ Len(worker.batch) \in Nat
        BY <2>1, <2>2, <3>4 DEF Slot, Workers
      <4>2. worker' = [worker EXCEPT !.batch = a]
        BY <3>4 DEF ReceiveMore, h
      <4>3. Len(worker.batch) < Group /\ worker.phase = "batch"
        BY <3>4 DEF ReceiveMore
      <4> HIDE DEF a
      <4> QED  BY <2>2, <4>1, <4>2, <4>3 DEF Workers
    <3> QED  BY <1>5, <3>1, <3>2, <3>3, <3>4
  <2> QED  BY <1>4, <1>5, <2>1, <2>3 DEF ReceiveFirst, ReceiveMore, OutputStays, LogTypes, Slot
<1>6. CASE GroupTaken \/ WorkerEnds
  BY <1>4, <1>6 DEF GroupTaken, WorkerEnds, OutputStays, LogTypes, Workers
<1>7. CASE Flush
  BY <1>4, <1>7 DEF Flush, AfterGroup, LogTypes, Workers
<1>8. ASSUME NEW n \in 0..Group, FlushFails(n)  PROVE LogTypes'
  <2>1. n \in 0..Len(worker.batch) /\ Len(worker.batch) \in Nat
    BY <1>8 DEF FlushFails, LogTypes, Workers
  <2>2. /\ SubSeq(worker.batch, 1, n) \in Seq(Line)
        /\ SubSeq(worker.batch, n + 1, Len(worker.batch)) \in Seq(Line)
    BY <2>1, RangeSub DEF LogTypes, Workers
  <2> QED  BY <1>4, <1>8, <2>2 DEF FlushFails, LogTypes, Workers
<1>9. CASE DropGuard \/ SendStop \/ Meet \/ GuardTimesOut \/ UNCHANGED logVars
  <2>1. CASE DropGuard \/ GuardTimesOut \/ UNCHANGED logVars
    BY <1>4, <2>1 DEF DropGuard, GuardTimesOut, logVars, LogTypes
  <2>2. CASE SendStop
    <3>1. channel \in Seq(Slot) /\ Stop \in Slot /\ Len(channel) < Limit
      BY <2>2 DEF SendStop, LogTypes, Slot
    <3>2. Append(channel, Stop) \in Seq(Slot) /\ Len(Append(channel, Stop)) <= Limit
      BY <3>1
    <3> QED  BY <1>4, <2>2, <3>2 DEF SendStop, LogTypes, Slot
  <2>3. CASE Meet
    BY <1>4, <2>3 DEF Meet, LogTypes, Workers
  <2> QED  BY <1>9, <2>1, <2>2, <2>3
<1>10. \/ \E t \in Thread : \/ Render(t) \/ RenderFails(t) \/ SendLine(t)
                            \/ RefuseLine(t) \/ SendErrs(t) \/ CountDropped(t)
       \/ ReceiveFirst \/ ReceiveMore \/ GroupTaken \/ WorkerEnds \/ Flush
       \/ \E n \in 0..Group : FlushFails(n)
       \/ DropGuard \/ SendStop \/ Meet \/ GuardTimesOut \/ UNCHANGED logVars
  BY DEF LogNext
<1>11. CASE \E t \in Thread : \/ Render(t) \/ RenderFails(t) \/ SendLine(t)
                              \/ RefuseLine(t) \/ SendErrs(t) \/ CountDropped(t)
  BY <1>1, <1>2, <1>3, <1>11
<1>12. CASE \E n \in 0..Group : FlushFails(n)
  BY <1>8, <1>12
<1> QED  BY <1>5, <1>6, <1>7, <1>9, <1>10, <1>11, <1>12

-----------------------------------------------------------------------------
LEMMA LogSequences ==
  ASSUME LogTypes
  PROVE  /\ printed \in Seq(Slot) /\ lost \in Seq(Slot) /\ worker.batch \in Seq(Slot)
         /\ channel \in Seq(Slot) /\ worker.batch \in Seq(Line)
         /\ Range(printed) \subseteq Line /\ Range(lost) \subseteq Line
         /\ Range(worker.batch) \subseteq Line /\ Range(channel) \subseteq Slot
         /\ Line \subseteq Slot /\ Stop \in Slot
<1>1. printed \in Seq(Line) /\ lost \in Seq(Line) /\ worker.batch \in Seq(Line)
      /\ channel \in Seq(Slot) /\ Line \subseteq Slot /\ Stop \in Slot
  BY DEF LogTypes, Workers, Slot
<1>2. \A s \in Seq(Line) : s \in Seq(Slot)
  BY <1>1
<1> QED  BY <1>1, <1>2, RangeOf

(* No thread takes back a record.                                          *)
Grows(w, v) ==
  \A t \in Thread :
    /\ w[t].records \in Nat /\ v[t].records \in Nat /\ v[t].records >= w[t].records
    /\ v[t].phase = "sending" => \/ w[t].phase = "sending"
                                 \/ v[t].records > w[t].records

LEMMA BehindKept ==
  ASSUME NEW A, A \subseteq Slot, NEW w, NEW v, Grows(w, v), Behind(A, w)
  PROVE  Behind(A, v)
<1>1. ASSUME NEW l \in A, l # Stop, NEW t \in Thread, l[1][1] = t
      PROVE  /\ Last(l)[2] <= v[t].records
             /\ v[t].phase = "sending" => Last(l)[2] < v[t].records
  <2>1. Last(l)[2] \in Nat
    BY <1>1, LineParts DEF Slot
  <2>2. /\ Last(l)[2] <= w[t].records
        /\ w[t].phase = "sending" => Last(l)[2] < w[t].records
    BY <1>1 DEF Behind, Below
  <2> QED  BY <2>1, <2>2 DEF Grows
<1> QED  BY <1>1 DEF Behind, Below

LEMMA WritersGrow ==
  ASSUME LogTypes, [LogNext]_logVars
  PROVE  Grows(writerOf, writerOf')
<1>1. \A t \in Thread : writerOf[t] \in Writers /\ writerOf[t].records \in Nat
  BY LogBounds DEF LogTypes, Writers
<1>2. CASE UNCHANGED writerOf
  BY <1>1, <1>2 DEF Grows
<1>3. ASSUME NEW t \in Thread, Render(t) \/ RenderFails(t)  PROVE Grows(writerOf, writerOf')
  <2>1. PICK w \in Writers :
          writerOf' = [writerOf EXCEPT ![t] = w] /\ w.records = writerOf[t].records + 1
    BY <1>3, Rendered
  <2>2. writerOf'[t] = w /\ \A u \in Thread : u # t => writerOf'[u] = writerOf[u]
    BY <2>1 DEF LogTypes
  <2> QED  BY <1>1, <2>1, <2>2 DEF Grows
<1>4. ASSUME NEW t \in Thread,
             SendLine(t) \/ RefuseLine(t) \/ SendErrs(t) \/ CountDropped(t)
      PROVE  Grows(writerOf, writerOf')
  <2>1. /\ writerOf'[t].records = writerOf[t].records /\ writerOf'[t].phase # "sending"
        /\ \A u \in Thread : u # t => writerOf'[u] = writerOf[u]
    <3>1. CASE SendLine(t)
      BY <1>1, <3>1 DEF LogTypes, Writers, SendLine
    <3>2. CASE RefuseLine(t)
      <4> DEFINE w == [writerOf[t] EXCEPT !.phase = "counting", !.buf = <<>>, !.curr = counter]
      <4>1. w.records = writerOf[t].records /\ w.phase = "counting"
        BY <1>1 DEF Writers
      <4>2. writerOf' = [writerOf EXCEPT ![t] = w]
        BY <3>2 DEF RefuseLine
      <4> HIDE DEF w
      <4> QED  BY <4>1, <4>2 DEF LogTypes
    <3>3. CASE SendErrs(t)
      BY <1>1, <3>3 DEF LogTypes, Writers, SendErrs
    <3>4. CASE CountDropped(t)
      <4>1. \/ writerOf' = [writerOf EXCEPT ![t] = [writerOf[t] EXCEPT !.phase = "idle"]]
            \/ writerOf' = [writerOf EXCEPT ![t] = [writerOf[t] EXCEPT !.curr = counter]]
        BY <3>4 DEF CountDropped
      <4>2. /\ [writerOf[t] EXCEPT !.phase = "idle"].records = writerOf[t].records
            /\ [writerOf[t] EXCEPT !.phase = "idle"].phase = "idle"
            /\ [writerOf[t] EXCEPT !.curr = counter].records = writerOf[t].records
            /\ [writerOf[t] EXCEPT !.curr = counter].phase = "counting"
        BY <1>1, <3>4 DEF Writers, CountDropped
      <4> QED  BY <4>1, <4>2 DEF LogTypes
    <3> QED  BY <1>4, <3>1, <3>2, <3>3, <3>4
  <2> QED  BY <1>1, <2>1 DEF Grows
<1>5. \/ \E t \in Thread : Render(t) \/ RenderFails(t)
      \/ \E t \in Thread : SendLine(t) \/ RefuseLine(t) \/ SendErrs(t) \/ CountDropped(t)
      \/ UNCHANGED writerOf
  BY DEF LogNext, logVars, ReceiveFirst, ReceiveMore, GroupTaken, Flush, FlushFails, WorkerEnds,
         DropGuard, SendStop, Meet, GuardTimesOut, OutputStays
<1> QED  BY <1>2, <1>3, <1>4, <1>5

LEMMA LinesOrderedStep ==
  ASSUME LogTypes, LinesOrdered, [LogNext]_logVars
  PROVE  LinesOrdered'
<1> DEFINE P == Range(printed)
           L == Range(lost)
           B == Range(worker.batch)
           C == Range(channel)
<1>1. /\ printed \in Seq(Slot) /\ lost \in Seq(Slot) /\ worker.batch \in Seq(Slot)
      /\ channel \in Seq(Slot) /\ worker.batch \in Seq(Line)
      /\ P \subseteq Line /\ L \subseteq Line /\ B \subseteq Line /\ C \subseteq Slot
      /\ Line \subseteq Slot /\ Stop \in Slot
  BY LogSequences
<1>2. /\ Behind(P, writerOf') /\ Behind(L, writerOf') /\ Behind(B, writerOf')
      /\ Behind(C, writerOf')
  BY <1>1, WritersGrow, BehindKept DEF LinesOrdered
<1>3. /\ InOrder(printed) /\ InOrder(lost) /\ InOrder(worker.batch) /\ InOrder(channel)
      /\ Precede(P, B) /\ Precede(P, C) /\ Precede(L, B) /\ Precede(L, C) /\ Precede(B, C)
      /\ Apart(P, L)
  BY DEF LinesOrdered
<1>4. CASE UNCHANGED <<printed, lost, worker.batch, channel>>
  BY <1>2, <1>3, <1>4 DEF LinesOrdered
<1>5. ASSUME NEW x \in Slot, channel' = Append(channel, x),
             UNCHANGED <<printed, lost, worker.batch>>,
             Precede(P \cup L \cup B \cup C, {x}), Behind({x}, writerOf')
      PROVE  LinesOrdered'
  <2>1. Range(channel') = C \cup {x}
    BY <1>1, <1>5, RangeAppend
  <2>2. InOrder(channel')
    <3>1. Precede(Range(channel), {x})
      BY <1>5 DEF Precede
    <3> QED  BY <1>1, <1>3, <1>5, <3>1, OrderAppend
  <2>3. Range(printed') = P /\ Range(lost') = L /\ Range((worker').batch) = B
    BY <1>5
  <2> HIDE DEF P, L, B, C
  <2>4. Precede(P, C \cup {x}) /\ Precede(L, C \cup {x}) /\ Precede(B, C \cup {x})
    BY <1>3, <1>5 DEF Precede
  <2>5. Behind(C \cup {x}, writerOf')
    BY <1>2, <1>5 DEF Behind
  <2>6. InOrder(printed') /\ InOrder(lost') /\ InOrder((worker').batch)
    BY <1>3, <1>5
  <2> QED  BY <1>2, <1>3, <2>1, <2>2, <2>3, <2>4, <2>5, <2>6 DEF LinesOrdered
<1>6. ASSUME NEW t \in Thread, SendLine(t)  PROVE LinesOrdered'
  <2> DEFINE b == writerOf[t].buf
  <2>1. writerOf[t] \in Writers /\ b \in Line /\ writerOf[t].phase = "sending"
    BY <1>6 DEF LogTypes, Writers, BufferSent, SendLine, Line, Stop
  <2>2. b[1][1] = t /\ Last(b) = <<t, writerOf[t].records>>
    <3>1. Len(b) > 0 /\ Len(b) \in Nat
      BY <2>1 DEF Line, Stop
    <3> QED  BY <2>1, <3>1 DEF LogTypes, BufferSent
  <2>3. /\ writerOf'[t].records = writerOf[t].records /\ writerOf'[t].phase = "idle"
        /\ writerOf[t].records \in Nat
    BY <1>6, <2>1, LogBounds DEF SendLine, LogTypes, Writers
  <2>4. Behind({b}, writerOf')
    BY <2>2, <2>3 DEF Behind, Below
  <2>5. Precede(P \cup L \cup B \cup C, {b})
    <3>1. ASSUME NEW l \in P \cup L \cup B \cup C, l # Stop, l[1][1] = t
          PROVE  Last(l)[2] < Last(b)[2]
      <4>1. Below(l, writerOf)
        BY <3>1 DEF LinesOrdered, Behind
      <4> QED  BY <2>1, <2>2, <3>1, <4>1 DEF Below
    <3> QED  BY <2>2, <3>1 DEF Precede, Before
  <2>6. channel' = Append(channel, b) /\ UNCHANGED <<printed, lost, worker.batch>>
    BY <1>6 DEF SendLine, OutputStays
  <2> HIDE DEF b, P, L, B, C
  <2> QED  BY <1>1, <1>5, <2>1, <2>4, <2>5, <2>6
<1>7. CASE SendStop
  <2>1. Precede(P \cup L \cup B \cup C, {Stop}) /\ Behind({Stop}, writerOf')
    BY DEF Precede, Before, Behind
  <2>2. channel' = Append(channel, Stop) /\ UNCHANGED <<printed, lost, worker.batch>>
    BY <1>7 DEF SendStop
  <2> HIDE DEF P, L, B, C
  <2> QED  BY <1>1, <1>5, <2>1, <2>2
<1>8. CASE ReceiveFirst \/ ReceiveMore
  <2> DEFINE h == Head(channel)
  <2>1. channel # <<>> /\ channel' = Tail(channel) /\ UNCHANGED <<printed, lost>>
    BY <1>8 DEF ReceiveFirst, ReceiveMore, OutputStays
  <2>2. h \in C /\ Range(channel') \subseteq C /\ h \in Slot
    BY <1>1, <2>1, RangeTail
  <2>3. InOrder(channel') /\ Precede({h}, Range(channel'))
    BY <1>1, <1>3, <2>1, OrderTail
  <2>4. \/ (worker').batch = worker.batch
        \/ (worker').batch = Append(worker.batch, h)
    <3>1. CASE ReceiveFirst
      <4>1. worker.batch = <<>> /\ worker \in Workers
        BY <3>1 DEF ReceiveFirst, LogTypes
      <4>2. (worker').batch = worker.batch \/ (worker').batch = <<h>>
        BY <3>1, <4>1 DEF ReceiveFirst, Workers
      <4> QED  BY <4>1, <4>2
    <3>2. CASE ReceiveMore
      BY <3>2 DEF ReceiveMore, LogTypes, Workers
    <3> QED  BY <1>8, <3>1, <3>2
  <2>5. InOrder((worker').batch) /\ Range((worker').batch) \subseteq B \cup {h}
    <3>1. Precede(Range(worker.batch), {h})
      BY <1>3, <2>2 DEF Precede
    <3>2. InOrder(Append(worker.batch, h)) /\ Range(Append(worker.batch, h)) = B \cup {h}
      <4> HIDE DEF h
      <4> QED  BY <1>1, <1>3, <2>2, <3>1, OrderAppend, RangeAppend
    <3> QED  BY <1>3, <2>4, <3>2
  <2> DEFINE X == Range((worker').batch)
             Y == Range(channel')
  <2>6. X \subseteq B \cup {h} /\ Y \subseteq C
    BY <2>2, <2>5
  <2>7. InOrder(printed') /\ InOrder(lost') /\ Range(printed') = P /\ Range(lost') = L
    BY <1>3, <2>1
  <2>8. Precede({h}, Y)
    BY <2>3
  <2> HIDE DEF P, L, B, C, h, X, Y
  <2>9. Precede(P, X) /\ Precede(P, Y) /\ Precede(L, X) /\ Precede(L, Y) /\ Precede(X, Y)
    BY <1>3, <2>2, <2>6, <2>8 DEF Precede
  <2>10. Behind(X, writerOf') /\ Behind(Y, writerOf')
    BY <1>2, <2>2, <2>6 DEF Behind
  <2> QED  BY <1>2, <1>3, <2>3, <2>5, <2>7, <2>9, <2>10 DEF LinesOrdered, X, Y
<1>9. ASSUME NEW f \in Seq(Slot), NEW g \in Seq(Slot), InOrder(f), InOrder(g),
             Range(f) \subseteq B, Range(g) \subseteq B, Precede(Range(f), Range(g)),
             printed' = printed \o f, lost' = lost \o g, (worker').batch = <<>>,
             channel' = channel
      PROVE  LinesOrdered'
  <2> DEFINE F == Range(f)
             G == Range(g)
  <2>1. Range(printed') = P \cup F /\ Range(lost') = L \cup G
    BY <1>1, <1>9, RangeConcat
  <2>2. Range((worker').batch) = {} /\ Range(channel') = C /\ InOrder((worker').batch)
    BY <1>9 DEF Range, InOrder
  <2>3. F \subseteq B /\ G \subseteq B /\ Precede(F, G)
    BY <1>9
  <2>4. Precede(P, F) /\ Precede(L, G)
    BY <1>3, <2>3 DEF Precede
  <2>5. InOrder(printed') /\ InOrder(lost')
    BY <1>1, <1>3, <1>9, <2>4, OrderConcat
  <2> HIDE DEF P, L, B, C, F, G
  <2>6. Precede(P \cup F, C) /\ Precede(L \cup G, C)
    BY <1>3, <2>3 DEF Precede
  <2>7. Apart(P \cup F, L \cup G)
    <3>1. ASSUME NEW l \in P \cup F, NEW m \in L \cup G, l[1][1] = m[1][1]
          PROVE  Last(l)[2] # Last(m)[2]
      <4>1. l \in Line /\ m \in Line
        BY <1>1, <2>3
      <4>2. l # Stop /\ m # Stop /\ Last(l)[2] \in Nat /\ Last(m)[2] \in Nat
        BY <4>1, LineParts
      <4>3. (l \in P /\ m \in L) \/ Before(l, m) \/ Before(m, l)
        BY <1>3, <2>3 DEF Precede
      <4> QED  BY <1>3, <3>1, <4>2, <4>3 DEF Apart, Before
    <3> QED  BY <3>1 DEF Apart
  <2>8. /\ Behind(P \cup F, writerOf') /\ Behind(L \cup G, writerOf')
        /\ Behind({}, writerOf') /\ Precede({}, C)
        /\ Precede(P \cup F, {}) /\ Precede(L \cup G, {})
    BY <1>2, <2>3 DEF Behind, Precede
  <2>9. InOrder(channel')
    BY <1>3, <1>9
  <2> QED  BY <1>2, <2>1, <2>2, <2>5, <2>6, <2>7, <2>8, <2>9 DEF LinesOrdered
<1>10. CASE Flush
  <2>1. /\ printed' = printed \o worker.batch /\ lost' = lost /\ (worker').batch = <<>>
        /\ channel' = channel
    BY <1>10 DEF Flush, AfterGroup
  <2>2. lost' = lost \o <<>> /\ <<>> \in Seq(Slot) /\ InOrder(<<>>) /\ Range(<<>>) = {}
    BY <1>1, <2>1 DEF InOrder, Range
  <2>3. Precede(B, Range(<<>>)) /\ Range(<<>>) \subseteq B /\ Range(worker.batch) \subseteq B
    BY <2>2 DEF Precede
  <2> QED  BY <1>1, <1>3, <1>9, <2>1, <2>2, <2>3
<1>11. ASSUME NEW n \in 0..Group, FlushFails(n)  PROVE LinesOrdered'
  <2> DEFINE f == SubSeq(worker.batch, 1, n)
             g == SubSeq(worker.batch, n + 1, Len(worker.batch))
  <2>1. n \in 0..Len(worker.batch) /\ Len(worker.batch) \in Nat
    BY <1>1, <1>11 DEF FlushFails
  <2>2. /\ f \in Seq(Slot) /\ Range(f) \subseteq B /\ g \in Seq(Slot) /\ Range(g) \subseteq B
    <3>1. 1 \in 1..(Len(worker.batch) + 1) /\ n + 1 \in 1..(Len(worker.batch) + 1)
          /\ Len(worker.batch) \in 0..Len(worker.batch)
      BY <2>1
    <3>2. f \in Seq(Slot) /\ Range(f) \subseteq B
      BY <1>1, <2>1, <3>1, RangeSub
    <3>3. g \in Seq(Slot) /\ Range(g) \subseteq B
      BY <1>1, <3>1, RangeSub
    <3> QED  BY <3>2, <3>3
  <2>3. InOrder(f) /\ InOrder(g) /\ Precede(Range(f), Range(g))
    BY <1>1, <1>3, <2>1, OrderCut
  <2>4. printed' = printed \o f /\ lost' = lost \o g /\ (worker').batch = <<>> /\ channel' = channel
    BY <1>11 DEF FlushFails
  <2> HIDE DEF f, g
  <2> QED  BY <1>9, <2>2, <2>3, <2>4
<1>12. \/ UNCHANGED <<printed, lost, worker.batch, channel>>
       \/ \E t \in Thread : SendLine(t)
       \/ SendStop \/ ReceiveFirst \/ ReceiveMore \/ Flush
       \/ \E n \in 0..Group : FlushFails(n)
  <2>1. CASE \E t \in Thread : \/ Render(t) \/ RenderFails(t) \/ RefuseLine(t)
                               \/ SendErrs(t) \/ CountDropped(t)
    BY <2>1 DEF Render, RenderFails, RefuseLine, SendErrs, CountDropped, OutputStays
  <2>2. CASE GroupTaken \/ WorkerEnds \/ Meet
    BY <2>2 DEF GroupTaken, WorkerEnds, Meet, OutputStays, LogTypes, Workers
  <2>3. CASE DropGuard \/ GuardTimesOut \/ UNCHANGED logVars
    BY <2>3 DEF DropGuard, GuardTimesOut, logVars
  <2> QED  BY <2>1, <2>2, <2>3 DEF LogNext
<1> QED  BY <1>4, <1>6, <1>7, <1>8, <1>10, <1>11, <1>12

-----------------------------------------------------------------------------
(* What is refused is counted, by each thread for itself: who has not yet  *)
(* counted is in `counting`, with a count that is not ahead.               *)
Counting == {t \in Thread : writerOf[t].phase = "counting"}
Capped(n) == IF n <= CounterMax THEN n ELSE CounterMax

RefusalsCounted ==
  /\ IsFiniteSet(Counting) /\ Cardinality(Counting) <= Len(refused)
  /\ counter = Capped(Len(refused) - Cardinality(Counting))
  /\ \A t \in Counting : writerOf[t].curr <= counter
  /\ ~lossy => refused = <<>>

LEMMA CountingStays ==
  ASSUME LogTypes, RefusalsCounted, UNCHANGED <<refused, counter, lossy>>,
         \A u \in Thread : \/ writerOf'[u] = writerOf[u]
                           \/ /\ writerOf[u].phase # "counting"
                              /\ writerOf'[u].phase # "counting"
  PROVE  RefusalsCounted'
<1>1. Counting' = Counting
  BY DEF Counting
<1>2. \A t \in Counting : writerOf'[t] = writerOf[t]
  BY DEF Counting
<1> HIDE DEF Counting
<1> QED  BY <1>1, <1>2 DEF RefusalsCounted, Capped

LEMMA RefusalsCountedStep ==
  ASSUME LogTypes, RefusalsCounted, [LogNext]_logVars
  PROVE  RefusalsCounted'
<1> USE LogBounds
<1>1. /\ Len(refused) \in Nat /\ IsFiniteSet(Counting) /\ Cardinality(Counting) \in Nat
      /\ counter \in 0..CounterMax /\ refused \in Seq(Line)
      /\ Cardinality(Counting) <= Len(refused)
      /\ counter = Capped(Len(refused) - Cardinality(Counting))
      /\ \A u \in Thread : writerOf[u] \in Writers
      /\ writerOf \in [Thread -> Writers]
  BY FS_CardinalityType DEF LogTypes, RefusalsCounted
<1>2. ASSUME NEW t \in Thread,
             Render(t) \/ RenderFails(t) \/ SendLine(t) \/ SendErrs(t)
      PROVE  RefusalsCounted'
  <2>1. UNCHANGED <<refused, counter, lossy>>
    BY <1>2 DEF Render, RenderFails, SendLine, SendErrs, OutputStays
  <2>2. writerOf[t].phase # "counting" /\ writerOf'[t].phase # "counting"
    BY <1>1, <1>2 DEF Render, RenderFails, SendLine, SendErrs, Writers
  <2>3. \A u \in Thread : u # t => writerOf'[u] = writerOf[u]
    BY <1>1, <1>2 DEF Render, RenderFails, SendLine, SendErrs
  <2> QED  BY <2>1, <2>2, <2>3, CountingStays
<1>3. ASSUME NEW t \in Thread, RefuseLine(t)  PROVE RefusalsCounted'
  <2>1. /\ writerOf[t].phase = "sending" /\ writerOf'[t].phase = "counting"
        /\ writerOf'[t].curr = counter /\ counter' = counter /\ lossy /\ lossy' = lossy
        /\ \A u \in Thread : u # t => writerOf'[u] = writerOf[u]
    BY <1>1, <1>3 DEF RefuseLine, OutputStays, Writers
  <2>2. Counting' = Counting \cup {t} /\ t \notin Counting
    BY <2>1 DEF Counting
  <2>3. IsFiniteSet(Counting') /\ Cardinality(Counting') = Cardinality(Counting) + 1
    BY <1>1, <2>2, FS_AddElement
  <2>4. Len(refused') = Len(refused) + 1
    <3>1. refused' = Append(refused, writerOf[t].buf)
      BY <1>3 DEF RefuseLine
    <3> QED  BY <1>1, <3>1
  <2>5. \A u \in Counting' : writerOf'[u].curr <= counter'
    <3>1. \A u \in Counting : u # t /\ writerOf'[u] = writerOf[u] /\ writerOf[u].curr <= counter
      BY <2>1, <2>2 DEF RefusalsCounted, Counting
    <3> QED  BY <1>1, <2>1, <2>2, <3>1
  <2>6. Len(refused') - Cardinality(Counting') = Len(refused) - Cardinality(Counting)
    BY <1>1, <2>3, <2>4
  <2> QED  BY <1>1, <2>1, <2>3, <2>4, <2>5, <2>6 DEF RefusalsCounted
<1>4. ASSUME NEW t \in Thread, CountDropped(t)  PROVE RefusalsCounted'
  <2> DEFINE c == writerOf[t].curr
  <2>1. t \in Counting /\ c \in 0..CounterMax /\ c <= counter
    BY <1>1, <1>4 DEF CountDropped, Counting, RefusalsCounted, Writers
  <2>2. /\ UNCHANGED <<refused, lossy>>
        /\ \A u \in Thread : u # t => writerOf'[u] = writerOf[u]
    BY <1>1, <1>4 DEF CountDropped, OutputStays
  <2>3. CASE c \in {counter, CounterMax}
    <3>1. c = counter
      BY <1>1, <2>1, <2>3
    <3>2. /\ counter' = Max({counter, Incremented(counter)})
          /\ writerOf'[t].phase = "idle"
      BY <1>1, <1>4, <2>3, <3>1 DEF CountDropped, Writers
    <3>3. Incremented(counter) \in Nat /\ Incremented(counter) >= counter
      BY <1>1 DEF Incremented
    <3>4. counter' = Incremented(counter)
      <4>1. Max({counter, Incremented(counter)}) = IF counter >= Incremented(counter)
                                                   THEN counter ELSE Incremented(counter)
        BY <1>1, <3>3, Largest2
      <4> QED  BY <1>1, <3>2, <3>3, <4>1
    <3>5. Counting' = Counting \ {t}
      BY <2>2, <3>2 DEF Counting
    <3>6. /\ IsFiniteSet(Counting') /\ Cardinality(Counting') = Cardinality(Counting) - 1
          /\ Cardinality(Counting') \in Nat
      BY <1>1, <2>1, <3>5, FS_RemoveElement, FS_CardinalityType
    <3>7. \A u \in Counting' : writerOf'[u].curr <= counter'
      <4>1. ASSUME NEW u \in Counting'  PROVE writerOf'[u].curr <= counter'
        <5>1. /\ u \in Counting /\ u \in Thread /\ u # t /\ writerOf'[u] = writerOf[u]
              /\ writerOf[u].curr <= counter /\ writerOf[u].curr \in Nat
          BY <1>1, <2>2, <3>5, <4>1 DEF Counting, RefusalsCounted, Writers
        <5> QED  BY <1>1, <3>3, <3>4, <5>1
      <4> QED  BY <4>1
    <3>8. counter' = Capped(Len(refused') - Cardinality(Counting'))
      <4>1. Len(refused') = Len(refused)
        BY <2>2
      <4> HIDE DEF Counting, c
      <4> QED  BY <1>1, <3>4, <3>6, <4>1 DEF Capped, Incremented
    <3> QED  BY <1>1, <2>2, <3>6, <3>7, <3>8 DEF RefusalsCounted
  <2>4. CASE c \notin {counter, CounterMax}
    <3>1. /\ counter' = counter /\ writerOf'[t].phase = "counting"
          /\ writerOf'[t].curr = counter
      BY <1>1, <1>4, <2>4 DEF CountDropped, Writers
    <3>2. Counting' = Counting
      BY <2>1, <2>2, <3>1 DEF Counting
    <3>3. \A u \in Counting' : writerOf'[u].curr <= counter'
      BY <1>1, <2>2, <3>1, <3>2 DEF RefusalsCounted, Counting
    <3> QED  BY <1>1, <2>2, <3>1, <3>2, <3>3 DEF RefusalsCounted
  <2> QED  BY <2>3, <2>4
<1>5. CASE UNCHANGED <<refused, counter, lossy, writerOf>>
  BY <1>5, CountingStays
<1>6. \/ \E t \in Thread : Render(t) \/ RenderFails(t) \/ SendLine(t) \/ SendErrs(t)
      \/ \E t \in Thread : RefuseLine(t) \/ CountDropped(t)
      \/ UNCHANGED <<refused, counter, lossy, writerOf>>
  BY DEF LogNext, logVars, ReceiveFirst, ReceiveMore, GroupTaken, Flush, FlushFails, WorkerEnds,
         DropGuard, SendStop, Meet, GuardTimesOut, OutputStays
<1> QED  BY <1>2, <1>3, <1>4, <1>5, <1>6

-----------------------------------------------------------------------------
(* The order to stop is sent once, is behind all that the guard had to     *)
(* wait for, and the worker ends only after it.                            *)
Stopping ==
  /\ \A i, j \in 1..Len(channel) : channel[i] = Stop /\ channel[j] = Stop => i = j
  /\ guard \in {"held", "stopping"} =>
       Stop \notin Range(channel) /\ ~worker.stop /\ worker.phase \notin {"closing", "ended"}
  /\ worker.stop \/ worker.phase \in {"closing", "ended"} => Stop \notin Range(channel)
  /\ guard = "flushed" => worker.phase = "ended"

LEMMA StoppingStep ==
  ASSUME LogTypes, Stopping, [LogNext]_logVars
  PROVE  Stopping'
<1>1. channel \in Seq(Slot) /\ Stop \in Slot /\ worker \in Workers /\ Len(channel) \in Nat
  BY DEF LogTypes, Slot
<1>2. ASSUME NEW t \in Thread, SendLine(t)  PROVE Stopping'
  <2> DEFINE b == writerOf[t].buf
  <2>1. b \in Slot /\ b # Stop
    BY <1>2 DEF LogTypes, Writers, BufferSent, SendLine, Line, Stop, Slot
  <2>2. channel' = Append(channel, b) /\ worker' = worker /\ guard' = guard
    BY <1>2 DEF SendLine, OutputStays
  <2> HIDE DEF b
  <2>3. Range(channel') = Range(channel) \cup {b}
    BY <1>1, <2>1, <2>2, RangeAppend
  <2>4. \A i \in 1..Len(channel') :
          channel'[i] = Stop => i \in 1..Len(channel) /\ channel[i] = Stop
    BY <1>1, <2>1, <2>2
  <2>5. \A i, j \in 1..Len(channel') : channel'[i] = Stop /\ channel'[j] = Stop => i = j
    BY <2>4 DEF Stopping
  <2>6. Stop \in Range(channel') => Stop \in Range(channel)
    BY <2>1, <2>3
  <2> QED  BY <2>2, <2>5, <2>6 DEF Stopping
<1>3. CASE SendStop
  <2>1. Stop \notin Range(channel) /\ ~worker.stop /\ worker.phase \notin {"closing", "ended"}
    BY <1>3 DEF SendStop, Stopping
  <2>2. channel' = Append(channel, Stop) /\ worker' = worker /\ guard' = "waiting"
    BY <1>3 DEF SendStop
  <2>3. \A i \in 1..Len(channel) : channel[i] # Stop
    BY <1>1, <2>1, RangeOf
  <2>4. \A i \in 1..Len(channel') : channel'[i] = Stop => i = Len(channel) + 1
    BY <1>1, <2>2, <2>3
  <2> QED  BY <2>1, <2>2, <2>4 DEF Stopping
<1>4. CASE ReceiveFirst \/ ReceiveMore
  <2>1. channel # <<>> /\ channel' = Tail(channel) /\ guard' = guard
    BY <1>4 DEF ReceiveFirst, ReceiveMore, OutputStays
  <2>2. Range(channel') \subseteq Range(channel) /\ Head(channel) \in Range(channel)
    BY <1>1, <2>1, RangeTail
  <2>3. /\ Len(channel') = Len(channel) - 1 /\ Head(channel) = channel[1] /\ Len(channel) > 0
        /\ \A i \in 1..Len(channel') : channel'[i] = channel[i + 1] /\ i + 1 \in 1..Len(channel)
    BY <1>1, <2>1
  <2>4. \A i, j \in 1..Len(channel') : channel'[i] = Stop /\ channel'[j] = Stop => i = j
    <3>1. ASSUME NEW i \in 1..Len(channel'), NEW j \in 1..Len(channel'),
                 channel'[i] = Stop, channel'[j] = Stop
          PROVE  i = j
      <4>1. i + 1 = j + 1
        BY <2>3, <3>1 DEF Stopping
      <4> QED  BY <4>1
    <3> QED  BY <3>1
  <2>5. CASE Head(channel) = Stop
    <3>1. Stop \notin Range(channel')
      <4>1. ASSUME NEW i \in 1..Len(channel')  PROVE channel'[i] # Stop
        <5>1. 1 \in 1..Len(channel) /\ i + 1 # 1
          BY <1>1, <2>3
        <5> QED  BY <2>3, <2>5, <5>1 DEF Stopping
      <4>2. channel' \in Seq(Slot)
        BY <1>1, <2>1
      <4> QED  BY <4>1, <4>2, RangeOf
    <3>2. guard \notin {"held", "stopping"}
      BY <2>2, <2>5 DEF Stopping
    <3>3. guard = "flushed" => (worker').phase = "ended"
      BY <1>4 DEF Stopping, ReceiveFirst, ReceiveMore
    <3> QED  BY <2>1, <2>4, <3>1, <3>2, <3>3 DEF Stopping
  <2>6. CASE Head(channel) # Stop
    <3>1. /\ (worker').stop = worker.stop /\ (worker').phase = "batch"
          /\ worker.phase \in {"idle", "batch"}
      BY <1>1, <1>4, <2>6 DEF ReceiveFirst, ReceiveMore, Workers
    <3>2. (worker').stop => Stop \notin Range(channel')
      BY <2>2, <3>1 DEF Stopping
    <3>3. guard' \in {"held", "stopping"} => Stop \notin Range(channel') /\ ~(worker').stop
      BY <2>1, <2>2, <3>1 DEF Stopping
    <3>4. guard' # "flushed"
      BY <2>1, <3>1 DEF Stopping
    <3> QED  BY <2>4, <3>1, <3>2, <3>3, <3>4 DEF Stopping
  <2> QED  BY <2>5, <2>6
<1>5. CASE GroupTaken
  BY <1>1, <1>5 DEF GroupTaken, OutputStays, Stopping, Workers
<1>6. CASE Flush
  BY <1>1, <1>6 DEF Flush, AfterGroup, Stopping, Workers
<1>7. ASSUME NEW n \in 0..Group, FlushFails(n)  PROVE Stopping'
  BY <1>1, <1>7 DEF FlushFails, Stopping, Workers
<1>8. CASE WorkerEnds
  BY <1>1, <1>8 DEF WorkerEnds, OutputStays, Stopping, Workers
<1>9. CASE Meet
  BY <1>1, <1>9 DEF Meet, Stopping, Workers
<1>10. CASE DropGuard \/ GuardTimesOut
  BY <1>10 DEF DropGuard, GuardTimesOut, Stopping
<1>11. CASE UNCHANGED <<channel, worker, guard>>
  BY <1>11 DEF Stopping
<1>12. \/ \E t \in Thread : SendLine(t)
       \/ UNCHANGED <<channel, worker, guard>>
       \/ SendStop \/ ReceiveFirst \/ ReceiveMore \/ GroupTaken \/ Flush
       \/ \E n \in 0..Group : FlushFails(n)
       \/ WorkerEnds \/ Meet \/ DropGuard \/ GuardTimesOut
  BY DEF LogNext, logVars, Render, RenderFails, RefuseLine, SendErrs, CountDropped, OutputStays
<1> QED  BY <1>2, <1>3, <1>4, <1>5, <1>6, <1>7, <1>8, <1>9, <1>10, <1>11, <1>12

-----------------------------------------------------------------------------
(* Where the records are changes only when their line moves on.            *)
LEMMA AccountedMoves ==
  ASSUME Accounted, UNCHANGED writerOf,
         \A l \in KeptLines : l # Stop => l \in KeptLines'
  PROVE  Accounted'
<1> SUFFICES ASSUME NEW t \in Thread, NEW n \in 1..writerOf'[t].records,
                    <<t, n>> \notin Range(writerOf'[t].buf)
             PROVE  \E l \in KeptLines' : <<t, n>> \in Range(l)
  BY DEF Accounted
<1>1. PICK l \in KeptLines : <<t, n>> \in Range(l)
  BY DEF Accounted
<1>2. l # Stop
  BY <1>1 DEF Stop, Range
<1> QED  BY <1>1, <1>2

(* A thread whose record, or whose buffer, went into a line.               *)
LEMMA AccountedSends ==
  ASSUME LogTypes, Accounted, NEW t \in Thread, NEW w \in Writers,
         writerOf' = [writerOf EXCEPT ![t] = w], w.records = writerOf[t].records,
         \/ w.buf = writerOf[t].buf
         \/ writerOf[t].buf \in KeptLines',
         KeptLines \subseteq KeptLines'
  PROVE  Accounted'
<1> SUFFICES ASSUME NEW u \in Thread, NEW n \in 1..writerOf'[u].records,
                    <<u, n>> \notin Range(writerOf'[u].buf)
             PROVE  \E l \in KeptLines' : <<u, n>> \in Range(l)
  BY DEF Accounted
<1>1. writerOf'[u] = (IF u = t THEN w ELSE writerOf[u])
  BY DEF LogTypes
<1>2. writerOf'[u].records = writerOf[u].records
  BY <1>1
<1>3. <<u, n>> \in Range(writerOf[u].buf) \/ \E l \in KeptLines : <<u, n>> \in Range(l)
  BY <1>2 DEF Accounted
<1>4. <<u, n>> \in Range(writerOf[u].buf) => writerOf[u].buf \in KeptLines'
  BY <1>1
<1> QED  BY <1>3, <1>4

LEMMA AccountedStep ==
  ASSUME LogTypes, Accounted, [LogNext]_logVars
  PROVE  Accounted'
<1>1. /\ printed \in Seq(Slot) /\ lost \in Seq(Slot) /\ worker.batch \in Seq(Slot)
      /\ channel \in Seq(Slot) /\ refused \in Seq(Slot) /\ Stop \in Slot
      /\ worker \in Workers
  <2>1. refused \in Seq(Line) /\ Line \subseteq Slot /\ worker \in Workers
    BY DEF LogTypes, Slot
  <2>2. \A s \in Seq(Line) : s \in Seq(Slot)
    BY <2>1
  <2> QED  BY <2>1, <2>2, LogSequences
<1>2. ASSUME NEW t \in Thread, Render(t) \/ RenderFails(t)  PROVE Accounted'
  <2>1. PICK w \in Writers :
          writerOf' = [writerOf EXCEPT ![t] = w] /\ w.records = writerOf[t].records + 1
    BY <1>2, Rendered
  <2>2. writerOf'[t] = w /\ \A u \in Thread : u # t => writerOf'[u] = writerOf[u]
    BY <2>1 DEF LogTypes
  <2>3. writerOf[t].buf \in Seq(Record) /\ writerOf[t].records \in 0..MaxRecords
    BY DEF LogTypes, Writers
  <2>4. <<t, writerOf[t].records + 1>> \in Record
    BY <1>2, <2>3, LogBounds DEF Render, RenderFails, Record
  <2>5. writerOf'[t].buf = Append(writerOf[t].buf, <<t, writerOf[t].records + 1>>)
    BY <1>2 DEF Render, RenderFails, LogTypes, Writers
  <2>6. Range(writerOf'[t].buf) = Range(writerOf[t].buf) \cup {<<t, writerOf[t].records + 1>>}
    BY <2>3, <2>4, <2>5, RangeAppend
  <2>7. KeptLines' = KeptLines
    BY <1>2 DEF Render, RenderFails, OutputStays, KeptLines
  <2>8. ASSUME NEW u \in Thread, NEW n \in 1..writerOf'[u].records,
               <<u, n>> \notin Range(writerOf'[u].buf)
        PROVE  \E l \in KeptLines : <<u, n>> \in Range(l)
    <3>1. CASE u = t
      <4>1. n # writerOf[t].records + 1 /\ <<t, n>> \notin Range(writerOf[t].buf)
        BY <2>6, <2>8, <3>1
      <4>2. n \in 1..writerOf[t].records
        BY <2>1, <2>2, <2>3, <2>8, <3>1, <4>1, LogBounds
      <4> QED  BY <3>1, <4>1, <4>2 DEF Accounted
    <3>2. CASE u # t
      BY <2>2, <2>8, <3>2 DEF Accounted
    <3> QED  BY <3>1, <3>2
  <2> QED  BY <2>7, <2>8 DEF Accounted
<1>3. ASSUME NEW t \in Thread, SendLine(t)  PROVE Accounted'
  <2> DEFINE w == [writerOf[t] EXCEPT !.phase = "idle", !.buf = <<>>]
  <2>1. /\ writerOf' = [writerOf EXCEPT ![t] = w] /\ channel' = Append(channel, writerOf[t].buf)
        /\ UNCHANGED <<printed, lost, worker, refused>>
    BY <1>3 DEF SendLine, OutputStays
  <2>2. writerOf[t].buf \in Slot
    BY <1>3 DEF LogTypes, Writers, BufferSent, SendLine, Line, Stop, Slot
  <2>3. w \in Writers /\ w.records = writerOf[t].records
    <3>1. writerOf[t] \in Writers /\ <<>> \in Seq(Record) /\ counter \in 0..CounterMax
      BY DEF LogTypes
    <3> QED  BY <3>1 DEF Writers
  <2>4. Range(channel') = Range(channel) \cup {writerOf[t].buf}
    BY <1>1, <2>1, <2>2, RangeAppend
  <2>5. writerOf[t].buf \in KeptLines' /\ KeptLines \subseteq KeptLines'
    BY <2>1, <2>4 DEF KeptLines
  <2> HIDE DEF w
  <2> QED  BY <2>1, <2>3, <2>5, AccountedSends
<1>4. ASSUME NEW t \in Thread, RefuseLine(t)  PROVE Accounted'
  <2> DEFINE w == [writerOf[t] EXCEPT !.phase = "counting", !.buf = <<>>, !.curr = counter]
  <2>1. /\ writerOf' = [writerOf EXCEPT ![t] = w] /\ refused' = Append(refused, writerOf[t].buf)
        /\ UNCHANGED <<printed, lost, worker, channel>>
    BY <1>4 DEF RefuseLine, OutputStays
  <2>2. writerOf[t].buf \in Slot
    BY <1>4 DEF LogTypes, Writers, BufferSent, RefuseLine, Line, Stop, Slot
  <2>3. w \in Writers /\ w.records = writerOf[t].records
    <3>1. writerOf[t] \in Writers /\ <<>> \in Seq(Record) /\ counter \in 0..CounterMax
      BY DEF LogTypes
    <3> QED  BY <3>1 DEF Writers
  <2>4. Range(refused') = Range(refused) \cup {writerOf[t].buf}
    BY <1>1, <2>1, <2>2, RangeAppend
  <2>5. writerOf[t].buf \in KeptLines' /\ KeptLines \subseteq KeptLines'
    BY <2>1, <2>4 DEF KeptLines
  <2> HIDE DEF w
  <2> QED  BY <2>1, <2>3, <2>5, AccountedSends
<1>5. ASSUME NEW t \in Thread, SendErrs(t) \/ CountDropped(t)  PROVE Accounted'
  <2>1. PICK w \in Writers :
          /\ writerOf' = [writerOf EXCEPT ![t] = w]
          /\ w.records = writerOf[t].records /\ w.buf = writerOf[t].buf
    <3> DEFINE a == [writerOf[t] EXCEPT !.phase = "idle"]
               b == [writerOf[t] EXCEPT !.curr = counter]
    <3>1. /\ a \in Writers /\ a.records = writerOf[t].records /\ a.buf = writerOf[t].buf
          /\ b \in Writers /\ b.records = writerOf[t].records /\ b.buf = writerOf[t].buf
      BY DEF LogTypes, Writers
    <3>2. writerOf' = [writerOf EXCEPT ![t] = a] \/ writerOf' = [writerOf EXCEPT ![t] = b]
      BY <1>5 DEF SendErrs, CountDropped
    <3> HIDE DEF a, b
    <3> QED  BY <3>1, <3>2
  <2>2. KeptLines' = KeptLines
    BY <1>5 DEF SendErrs, CountDropped, OutputStays, KeptLines
  <2> QED  BY <2>1, <2>2, AccountedSends
<1>6. CASE ReceiveFirst \/ ReceiveMore
  <2>1. /\ channel # <<>> /\ channel' = Tail(channel)
        /\ UNCHANGED <<writerOf, printed, lost, refused>>
    BY <1>6 DEF ReceiveFirst, ReceiveMore, OutputStays
  <2>2. Head(channel) \in Slot
    BY <1>1, <2>1, RangeTail
  <2>3. \A l \in Range(channel) : l = Head(channel) \/ l \in Range(channel')
    <3> SUFFICES ASSUME NEW l \in Range(channel) PROVE l = Head(channel) \/ l \in Range(channel')
      OBVIOUS
    <3>1. PICK i \in 1..Len(channel) : l = channel[i]
      BY <1>1, RangeOf
    <3>2. /\ channel' \in Seq(Slot) /\ Head(channel) = channel[1] /\ Len(channel) \in Nat
          /\ Len(channel') = Len(channel) - 1
          /\ \A j \in 1..Len(channel') : channel'[j] = channel[j + 1]
      BY <1>1, <2>1
    <3>3. CASE i = 1
      BY <3>1, <3>2, <3>3
    <3>4. CASE i # 1
      <4>1. i - 1 \in 1..Len(channel') /\ channel'[i - 1] = l
        BY <3>1, <3>2, <3>4
      <4> QED  BY <3>2, <4>1, RangeOf
    <3> QED  BY <3>3, <3>4
  <2>4. worker.batch = <<>> \/ ReceiveMore
    BY <1>6 DEF LogTypes, ReceiveFirst
  <2>5. /\ Range(worker.batch) \subseteq Range((worker').batch)
        /\ Head(channel) = Stop \/ Head(channel) \in Range((worker').batch)
    <3>1. CASE ReceiveFirst
      <4>1. worker.batch = <<>> /\ Range(<<>>) = {}
        BY <3>1 DEF LogTypes, ReceiveFirst, Range
      <4>2. Head(channel) # Stop => (worker').batch = <<Head(channel)>>
        BY <1>1, <3>1 DEF ReceiveFirst, Workers
      <4>3. Head(channel) \in Range(<<Head(channel)>>)
        BY DEF Range
      <4> QED  BY <4>1, <4>2, <4>3
    <3>2. CASE ReceiveMore
      <4>1. CASE Head(channel) = Stop
        <5>1. (worker').batch = worker.batch
          BY <1>1, <3>2, <4>1 DEF ReceiveMore, Workers
        <5> QED  BY <4>1, <5>1
      <4>2. CASE Head(channel) # Stop
        <5>1. (worker').batch = Append(worker.batch, Head(channel))
          BY <1>1, <3>2, <4>2 DEF ReceiveMore, Workers
        <5>2. Range((worker').batch) = Range(worker.batch) \cup {Head(channel)}
          BY <1>1, <2>2, <5>1, RangeAppend
        <5> QED  BY <5>2
      <4> QED  BY <4>1, <4>2
    <3> QED  BY <1>6, <3>1, <3>2
  <2>6. \A l \in KeptLines : l # Stop => l \in KeptLines'
    BY <2>1, <2>3, <2>5 DEF KeptLines
  <2> QED  BY <2>1, <2>6, AccountedMoves
<1>7. CASE Flush
  <2>1. /\ printed' = printed \o worker.batch
        /\ UNCHANGED <<writerOf, channel, lost, refused>>
    BY <1>7 DEF Flush
  <2>2. Range(printed') = Range(printed) \cup Range(worker.batch)
    BY <1>1, <2>1, RangeConcat
  <2>3. \A l \in KeptLines : l \in KeptLines'
    BY <2>1, <2>2 DEF KeptLines
  <2> QED  BY <2>1, <2>3, AccountedMoves
<1>8. ASSUME NEW n \in 0..Group, FlushFails(n)  PROVE Accounted'
  <2> DEFINE a == SubSeq(worker.batch, 1, n)
             b == SubSeq(worker.batch, n + 1, Len(worker.batch))
  <2>1. /\ printed' = printed \o a /\ lost' = lost \o b
        /\ n \in 0..(Len(worker.batch) - 1)
        /\ UNCHANGED <<writerOf, channel, refused>>
    BY <1>8 DEF FlushFails
  <2>2. /\ Len(worker.batch) \in Nat /\ n \in Nat /\ n <= Len(worker.batch)
        /\ a \in Seq(Slot) /\ Len(a) = n /\ \A i \in 1..n : a[i] = worker.batch[i]
    BY <1>1, <2>1
  <2>3. /\ b \in Seq(Slot) /\ Len(b) = Len(worker.batch) - n
        /\ \A i \in 1..(Len(worker.batch) - n) : b[i] = worker.batch[n + i]
    BY <1>1, <2>1, <2>2
  <2> HIDE DEF a, b
  <2>4. Range(printed') = Range(printed) \cup Range(a) /\ Range(lost') = Range(lost) \cup Range(b)
    BY <1>1, <2>1, <2>2, <2>3, RangeConcat
  <2>5. \A l \in Range(worker.batch) : l \in Range(a) \/ l \in Range(b)
    <3> SUFFICES ASSUME NEW l \in Range(worker.batch) PROVE l \in Range(a) \/ l \in Range(b)
      OBVIOUS
    <3>1. PICK i \in 1..Len(worker.batch) : l = worker.batch[i]
      BY <1>1, RangeOf
    <3>2. CASE i <= n
      <4>1. i \in 1..Len(a) /\ l = a[i]
        BY <2>2, <3>1, <3>2
      <4> QED  BY <2>2, <4>1, RangeOf
    <3>3. CASE ~(i <= n)
      <4>1. i - n \in 1..Len(b) /\ l = b[i - n]
        BY <2>2, <2>3, <3>1, <3>3
      <4> QED  BY <2>3, <4>1, RangeOf
    <3> QED  BY <3>2, <3>3
  <2>6. \A l \in KeptLines : l \in KeptLines'
    BY <2>1, <2>4, <2>5 DEF KeptLines
  <2> QED  BY <2>1, <2>6, AccountedMoves
<1>9. CASE SendStop
  <2>1. Range(channel') = Range(channel) \cup {Stop}
    BY <1>1, <1>9, RangeAppend DEF SendStop
  <2>2. \A l \in KeptLines : l \in KeptLines'
    BY <1>9, <2>1 DEF SendStop, KeptLines
  <2> QED  BY <1>9, <2>2, AccountedMoves DEF SendStop
<1>10. CASE GroupTaken \/ WorkerEnds \/ Meet
  <2>1. /\ (worker').batch = worker.batch
        /\ UNCHANGED <<writerOf, printed, channel, lost, refused>>
    BY <1>1, <1>10 DEF GroupTaken, WorkerEnds, Meet, OutputStays, Workers
  <2>2. \A l \in KeptLines : l \in KeptLines'
    BY <2>1 DEF KeptLines
  <2> QED  BY <2>1, <2>2, AccountedMoves
<1>11. CASE UNCHANGED <<writerOf, printed, worker, channel, lost, refused>>
  BY <1>11 DEF Accounted, KeptLines
<1> QED
  BY <1>2, <1>3, <1>4, <1>5, <1>6, <1>7, <1>8, <1>9, <1>10, <1>11
     DEF LogNext, logVars, DropGuard, GuardTimesOut

LogInvariant == LogTypes /\ LinesOrdered /\ Accounted /\ RefusalsCounted /\ Stopping

LEMMA LogInvariantInit == LogInit => LogInvariant
<1> SUFFICES ASSUME LogInit  PROVE LogInvariant
  OBVIOUS
<1>1. LogTypes
  BY LogTypesInit
<1>2. /\ printed = <<>> /\ lost = <<>> /\ worker.batch = <<>> /\ channel = <<>>
      /\ refused = <<>> /\ counter = 0 /\ guard = "held" /\ ~worker.stop
      /\ worker.phase = "idle"
  BY DEF LogInit
<1>3. Range(<<>>) = {} /\ Len(<<>>) = 0
  BY DEF Range
<1>4. LinesOrdered
  BY <1>2, <1>3 DEF LinesOrdered, InOrder, Precede, Apart, Behind
<1>5. RefusalsCounted
  <2>1. Counting = {}
    BY DEF LogInit, Counting
  <2> QED  BY <1>2, <1>3, <2>1, FS_EmptySet, LogBounds DEF RefusalsCounted, Capped
<1>6. Stopping
  BY <1>2, <1>3 DEF Stopping
<1>7. Accounted
  BY DEF LogInit, Accounted
<1> QED  BY <1>1, <1>4, <1>5, <1>6, <1>7 DEF LogInvariant

LEMMA LogInvariantStep == LogInvariant /\ [LogNext]_logVars => LogInvariant'
BY LogTypesStep, LinesOrderedStep, AccountedStep, RefusalsCountedStep, StoppingStep DEF LogInvariant

(* What is written, refused and left behind when the guard is gone, for    *)
(* any number of threads, records, and bounds of the channel.              *)
LEMMA LogInvariantLines == LogInvariant => LinesKept
<1> SUFFICES ASSUME LogInvariant  PROVE LinesKept
  OBVIOUS
<1> USE LogBounds
<1>1. LogTypes /\ LinesOrdered /\ Accounted /\ RefusalsCounted /\ Stopping
  BY DEF LogInvariant
<1>2. LogTypeOK
  BY <1>1 DEF LogTypes, LogTypeOK, Writers, Workers
<1>3. InOrderOfThread
  <2> DEFINE P == Range(printed)
             L == Range(lost)
             B == Range(worker.batch)
             C == Range(channel)
             q == printed \o worker.batch
             s == q \o channel
  <2>1. /\ printed \in Seq(Slot) /\ worker.batch \in Seq(Slot) /\ channel \in Seq(Slot)
        /\ P \subseteq Line /\ L \subseteq Line
    BY <1>1, LogSequences
  <2>2. q \in Seq(Slot) /\ Range(q) = P \cup B
    BY <2>1, RangeConcat
  <2>3. InOrder(q)
    BY <1>1, <2>1, OrderConcat DEF LinesOrdered
  <2>4. Precede(Range(q), C)
    BY <1>1, <2>2 DEF LinesOrdered, Precede
  <2> HIDE DEF q
  <2>5. s \in Seq(Slot) /\ Range(s) = P \cup B \cup C
    BY <2>1, <2>2, RangeConcat
  <2>6. InOrder(s)
    BY <1>1, <2>1, <2>2, <2>3, <2>4, OrderConcat DEF LinesOrdered
  <2>7. ASSUME NEW l \in P \cup B \cup C, l # Stop, NEW m \in L, l[1][1] = m[1][1]
        PROVE  Last(l)[2] # Last(m)[2]
    <3>1. CASE l \in P
      BY <1>1, <2>7, <3>1 DEF LinesOrdered, Apart
    <3>2. CASE l \in B \cup C
      <4>1. Before(m, l)
        BY <1>1, <3>2 DEF LinesOrdered, Precede
      <4>2. m # Stop /\ Last(m)[2] \in Nat
        BY <2>1, LineParts
      <4> QED  BY <2>7, <4>1, <4>2 DEF Before
    <3> QED  BY <3>1, <3>2
  <2> HIDE DEF P, L, B, C
  <2>8. \A l \in Range(s) \ {Stop}, m \in L : l[1][1] = m[1][1] => Last(l)[2] # Last(m)[2]
    BY <2>5, <2>7
  <2>9. InOrder(lost)
    BY <1>1 DEF LinesOrdered
  <2> QED  BY <2>6, <2>8, <2>9 DEF InOrderOfThread, q, L
<1>4. DropsCounted
  <2>1. Len(refused) \in Nat /\ (~lossy => refused = <<>>)
    BY <1>1 DEF LogTypes, RefusalsCounted
  <2>2. Counting = {} => counter = Capped(Len(refused))
    BY <1>1, <2>1, FS_EmptySet DEF RefusalsCounted
  <2>3. refused = <<>> => counter = 0
    <3> SUFFICES ASSUME refused = <<>>  PROVE counter = 0
      OBVIOUS
    <3>1. Cardinality(Counting) = 0
      BY <1>1, FS_CardinalityType DEF RefusalsCounted
    <3> QED  BY <1>1, <3>1 DEF RefusalsCounted, Capped
  <2>4. Min({CounterMax, Len(refused)}) = Capped(Len(refused))
    BY <2>1, Largest2 DEF Capped
  <2>5. (\A t \in Thread : writerOf[t].phase # "counting") => Counting = {}
    BY DEF Counting
  <2> QED  BY <2>1, <2>2, <2>3, <2>4, <2>5 DEF DropsCounted
<1>5. FlushedOnExit
  BY <1>1 DEF FlushedOnExit, Stopping, LogTypes
<1> QED  BY <1>1, <1>2, <1>3, <1>4, <1>5 DEF LinesKept

(* What is logged reaches the output once, whole lines in the order of     *)
(* their thread; what does not is in a buffer, on its way, of a write that *)
(* failed, or refused by a lossy channel, which counts it.                 *)
THEOREM LinesStayKept == LogSpec => []LinesKept
BY LogInvariantInit, LogInvariantStep, LogInvariantLines, PTL DEF LogSpec
=============================================================================
