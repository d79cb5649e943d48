----------------------------- MODULE ClientPool -----------------------------
(* The HTTP client's connection pool for one pool key (target, address,    *)
(* transport and version): a call races a checkout from the pool against a *)
(* connection of its own.                                                  *)
EXTENDS Naturals, Sequences, FiniteSets

CONSTANTS Call,      \* the requests that use this pool key
          Socket,    \* connection attempts, reused once nobody holds them
          NoCall, NoSocket,
          PoolMax    \* pool_max_idle_per_host, at least one: zero disables the pool

ASSUME PoolMaxAssumption == PoolMax \in Nat \ {0}
ASSUME NoneAssumption ==
  /\ NoCall \notin Call /\ NoSocket \notin Socket
  /\ Socket \cap {"closed", "waiting", "dropped"} = {}

VARIABLES ver,        \* the version of the key: "h2" or "auto"
          pool,       \* PoolInner, with the receiving half of each waiter
          socket,     \* each connection attempt
          call,       \* where each request is
          returning   \* HTTP/1 connections whose response is still being read

clientVars == <<ver, pool, socket, call, returning>>

Unused == [phase |-> "unused", by |-> NoCall, locked |-> FALSE,
           proto |-> "none", open |-> FALSE]

Over == {"done", "failed", "cancelled"}

ClientInit ==
  /\ ver \in {"h2", "auto"}
  /\ pool = [connecting |-> FALSE, idle |-> <<>>, waiters |-> <<>>,
             rx |-> [c \in Call |-> "closed"]]
  /\ socket = [s \in Socket |-> Unused]
  /\ call = [c \in Call |-> [phase |-> "new", socket |-> NoSocket, reused |-> FALSE]]
  /\ returning = {}

-----------------------------------------------------------------------------
(* What the pool's lock protects.                                          *)

(* The elements of a sequence at some of its places, in their order.       *)
Kept(s, places) ==
  [k \in 1 .. Cardinality(places) |->
     s[CHOOSE i \in places : Cardinality({j \in places : j <= i}) = k]]

(* The places of the waiters that are not cancelled.                       *)
Live(p) == {i \in 1 .. Len(p.waiters) : p.rx[p.waiters[i]] = "waiting"}
First(p) == CHOOSE i \in Live(p) : \A j \in Live(p) : i <= j

(* Mutant of Connected: the waiters are kept.                              *)
ConnectedQuietly(p) == [p EXCEPT !.connecting = FALSE]

(* PoolInner::connected: the lock goes, and with it every waiter.          *)
Connected(p) ==
  [p EXCEPT !.connecting = FALSE, !.waiters = <<>>,
            !.rx = [c \in Call |-> IF p.rx[c] = "waiting" /\ c \in {p.waiters[i] : i \in DOMAIN p.waiters}
                                   THEN "dropped" ELSE p.rx[c]]]

(* A connection nobody waits for becomes idle, if there is room.           *)
Idled(p, s) ==
  IF Len(p.idle) >= PoolMax THEN p
  ELSE [p EXCEPT !.idle = Append(@, [socket |-> s, old |-> FALSE])]

(* Mutant of Put: the connection is given to a waiter and kept.            *)
PutTwice(p, s) ==
  IF Live(p) = {} THEN Idled(p, s)
  ELSE Idled([p EXCEPT !.rx = [@ EXCEPT ![p.waiters[First(p)]] = s],
                       !.waiters = SubSeq(p.waiters, First(p) + 1, Len(p.waiters))], s)

(* PoolInner::put: a shared connection goes to every waiter and stays, one *)
(* that is not shared goes to the first; cancelled waiters are removed on  *)
(* the way.                                                                *)
Put(p, s) ==
  LET shared == socket[s].proto = "h2"
      given == {p.waiters[i] : i \in IF shared THEN Live(p) ELSE {First(p)}}
      rx == [c \in Call |-> IF c \in given THEN s ELSE p.rx[c]]
  IN IF shared /\ p.idle # <<>> THEN p
     ELSE IF Live(p) = {} THEN Idled([p EXCEPT !.waiters = <<>>], s)
     ELSE IF shared THEN Idled([p EXCEPT !.rx = rx, !.waiters = <<>>], s)
     ELSE [p EXCEPT !.rx = rx, !.waiters = SubSeq(p.waiters, First(p) + 1, Len(p.waiters))]

Usable(e) == socket[e.socket].open /\ ~e.old
Good(idle) == {i \in 1 .. Len(idle) : Usable(idle[i])}

(* IdlePopper::pop: the newest usable connection; those after it are gone, *)
(* a shared one is put back as new.                                        *)
Pop(idle) ==
  LET k == CHOOSE i \in Good(idle) : \A j \in Good(idle) : j <= i
      s == idle[k].socket
  IN IF Good(idle) = {} THEN [socket |-> NoSocket, idle |-> <<>>]
     ELSE [socket |-> s,
           idle |-> IF socket[s].proto = "h2"
                    THEN Append(SubSeq(idle, 1, k - 1), [socket |-> s, old |-> FALSE])
                    ELSE SubSeq(idle, 1, k - 1)]

-----------------------------------------------------------------------------
(* The call.                                                               *)

(* Dropping the connect future of a call releases the lock it holds.       *)
Mine(c) == {s \in Socket : socket[s].phase \in {"dialing", "handshake"} /\ socket[s].by = c}
Unlocked(p, gone) == IF \E s \in gone : socket[s].locked THEN Connected(p) ELSE p
Without(gone) == [s \in Socket |-> IF s \in gone THEN Unused ELSE socket[s]]
(* Dropping the checkout closes the receiving half; the pool's half stays  *)
(* until CleanWaiters.                                                     *)
Closed(p, c) == [p EXCEPT !.rx[c] = "closed"]

End(c, how) == call' = [call EXCEPT ![c] = [phase |-> how, socket |-> NoSocket, reused |-> FALSE]]

Holding(c, s, reused) ==
  call' = [call EXCEPT ![c] = [phase |-> "sending", socket |-> s, reused |-> reused]]

(* Checkout::poll: an idle connection, or a waiter.                        *)
CheckOut(c) ==
  LET found == Pop(pool.idle)
  IN /\ call[c].phase = "new"
     /\ IF found.socket # NoSocket
        THEN /\ pool' = [pool EXCEPT !.idle = found.idle]
             /\ Holding(c, found.socket, TRUE)
        ELSE /\ pool' = [pool EXCEPT !.idle = <<>>, !.waiters = Append(@, c),
                                     !.rx[c] = "waiting"]
             /\ call' = [call EXCEPT ![c].phase = "connect"]
     /\ UNCHANGED <<ver, socket, returning>>

(* connect_to: only one HTTP/2 connection is made at a time, the others    *)
(* wait for it.                                                            *)
StartConnect(c) ==
  /\ call[c].phase = "connect"
  /\ IF ver = "h2" /\ pool.connecting
     THEN /\ call' = [call EXCEPT ![c].phase = "waiting"]
          /\ UNCHANGED <<pool, socket>>
     ELSE \E s \in Socket :
            /\ socket[s].phase = "unused"
            /\ socket' = [socket EXCEPT ![s] = [Unused EXCEPT !.phase = "dialing", !.by = c,
                                                              !.locked = ver = "h2"]]
            /\ pool' = [pool EXCEPT !.connecting = @ \/ ver = "h2"]
            /\ call' = [call EXCEPT ![c].phase = "racing"]
  /\ UNCHANGED <<ver, returning>>

(* The connector returns: HTTP/1, for a key of HTTP/2 too when that is     *)
(* what ALPN negotiated, and the attempt then keeps the lock it has; or    *)
(* HTTP/2 by version or by ALPN, which takes the lock, or gives way to the *)
(* call that has it.                                                       *)
Dialled(s) ==
  LET c == socket[s].by
      \* the checkout of a call whose own connection gave way is all it has
      gaveWay == IF c = NoCall THEN call
                 ELSE [call EXCEPT ![c].phase = IF @ = "racing" THEN "waiting" ELSE "failed"]
  IN /\ socket[s].phase = "dialing"
     /\ \/ /\ socket' = [socket EXCEPT ![s] = [@ EXCEPT !.phase = "handshake", !.proto = "h1"]]
           /\ UNCHANGED <<pool, call>>
        \/ /\ ver = "auto" => ~pool.connecting
           /\ socket' = [socket EXCEPT ![s] = [@ EXCEPT !.phase = "handshake", !.proto = "h2",
                                       !.locked = TRUE]]
           /\ pool' = [pool EXCEPT !.connecting = TRUE]
           /\ UNCHANGED call
        \/ /\ ver = "auto" /\ pool.connecting
           /\ socket' = Without({s})
           /\ call' = gaveWay
           /\ UNCHANGED pool
     /\ UNCHANGED <<ver, returning>>


(* The connector or the handshake fails: so does the call it is for.       *)
ConnectFailed(s) ==
  LET c == socket[s].by
      freed == Unlocked(pool, {s})
  IN /\ socket[s].phase \in {"dialing", "handshake"}
     /\ socket' = Without({s})
     /\ IF c = NoCall THEN pool' = freed /\ UNCHANGED call
        ELSE pool' = Closed(freed, c) /\ End(c, "failed")
     /\ UNCHANGED <<ver, returning>>

(* Pool::pooled: a shared connection is put at once, for all who wait; one *)
(* that is not goes to its call, or back to the pool when the call has     *)
(* moved on.  A lock it was made under is dropped first, and the waiters   *)
(* with it.                                                                *)
Handshaken(s) ==
  LET c == socket[s].by
      freed == Unlocked(pool, {s})
      after == IF socket[s].proto = "h2" THEN Connected(Put(pool, s))
               ELSE IF c = NoCall THEN Put(freed, s) ELSE freed
  IN /\ socket[s].phase = "handshake"
     /\ socket' = [socket EXCEPT ![s] = [@ EXCEPT !.phase = "up", !.open = TRUE, !.locked = FALSE,
                                 !.by = NoCall]]
     /\ IF c = NoCall THEN pool' = after /\ UNCHANGED call
        ELSE pool' = Closed(after, c) /\ Holding(c, s, FALSE)
     /\ UNCHANGED <<ver, returning>>

(* The checkout of a call is answered first: its own connection goes on in *)
(* the background. A connection that closed on the way leaves the call to  *)
(* its own connection, if it still has one.                                *)
CheckedOut(c) ==
  LET s == pool.rx[c]
  IN /\ call[c].phase \in {"racing", "waiting"} /\ s \in Socket
     /\ pool' = Closed(pool, c)
     /\ IF socket[s].open
        THEN /\ Holding(c, s, TRUE)
             /\ socket' = [x \in Socket |-> IF x \in Mine(c) THEN [socket[x] EXCEPT !.by = NoCall]
                                            ELSE socket[x]]
        ELSE /\ IF call[c].phase = "racing"
                THEN call' = [call EXCEPT ![c].phase = "connecting"]
                ELSE End(c, "failed")
             /\ UNCHANGED socket
     /\ UNCHANGED <<ver, returning>>

(* The waiter was dropped: the call fails, and drops its own connection.   *)
CheckoutDropped(c) ==
  /\ call[c].phase \in {"racing", "waiting"} /\ pool.rx[c] = "dropped"
  /\ pool' = Closed(Unlocked(pool, Mine(c)), c)
  /\ socket' = Without(Mine(c))
  /\ End(c, "failed")
  /\ UNCHANGED <<ver, returning>>

(* try_send_request: a response; or the connection closed before the       *)
(* request began, which is tried again only on a reused connection.        *)
Sent(c) ==
  LET s == call[c].socket
  IN /\ call[c].phase = "sending"
     /\ \/ /\ socket[s].open
           /\ End(c, "done")
           /\ returning' = IF socket[s].proto = "h1" THEN returning \cup {s} ELSE returning
        \/ /\ ~socket[s].open
           /\ End(c, IF call[c].reused THEN "new" ELSE "failed")
           /\ UNCHANGED returning
        \/ /\ ~socket[s].open
           /\ End(c, "failed")
           /\ UNCHANGED returning
     /\ UNCHANGED <<ver, pool, socket>>

(* Pooled::drop, once the response is read.                                *)
Return(s) ==
  /\ s \in returning
  /\ returning' = returning \ {s}
  /\ pool' = IF socket[s].open THEN Put(pool, s) ELSE pool
  /\ UNCHANGED <<ver, socket, call>>

(* The client goes away: the call's futures are dropped.                   *)
Cancel(c) ==
  /\ call[c].phase \notin Over
  /\ pool' = Closed(Unlocked(pool, Mine(c)), c)
  /\ socket' = Without(Mine(c))
  /\ End(c, "cancelled")
  /\ UNCHANGED <<ver, returning>>

(* Checkout::drop, after the receiving half closed.                        *)
CleanWaiters ==
  /\ Live(pool) # 1 .. Len(pool.waiters)
  /\ pool' = [pool EXCEPT !.waiters = Kept(pool.waiters, Live(pool))]
  /\ UNCHANGED <<ver, socket, call, returning>>

-----------------------------------------------------------------------------
(* The connections.                                                        *)

Held(s) ==
  \/ s \in returning
  \/ \E c \in Call : call[c].socket = s \/ pool.rx[c] = s
  \/ \E i \in DOMAIN pool.idle : pool.idle[i].socket = s

(* A connection nobody holds is closed.                                    *)
Freed(s) ==
  /\ socket[s].phase = "up" /\ ~Held(s)
  /\ socket' = Without({s})
  /\ UNCHANGED <<ver, pool, call, returning>>

Die(s) ==
  /\ socket[s].open /\ Held(s)
  /\ socket' = [socket EXCEPT ![s].open = FALSE]
  /\ UNCHANGED <<ver, pool, call, returning>>

(* The idle timeout of a connection passes; IdleTask removes such ones.    *)
Age ==
  /\ \E i \in DOMAIN pool.idle :
       /\ ~pool.idle[i].old
       /\ pool' = [pool EXCEPT !.idle[i].old = TRUE]
  /\ UNCHANGED <<ver, socket, call, returning>>

ClearExpired ==
  /\ Good(pool.idle) # 1 .. Len(pool.idle)
  /\ pool' = [pool EXCEPT !.idle = Kept(pool.idle, Good(pool.idle))]
  /\ UNCHANGED <<ver, socket, call, returning>>

CallStep(c) == CheckOut(c) \/ StartConnect(c) \/ CheckedOut(c) \/ CheckoutDropped(c) \/ Sent(c)
SocketStep(s) == Dialled(s) \/ ConnectFailed(s) \/ Handshaken(s) \/ Return(s) \/ Freed(s)

ClientNext ==
  \/ \E c \in Call : CallStep(c) \/ Cancel(c)
  \/ \E s \in Socket : SocketStep(s) \/ Die(s)
  \/ CleanWaiters \/ Age \/ ClearExpired

(* A call's task runs when it can, and a connection attempt is answered,   *)
(* as the timeouts of the connector make it.                               *)
ClientFairness ==
  /\ \A c \in Call : WF_clientVars(CallStep(c))
  /\ \A s \in Socket : WF_clientVars(SocketStep(s))

ClientSpec == ClientInit /\ [][ClientNext]_clientVars /\ ClientFairness
-----------------------------------------------------------------------------
(* Properties.                                                             *)

(* Every part of the state has its type.                                   *)
ClientTypeOK ==
  /\ ver \in {"h2", "auto"}
  /\ pool \in [connecting : BOOLEAN, idle : Seq([socket : Socket, old : BOOLEAN]),
               waiters : Seq(Call), rx : [Call -> {"closed", "waiting", "dropped"} \cup Socket]]
  /\ Len(pool.idle) <= PoolMax
  /\ socket \in [Socket -> [phase : {"unused", "dialing", "handshake", "up"},
                            by : Call \cup {NoCall}, locked : BOOLEAN,
                            proto : {"none", "h1", "h2"}, open : BOOLEAN]]
  /\ call \in [Call -> [phase : {"new", "connect", "racing", "waiting", "connecting", "sending"}
                                 \cup Over,
                        socket : Socket \cup {NoSocket}, reused : BOOLEAN]]
  /\ returning \subseteq Socket

(* A call never waits for a connection while one of its key is idle in the *)
(* pool (checkout and put share the pool's lock; put skips the waiters     *)
(* when the key already has an idle list).                                 *)
IdleServesWaiters == pool.idle # <<>> => Live(pool) = {}

(* An HTTP/1 connection is in one place only: idle, on its way to a        *)
(* waiter, carrying a call, or draining its response.                      *)
Holders(s) ==
  (IF s \in returning THEN 1 ELSE 0)
  + Cardinality({c \in Call : call[c].socket = s})
  + Cardinality({c \in Call : pool.rx[c] = s})
  + Cardinality({i \in DOMAIN pool.idle : pool.idle[i].socket = s})
OneHolder == \A s \in Socket : socket[s].proto = "h1" => Holders(s) <= 1

(* Connections, waiters and the idle list agree.                           *)
ClientConsistent ==
  /\ ClientTypeOK
  /\ IdleServesWaiters
  /\ OneHolder

(* The key is marked as connecting exactly while one attempt holds the     *)
(* lock: whatever ends the attempt gives it back, once ("Ensure that there *)
(* is only ever 1 connecting task for HTTP/2 connections", and the         *)
(* assertion of PoolInner::connected).                                     *)
LockHasOwner ==
  Cardinality({s \in Socket : socket[s].locked}) = (IF pool.connecting THEN 1 ELSE 0)

(* A call that gave up its own connection for another's still waits only   *)
(* while that other is connecting: it is never left with a waiter that     *)
(* nobody will answer.                                                     *)
WaitersHaveHope ==
  \A c \in Call : call[c].phase = "waiting" /\ pool.rx[c] = "waiting" => pool.connecting

(* The lock of the key is held by an attempt on which those who wait can rely. *)
LocksServeWaiters ==
  /\ LockHasOwner
  /\ WaitersHaveHope

(* Every call ends, with a response or an error, unless it is tried again  *)
(* for ever: send_request puts no bound on the reused connections that may *)
(* close before the request begins.                                        *)
CallsFinish == \A c \in Call : <>(call[c].phase \in Over) \/ []<>(call[c].phase = "new")

-----------------------------------------------------------------------------
(* A promise of comments that the code does not keep.                      *)

(* "Cancel any waiters. if there are any, it's because this Connecting     *)
(* task didn't complete successfully" (pool.rs:413), and whose connect     *)
(* gave way "should just wait" for the checkout (client.rs:457): waiters   *)
(* fail only with the attempt they rely on.  An attempt for an HTTP/2 key  *)
(* whose ALPN negotiated HTTP/1 succeeds and drops them all the same.      *)
OnlyFailuresDropWaiters ==
  [][\A c \in Call, s \in Socket :
       pool.rx[c] = "waiting" /\ pool'.rx[c] = "dropped"
         => ~(socket[s].phase = "handshake" /\ socket'[s].phase = "up")]_clientVars
=============================================================================
