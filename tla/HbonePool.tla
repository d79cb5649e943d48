----------------------------- MODULE HbonePool ------------------------------
(***************************************************************************)
(* The pool of HBONE connections (hbone/src/pool.rs, client.rs, lib.rs).   *)
(*                                                                         *)
(* Requests for one destination share HTTP/2 connections.  A map holds one *)
(* lock per hash of a destination; whoever holds the lock takes a pooled   *)
(* connection or dials one, and puts a copy back.  The first requests of a *)
(* destination race for the lock without waiting: the losers watch for a   *)
(* notification that something was pooled.  A request is a future and may  *)
(* be dropped at any await.                                                *)
(***************************************************************************)
EXTENDS FiniteSets, Naturals

CONSTANTS Req, Dest, Hash, PoolConn,
          DestOf,      \* the destination (workload key) of a request
          HashOf,      \* the hash of a destination: hashes may collide
          MaxStreams,  \* max_allowed_streams of a connection
          NoReq, NoConn

ASSUME ReqAssumption == IsFiniteSet(Req)
ASSUME DestOfAssumption == DestOf \in [Req -> Dest] /\ Dest # {}
ASSUME HashOfAssumption == HashOf \in [Dest -> Hash]
ASSUME MaxStreamsAssumption == MaxStreams \in Nat \ {0}
ASSUME NullAssumption == NoReq \notin Req /\ NoConn \notin PoolConn

VARIABLES
  locks,   \* the hashes with an entry in established_conn_writelock
  holder,  \* hash -> the request that holds its lock
  pooled,  \* the connections in connected_pool
  conn,    \* connection -> [dest, state: "none", "up", "broken"]
  streams, \* connection -> stream_count
  step,    \* request -> where its future is
  using,   \* request -> the connection it was given
  news,    \* request -> its pool_watcher has an unseen change
  leaked   \* history: connection -> increments whose future was dropped

poolVars == <<locks, holder, pooled, conn, streams, step, using, news, leaked>>

PoolWaiting == {"new", "insert", "try", "watch", "lock"}
Locked == {"look", "dial"}
Finished == {"done", "failed"}

HashFor(r) == HashOf[DestOf[r]]

PoolTypeOK ==
  /\ locks \in SUBSET Hash
  /\ holder \in [Hash -> Req \cup {NoReq}]
  /\ pooled \in SUBSET PoolConn
  /\ conn \in [PoolConn -> [dest : Dest, state : {"none", "up", "broken"}]]
  /\ streams \in [PoolConn -> Nat]
  /\ step \in [Req -> PoolWaiting \cup Locked \cup Finished
                        \cup {"have", "sent", "open", "half"}]
  /\ using \in [Req -> PoolConn \cup {NoConn}]
  /\ news \in [Req -> BOOLEAN]
  /\ leaked \in [PoolConn -> Nat]

PoolInit ==
  /\ locks = {}
  /\ holder = [h \in Hash |-> NoReq]
  /\ pooled = {}
  /\ conn = [c \in PoolConn |-> [dest |-> CHOOSE d \in Dest : TRUE,
                              state |-> "none"]]
  /\ streams = [c \in PoolConn |-> 0]
  /\ step = [r \in Req |-> "new"]
  /\ using = [r \in Req |-> NoConn]
  /\ news = [r \in Req |-> FALSE]
  /\ leaked = [c \in PoolConn |-> 0]

-----------------------------------------------------------------------------
(* Steps of a request                                                      *)

Goto(r, s) == step' = [step EXCEPT ![r] = s]

(* The first look at the lock map.                                         *)
Connect(r) ==
  /\ step[r] = "new"
  /\ Goto(r, IF HashFor(r) \in locks THEN "lock" ELSE "insert")
  /\ UNCHANGED <<locks, holder, pooled, conn, streams, using, news, leaked>>

InsertLock(r) ==
  /\ step[r] = "insert"
  /\ locks' = locks \cup {HashFor(r)}
  /\ Goto(r, "try")
  /\ UNCHANGED <<holder, pooled, conn, streams, using, news, leaked>>

(* The winner dials without looking into the pool.                         *)
WinLock(r) ==
  /\ step[r] = "try" /\ holder[HashFor(r)] = NoReq
  /\ holder' = [holder EXCEPT ![HashFor(r)] = r]
  /\ Goto(r, "dial")
  /\ UNCHANGED <<locks, pooled, conn, streams, using, news, leaked>>

LoseLock(r) ==
  /\ step[r] = "try" /\ holder[HashFor(r)] # NoReq
  /\ Goto(r, "watch")
  /\ UNCHANGED <<locks, holder, pooled, conn, streams, using, news, leaked>>

(* pool_watcher.changed(), then a checkout: the lock is in the map by now. *)
Notified(r) ==
  /\ step[r] = "watch" /\ news[r]
  /\ news' = [news EXCEPT ![r] = FALSE]
  /\ Goto(r, "lock")
  /\ UNCHANGED <<locks, holder, pooled, conn, streams, using, leaked>>

TakeLock(r) ==
  /\ step[r] = "lock" /\ holder[HashFor(r)] = NoReq
  /\ holder' = [holder EXCEPT ![HashFor(r)] = r]
  /\ Goto(r, "look")
  /\ UNCHANGED <<locks, pooled, conn, streams, using, news, leaked>>

-----------------------------------------------------------------------------
(* Under the lock                                                          *)

Candidates(r) == {c \in pooled : HashOf[conn[c].dest] = HashFor(r)}

Unlock(r) == holder' = [holder EXCEPT ![HashFor(r)] = NoReq]

(* r gets c and a copy goes to the pool, with the notification, unless one *)
(* more stream fills it; then nobody is told.                              *)
GiveAndCheckIn(r, c, rest) ==
  /\ using' = [using EXCEPT ![r] = c]
  /\ IF streams[c] + 1 >= MaxStreams
     THEN pooled' = rest /\ UNCHANGED news
     ELSE pooled' = rest \cup {c} /\ news' = [q \in Req |-> TRUE]
  /\ Goto(r, "have")
  /\ Unlock(r)

Reuse(r, c) ==
  /\ step[r] = "look" /\ c \in Candidates(r)
  /\ conn[c].dest = DestOf[r] /\ conn[c].state = "up"
  /\ GiveAndCheckIn(r, c, pooled \ {c})
  /\ UNCHANGED <<locks, conn, streams, leaked>>

DropBroken(r, c) ==
  /\ step[r] = "look" /\ c \in Candidates(r)
  /\ conn[c].dest = DestOf[r] /\ conn[c].state = "broken"
  /\ pooled' = pooled \ {c}
  /\ UNCHANGED <<locks, holder, conn, streams, step, using, news, leaked>>

(* enforce_key_integrity: the connection of a colliding key is an error,   *)
(* and it has left the pool.                                               *)
Collision(r, c) ==
  /\ step[r] = "look" /\ c \in Candidates(r)
  /\ conn[c].dest # DestOf[r]
  /\ pooled' = pooled \ {c}
  /\ Goto(r, "failed") /\ Unlock(r)
  /\ UNCHANGED <<locks, conn, streams, using, news, leaked>>

DialNeeded(r) ==
  /\ step[r] = "look" /\ Candidates(r) = {}
  /\ Goto(r, "dial")
  /\ UNCHANGED <<locks, holder, pooled, conn, streams, using, news, leaked>>

DialSucceeds(r, c) ==
  /\ step[r] = "dial" /\ conn[c].state = "none"
  /\ conn' = [conn EXCEPT ![c] = [dest |-> DestOf[r], state |-> "up"]]
  /\ GiveAndCheckIn(r, c, pooled)
  /\ UNCHANGED <<locks, streams, leaked>>

(* Certificate, TCP, TLS or handshake error; the losers are not told.      *)
DialFails(r) ==
  /\ step[r] = "dial"
  /\ Goto(r, "failed") /\ Unlock(r)
  /\ UNCHANGED <<locks, pooled, conn, streams, using, news, leaked>>

-----------------------------------------------------------------------------
(* Streams of a connection                                                 *)

Count(r) == streams[using[r]]
SetCount(r, n) == streams' = [streams EXCEPT ![using[r]] = n]

Send(r) ==
  /\ step[r] = "have"
  /\ SetCount(r, Count(r) + 1) /\ Goto(r, "sent")
  /\ UNCHANGED <<locks, holder, pooled, conn, using, news, leaked>>

SendFails(r) ==
  /\ step[r] = "sent"
  /\ SetCount(r, Count(r) - 1) /\ Goto(r, "failed")
  /\ UNCHANGED <<locks, holder, pooled, conn, using, news, leaked>>

SendOk(r) ==
  /\ step[r] = "sent" /\ conn[using[r]].state = "up"
  /\ Goto(r, "open")
  /\ UNCHANGED <<locks, holder, pooled, conn, streams, using, news, leaked>>

\* mutant: both halves decrement
DropSecondHalfCounted(r) ==
  /\ step[r] = "half"
  /\ SetCount(r, Count(r) - 1) /\ Goto(r, "done")
  /\ UNCHANGED <<locks, holder, pooled, conn, using, news, leaked>>

(* Arc::into_inner gives None to the half that drops first: that one       *)
(* decrements, and the other half goes on uncounted.                       *)
DropFirstHalf(r) ==
  /\ step[r] = "open"
  /\ SetCount(r, Count(r) - 1) /\ Goto(r, "half")
  /\ UNCHANGED <<locks, holder, pooled, conn, using, news, leaked>>

DropSecondHalf(r) ==
  /\ step[r] = "half" /\ Goto(r, "done")
  /\ UNCHANGED <<locks, holder, pooled, conn, streams, using, news, leaked>>

-----------------------------------------------------------------------------
(* The environment                                                         *)

(* The future is dropped: the lock is released, a counted stream whose     *)
(* answer was awaited stays counted.                                       *)
Cancel(r) ==
  /\ step[r] \in PoolWaiting \cup Locked \cup {"have", "sent"}
  /\ Goto(r, "failed")
  /\ IF step[r] \in Locked THEN Unlock(r) ELSE UNCHANGED holder
  /\ leaked' = IF step[r] = "sent" THEN [leaked EXCEPT ![using[r]] = @ + 1]
                                   ELSE leaked
  /\ UNCHANGED <<locks, pooled, conn, streams, using, news>>

(* drive_connection ends: a ping unanswered, an error, the pool's drain.   *)
Break(c) ==
  /\ conn[c].state = "up"
  /\ conn' = [conn EXCEPT ![c].state = "broken"]
  /\ UNCHANGED <<locks, holder, pooled, streams, step, using, news, leaked>>

IdleTimeout(c) ==
  /\ c \in pooled
  /\ pooled' = pooled \ {c}
  /\ UNCHANGED <<locks, holder, conn, streams, step, using, news, leaked>>

Acquire(r) ==
  \/ InsertLock(r) \/ WinLock(r) \/ LoseLock(r)
  \/ Notified(r) \/ TakeLock(r) \/ DialNeeded(r) \/ DialFails(r)
  \/ \E c \in PoolConn :
       Reuse(r, c) \/ DropBroken(r, c) \/ Collision(r, c) \/ DialSucceeds(r, c)

PoolNext ==
  \/ \E r \in Req :
       \/ Connect(r) \/ Acquire(r)
       \/ Send(r) \/ SendFails(r) \/ SendOk(r)
       \/ DropFirstHalf(r) \/ DropSecondHalf(r) \/ Cancel(r)
  \/ \E c \in PoolConn : Break(c) \/ IdleTimeout(c)

(* Futures are polled, dials end (by success, error or timeout) and the    *)
(* lock is a fair FIFO mutex.  Nothing is assumed of peers after that.     *)
PoolFairness == \A r \in Req : WF_poolVars(Acquire(r))

PoolSpec == PoolInit /\ [][PoolNext]_poolVars

-----------------------------------------------------------------------------
(* Properties                                                              *)

(* One dial per key at a time: the lock is held by exactly the request     *)
(* that is looking into the pool or dialling.                              *)
LockExcludes ==
  \A r \in Req : step[r] \in Locked <=> holder[HashFor(r)] = r

(* Streams are never crossed: whatever hashes collide, a request uses a    *)
(* connection to its own destination.                                      *)
NeverCrossed ==
  \A r \in Req : using[r] # NoConn => conn[using[r]].dest = DestOf[r]

(* stream_count counts what the code makes it count: the answers awaited,  *)
(* the futures dropped meanwhile and the streams that still have both      *)
(* halves; it never underflows.  The comments promise CountsOpenStreams.   *)
CountBalanced ==
  \A c \in PoolConn :
    streams[c] = leaked[c]
      + Cardinality({r \in Req : using[r] = c /\ step[r] \in {"sent", "open"}})

(* The locks, the requests that hold them and the counters of streams      *)
(* agree, and a request never gets a connection of another destination.    *)
PoolConsistent ==
  /\ PoolTypeOK
  /\ LockExcludes
  /\ CountBalanced
  /\ NeverCrossed

(* A lock is passed on: a request that races or queues for the lock of its *)
(* key, or holds it, is answered or begins to watch, though other requests *)
(* of the key fail, collide or are dropped with the lock in their hands.   *)
LocksPassedOn ==
  \A r \in Req :
    step[r] \in {"insert", "try", "lock"} \cup Locked
      ~> step[r] \notin {"insert", "try", "lock"} \cup Locked

(* Of those who watch: once a connection has been pooled while a request   *)
(* was under way it gets an answer from the pool, so that nobody waits for *)
(* a notification that has come and gone.                                  *)
NobodyLeftWatching ==
  \A r \in Req :
    (news[r] /\ step[r] # "new") ~> step[r] \notin PoolWaiting \cup Locked

-----------------------------------------------------------------------------
(* Promises of comments that the code does not keep                        *)

(* "Something else is creating a conn, wait for it", under a lock that     *)
(* will "establish or timeout (or fail with error)" (pool.rs:476, 497):    *)
(* whoever waits is woken.  Only a connection that goes to the pool wakes  *)
(* a watcher: when the winner fails, is dropped, or fills its connection   *)
(* with its own stream, the watcher stays until another request pools one. *)
EveryWatcherWoken ==
  \A r \in Req : step[r] = "watch" ~> step[r] # "watch"

(* "The other end of this shared counter has already dropped.  We only     *)
(* decrement if they have" (lib.rs:154): a stream is counted until its     *)
(* last half has gone.  The code decrements with the first.                *)
CountsOpenStreams ==
  \A c \in PoolConn :
    streams[c] = leaked[c]
      + Cardinality({r \in Req : using[r] = c
                                   /\ step[r] \in {"sent", "open", "half"}})

(* "We make sure we don't go over the max stream limit out of band".       *)
StreamsWithinLimit == \A c \in PoolConn : streams[c] <= MaxStreams
=============================================================================
