----------------------------- MODULE LogWriter ------------------------------
(***************************************************************************)
(* The log: log() of core/src/telemetry.rs renders a line in a buffer of   *)
(* its thread and sends it to one worker (telemetry/nonblocking.rs and     *)
(* worker.rs), which writes lines in groups.  The guard that main holds    *)
(* tells the worker to stop, and waits, for a time, until it has flushed.  *)
(*                                                                         *)
(* A record is <<thread, n>>, the n-th of its thread; a line is the        *)
(* sequence of the records that it was rendered from.                      *)
(***************************************************************************)
EXTENDS Naturals, Sequences, SequencesExt, FiniteSetsExt

CONSTANTS
  Thread,
  MaxRecords,   \* bound: records of a thread
  Limit,        \* buffered_lines_limit: the capacity of the channel
  Group,        \* GROUP_SIZE: lines of one write
  CounterMax    \* usize::MAX of the counter of refused lines

ASSUME LogBoundsAssumption ==
  MaxRecords \in Nat /\ Limit \in Nat /\ Group \in Nat \ {0} /\ CounterMax \in Nat

VARIABLES
  lossy,      \* what the channel does when it is full
  writerOf,   \* thread -> [phase, records, buf, curr]: "idle", "sending" or
              \*   "counting", records logged, the thread's buffer, and the
              \*   counter as it read it
  channel,    \* lines, and Stop
  worker,     \* [phase, batch, stop]
  printed,    \* the lines that reached the output
  lost,       \* history: the lines of writes that failed
  refused,    \* history: the lines that a full, lossy channel refused
  counter,    \* ErrorCounter
  guard       \* WorkerGuard: "held", "stopping", "waiting", "flushed", "gone"

logVars == <<lossy, writerOf, channel, worker, printed, lost, refused, counter, guard>>

Stop == <<>>   \* Msg::Shutdown: no line is empty
Record == Thread \X (1..MaxRecords)
Line == Seq(Record) \ {Stop}

LogTypeOK ==
  /\ lossy \in BOOLEAN
  /\ \A t \in Thread :
       /\ writerOf[t].phase \in {"idle", "sending", "counting"}
       /\ writerOf[t].records \in 0..MaxRecords /\ writerOf[t].curr \in 0..CounterMax
       /\ writerOf[t].buf \in Seq(Record)
  /\ channel \in Seq(Line \cup {Stop}) /\ Len(channel) <= Limit
  /\ worker.phase \in {"idle", "batch", "flush", "closing", "ended"}
  /\ worker.batch \in Seq(Line) /\ Len(worker.batch) <= Group /\ worker.stop \in BOOLEAN
  /\ printed \in Seq(Line) /\ lost \in Seq(Line) /\ refused \in Seq(Line)
  /\ counter \in 0..CounterMax
  /\ guard \in {"held", "stopping", "waiting", "flushed", "gone"}

LogInit ==
  /\ lossy \in BOOLEAN
  /\ writerOf = [t \in Thread |-> [phase |-> "idle", records |-> 0, buf |-> <<>>, curr |-> 0]]
  /\ channel = <<>>
  /\ worker = [phase |-> "idle", batch |-> <<>>, stop |-> FALSE]
  /\ printed = <<>> /\ lost = <<>> /\ refused = <<>> /\ counter = 0
  /\ guard = "held"

OutputStays == UNCHANGED <<lossy, printed, lost, guard>>

-----------------------------------------------------------------------------
(* Writers                                                                 *)

(* The buffer is cleared after a line has been sent, and only then.        *)
Render(t) ==
  /\ writerOf[t].phase = "idle" /\ writerOf[t].records < MaxRecords
  /\ LET o == writerOf[t]
         n == o.records + 1
     IN writerOf' = [writerOf EXCEPT ![t] =
          [o EXCEPT !.phase = "sending", !.records = n, !.buf = Append(o.buf, <<t, n>>)]]
  /\ OutputStays /\ UNCHANGED <<channel, worker, refused, counter>>

(* A value that cannot be rendered leaves what came before it.             *)
RenderFails(t) ==
  /\ writerOf[t].phase = "idle" /\ writerOf[t].records < MaxRecords
  /\ LET o == writerOf[t]
         n == o.records + 1
     IN writerOf' = [writerOf EXCEPT ![t] =
          [o EXCEPT !.records = n, !.buf = Append(o.buf, <<t, n>>)]]
  /\ OutputStays /\ UNCHANGED <<channel, worker, refused, counter>>

(* write_vec: a channel that is not lossy makes its senders wait.          *)
SendLine(t) ==
  /\ writerOf[t].phase = "sending" /\ worker.phase # "ended" /\ Len(channel) < Limit
  /\ channel' = Append(channel, writerOf[t].buf)
  /\ writerOf' = [writerOf EXCEPT ![t] = [@ EXCEPT !.phase = "idle", !.buf = <<>>]]
  /\ OutputStays /\ UNCHANGED <<worker, refused, counter>>

RefuseLine(t) ==
  /\ writerOf[t].phase = "sending"
  /\ lossy /\ (worker.phase = "ended" \/ Len(channel) = Limit)
  /\ refused' = Append(refused, writerOf[t].buf)
  /\ writerOf' = [writerOf EXCEPT ![t] = [@ EXCEPT !.phase = "counting", !.buf = <<>>,
                                  !.curr = counter]]
  /\ OutputStays /\ UNCHANGED <<channel, worker, counter>>

(* Without a worker sending is an error, which leaves the buffer as it is. *)
SendErrs(t) ==
  /\ writerOf[t].phase = "sending" /\ ~lossy /\ worker.phase = "ended"
  /\ writerOf' = [writerOf EXCEPT ![t].phase = "idle"]
  /\ OutputStays /\ UNCHANGED <<channel, worker, refused, counter>>

Incremented(n) == IF n = CounterMax THEN n ELSE n + 1

\* mutant: the increment of what was read is stored, whatever came between
StoreCount(t) ==
  /\ writerOf[t].phase = "counting"
  /\ counter' = Incremented(writerOf[t].curr)
  /\ writerOf' = [writerOf EXCEPT ![t].phase = "idle"]
  /\ OutputStays /\ UNCHANGED <<channel, worker, refused>>

(* incr_saturating: the exchange is tried again with the count it found.   *)
CountDropped(t) ==
  /\ writerOf[t].phase = "counting"
  /\ IF writerOf[t].curr \in {counter, CounterMax}
     THEN /\ counter' = Max({counter, Incremented(writerOf[t].curr)})
          /\ writerOf' = [writerOf EXCEPT ![t].phase = "idle"]
     ELSE /\ writerOf' = [writerOf EXCEPT ![t].curr = counter]
          /\ UNCHANGED counter
  /\ OutputStays /\ UNCHANGED <<channel, worker, refused>>

-----------------------------------------------------------------------------
(* The worker                                                              *)

(* work: the first message of a group is waited for.                       *)
ReceiveFirst ==
  /\ worker.phase = "idle" /\ channel # <<>>
  /\ worker' = IF Head(channel) = Stop THEN [worker EXCEPT !.phase = "closing"]
               ELSE [worker EXCEPT !.phase = "batch", !.batch = <<Head(channel)>>]
  /\ channel' = Tail(channel)
  /\ OutputStays /\ UNCHANGED <<writerOf, refused, counter>>

(* To stop is remembered; the lines that are behind are taken all the same. *)
ReceiveMore ==
  /\ worker.phase = "batch" /\ channel # <<>> /\ Len(worker.batch) < Group
  /\ worker' = IF Head(channel) = Stop THEN [worker EXCEPT !.stop = TRUE]
               ELSE [worker EXCEPT !.batch = Append(@, Head(channel))]
  /\ channel' = Tail(channel)
  /\ OutputStays /\ UNCHANGED <<writerOf, refused, counter>>

GroupTaken ==
  /\ worker.phase = "batch" /\ (channel = <<>> \/ Len(worker.batch) = Group)
  /\ worker' = [worker EXCEPT !.phase = "flush"]
  /\ OutputStays /\ UNCHANGED <<writerOf, channel, refused, counter>>

AfterGroup == [phase |-> IF worker.stop THEN "closing" ELSE "idle",
               batch |-> <<>>, stop |-> FALSE]

Flush ==
  /\ worker.phase = "flush"
  /\ printed' = printed \o worker.batch
  /\ worker' = AfterGroup
  /\ UNCHANGED <<lossy, writerOf, channel, lost, refused, counter, guard>>

(* A write that fails is given up where it is; that the worker was told to *)
(* stop is forgotten with it.                                              *)
FlushFails(n) ==
  /\ worker.phase = "flush" /\ n \in 0..(Len(worker.batch) - 1)
  /\ printed' = printed \o SubSeq(worker.batch, 1, n)
  /\ lost' = lost \o SubSeq(worker.batch, n + 1, Len(worker.batch))
  /\ worker' = [phase |-> "idle", batch |-> <<>>, stop |-> FALSE]
  /\ UNCHANGED <<lossy, writerOf, channel, refused, counter, guard>>

(* The guard is gone: so is its end of the channel the worker waits on.    *)
WorkerEnds ==
  /\ worker.phase = "closing" /\ guard = "gone"
  /\ worker' = [worker EXCEPT !.phase = "ended"]
  /\ OutputStays /\ UNCHANGED <<writerOf, channel, refused, counter>>

-----------------------------------------------------------------------------
(* The guard, when main ends                                               *)

DropGuard ==
  /\ guard = "held"
  /\ guard' = "stopping"
  /\ UNCHANGED <<lossy, writerOf, channel, worker, printed, lost, refused, counter>>

SendStop ==
  /\ guard = "stopping" /\ Len(channel) < Limit
  /\ channel' = Append(channel, Stop) /\ guard' = "waiting"
  /\ UNCHANGED <<lossy, writerOf, worker, printed, lost, refused, counter>>

(* The two meet in a channel without capacity.                             *)
Meet ==
  /\ guard = "waiting" /\ worker.phase = "closing"
  /\ guard' = "flushed" /\ worker' = [worker EXCEPT !.phase = "ended"]
  /\ UNCHANGED <<lossy, writerOf, channel, printed, lost, refused, counter>>

(* 100 ms to send, 1 s to wait                                             *)
GuardTimesOut ==
  /\ guard \in {"stopping", "waiting"}
  /\ guard' = "gone"
  /\ UNCHANGED <<lossy, writerOf, channel, worker, printed, lost, refused, counter>>

LogNext ==
  \/ \E t \in Thread : \/ Render(t) \/ RenderFails(t) \/ SendLine(t) \/ RefuseLine(t)
                       \/ SendErrs(t) \/ CountDropped(t)
  \/ ReceiveFirst \/ ReceiveMore \/ GroupTaken \/ Flush
  \/ \E n \in 0..Group : FlushFails(n)
  \/ WorkerEnds \/ DropGuard \/ SendStop \/ Meet \/ GuardTimesOut

(* The threads run and the timers of the guard fire.                       *)
LogFairness ==
  /\ \A t \in Thread : /\ WF_logVars(SendLine(t)) /\ WF_logVars(RefuseLine(t))
                       /\ WF_logVars(SendErrs(t)) /\ WF_logVars(CountDropped(t))
  /\ WF_logVars(ReceiveFirst) /\ WF_logVars(ReceiveMore) /\ WF_logVars(GroupTaken)
  /\ WF_logVars(Flush) /\ WF_logVars(WorkerEnds) /\ WF_logVars(GuardTimesOut)

LogSpec == LogInit /\ [][LogNext]_logVars /\ LogFairness

-----------------------------------------------------------------------------
(* Properties                                                              *)

(* The lines of a thread keep their order, and none is twice in the output *)
(* or both there and in a write that failed.                               *)
Before(l, m) == l # Stop /\ m # Stop /\ l[1][1] = m[1][1] => Last(l)[2] < Last(m)[2]
InOrder(lines) == \A i, j \in 1..Len(lines) : i < j => Before(lines[i], lines[j])

InOrderOfThread ==
  /\ InOrder(printed \o worker.batch \o channel)
  /\ InOrder(lost)
  /\ \A l \in Range(printed \o worker.batch \o channel) \ {Stop}, m \in Range(lost) :
       l[1][1] = m[1][1] => Last(l)[2] # Last(m)[2]

(* No record vanishes: it is in its thread's buffer, in a line that is on  *)
(* its way, printed or of a write that failed, or in one that was refused. *)
KeptLines == Range(printed) \cup Range(worker.batch) \cup Range(channel)
               \cup Range(lost) \cup Range(refused)
Accounted ==
  \A t \in Thread : \A n \in 1..writerOf[t].records :
    \/ <<t, n>> \in Range(writerOf[t].buf)
    \/ \E l \in KeptLines : <<t, n>> \in Range(l)

(* Only a lossy channel refuses lines, and it counts what it refuses.      *)
DropsCounted ==
  /\ ~lossy => refused = <<>> /\ counter = 0
  /\ (\A t \in Thread : writerOf[t].phase # "counting") =>
       counter = Min({CounterMax, Len(refused)})

(* When the guard has met the worker nothing that was sent before is left  *)
(* behind: what is still in the channel came after the order to stop.      *)
FlushedOnExit == guard = "flushed" => worker.batch = <<>> /\ Stop \notin Range(channel)

(* What is logged is printed once and in order, or it is known where it is *)
(* and, unless a write failed, counted.                                    *)
LinesKept ==
  /\ LogTypeOK
  /\ InOrderOfThread
  /\ Accounted
  /\ DropsCounted
  /\ FlushedOnExit

(* Whoever logs goes on, also when the channel is full, and main ends:     *)
(* again and again nobody waits, for room, for the worker or for the guard. *)
LoggingReturns ==
  []<>(/\ \A t \in Thread : writerOf[t].phase # "sending"
       /\ guard \notin {"stopping", "waiting"})

(* Each line is one record: it is not after a record that could not be     *)
(* rendered, whose beginning stays in the buffer of its thread.            *)
OneRecordPerLine == \A i \in 1..Len(printed) : Len(printed[i]) = 1
=============================================================================
