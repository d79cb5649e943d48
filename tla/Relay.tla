------------------------------- MODULE Relay --------------------------------
(***************************************************************************)
(* Copying between a client and a backend once a connection is raw: TCP    *)
(* routes (client/mod.rs, call_tcp), upgraded requests (httpproxy.rs,      *)
(* handle_upgrade) and HBONE (copy_bidirectional of core/src/copy.rs, with *)
(* the streams of hbone/src/lib.rs).                                       *)
(*                                                                         *)
(* Two futures are joined, one for each direction.  Each reads a buffer,   *)
(* writes it, in several writes if the peer is slow, and when its source   *)
(* has ended shuts the other peer's side down.  Errors of peers that went  *)
(* away are not errors of the copy.  Bytes are numbered in their order.    *)
(***************************************************************************)
EXTENDS Naturals, Sequences, SequencesExt

CONSTANTS
  MaxBytes,        \* bound: end -> how many bytes it sends
  Kinds,           \* the pairs of sockets that are joined: functions from End
  LargeAt, JumboAt \* RESIZE_THRESHOLD_LARGE and _JUMBO, in bytes of the model

End == {"client", "backend"}
Other(e) == IF e = "client" THEN "backend" ELSE "client"

ASSUME KindsAssumption == Kinds \subseteq [End -> {"tcp", "h2", "rw"}]

VARIABLES
  kindOf,  \* end -> "tcp", "h2" (H2Stream), "rw" (RWStream): what its socket is
  peer,    \* end -> [sent, fin, gone]: what it sent, whether it has ended its
           \*   side, and why it is gone: "no", "reset", "cancel" or "fault"
  taken,   \* end -> number of its bytes that left the socket
  frame,   \* end -> what an RWStream has received and not handed out
  flow,    \* end -> the direction that reads it: [phase, buf, amt, size, res]
  got,     \* end -> the bytes that were written to it
  shut,    \* the ends whose write half has been shut down
  outcome  \* of copy_bidirectional, or "running"

relayVars == <<kindOf, peer, taken, frame, flow, got, shut, outcome>>

RelayTypeOK ==
  /\ kindOf \in [End -> {"tcp", "h2", "rw"}]
  /\ peer \in [End -> [sent : Nat, fin : BOOLEAN,
                       gone : {"no", "reset", "cancel", "fault"}]]
  /\ taken \in [End -> Nat]
  /\ \A e \in End : frame[e] \in Seq(Nat) /\ got[e] \in Seq(Nat)
  /\ \A e \in End :
       /\ flow[e].phase \in {"copy", "shutdown", "done"}
       /\ flow[e].buf \in Seq(Nat) /\ flow[e].amt \in Nat
       /\ flow[e].size \in 1..3
       /\ flow[e].res \in {"ok", "error", "disconnected", "closing"}
  /\ shut \subseteq End
  /\ outcome \in {"running", "ok", "error", "disconnected", "closing"}

RelayInit ==
  /\ kindOf \in Kinds
  /\ peer = [e \in End |-> [sent |-> 0, fin |-> FALSE, gone |-> "no"]]
  /\ taken = [e \in End |-> 0]
  /\ frame = [e \in End |-> <<>>]
  /\ flow = [e \in End |-> [phase |-> "copy", buf |-> <<>>, amt |-> 0,
                            size |-> 1, res |-> "ok"]]
  /\ got = [e \in End |-> <<>>]
  /\ shut = {} /\ outcome = "running"

RelayStays == UNCHANGED <<taken, frame, flow, got, shut, outcome>>
PeersStay == UNCHANGED <<kindOf, peer>>
IsH2(e) == kindOf[e] # "tcp"

-----------------------------------------------------------------------------
(* The peers                                                               *)

PeerSends(e) ==
  /\ peer[e].sent < MaxBytes[e] /\ ~peer[e].fin /\ peer[e].gone = "no"
  /\ peer' = [peer EXCEPT ![e].sent = @ + 1]
  /\ RelayStays /\ UNCHANGED kindOf

PeerEndsSide(e) ==
  /\ ~peer[e].fin /\ peer[e].gone = "no"
  /\ peer' = [peer EXCEPT ![e].fin = TRUE]
  /\ RelayStays /\ UNCHANGED kindOf

(* A reset connection, a cancelled stream (which only HTTP/2 has), another *)
(* error such as a timeout of the kernel.                                  *)
PeerGoes(e, why) ==
  /\ peer[e].gone = "no" /\ (why = "cancel" => IsH2(e))
  /\ peer' = [peer EXCEPT ![e].gone = why]
  /\ RelayStays /\ UNCHANGED kindOf

-----------------------------------------------------------------------------
(* Reading                                                                 *)

Bytes(e, n) == [i \in 1..n |-> taken[e] + i]
Unread(e) == peer[e].sent - taken[e]

(* RWStream::poll_read receives a frame when it has handed out the last.   *)
ReceiveFrame(e, n) ==
  /\ kindOf[e] = "rw" /\ frame[e] = <<>> /\ flow[e].phase = "copy" /\ flow[e].buf = <<>>
  /\ n \in 1..Unread(e)
  /\ frame' = [frame EXCEPT ![e] = Bytes(e, n)]
  /\ taken' = [taken EXCEPT ![e] = @ + n]
  /\ PeersStay /\ UNCHANGED <<flow, got, shut, outcome>>

(* poll_bytes: a socket gives as much as there is and fits in the buffer,  *)
(* an H2Stream its next frame, whatever the size of the buffer.            *)
Read(e, n) ==
  /\ flow[e].phase = "copy" /\ flow[e].buf = <<>>
  /\ n \in 1..(IF kindOf[e] = "rw" THEN Len(frame[e]) ELSE Unread(e))
  /\ kindOf[e] # "h2" => n <= flow[e].size
  /\ IF kindOf[e] = "rw"
     THEN /\ flow' = [flow EXCEPT ![e].buf = SubSeq(frame[e], 1, n)]
          /\ frame' = [frame EXCEPT ![e] = SubSeq(@, n + 1, Len(@))]
          /\ UNCHANGED taken
     ELSE /\ flow' = [flow EXCEPT ![e].buf = Bytes(e, n)]
          /\ taken' = [taken EXCEPT ![e] = @ + n]
          /\ UNCHANGED frame
  /\ PeersStay /\ UNCHANGED <<got, shut, outcome>>

Stops(e, res) == [flow EXCEPT ![e] = [@ EXCEPT !.phase = "shutdown", !.res = res, !.buf = <<>>]]

(* No bytes are the end; so is a stream that was cancelled.                *)
ReadEnd(e) ==
  /\ flow[e].phase = "copy" /\ flow[e].buf = <<>> /\ frame[e] = <<>>
  /\ (peer[e].fin /\ Unread(e) = 0) \/ peer[e].gone = "cancel"
  /\ flow' = Stops(e, "ok")
  /\ PeersStay /\ UNCHANGED <<taken, frame, got, shut, outcome>>

(* ignore_io_errors: a peer that is gone is not an error of the copy.  Of  *)
(* a socket that was reset what had not been read may be lost.             *)
ReadFails(e) ==
  /\ flow[e].phase = "copy" /\ flow[e].buf = <<>> /\ frame[e] = <<>>
  /\ peer[e].gone \in {"reset", "fault"}
  /\ flow' = Stops(e, IF peer[e].gone = "reset" THEN "ok" ELSE "error")
  /\ PeersStay /\ UNCHANGED <<taken, frame, got, shut, outcome>>

-----------------------------------------------------------------------------
(* Writing                                                                 *)

(* A buffer grows while a connection carries much, at the write that takes *)
(* it over the threshold.                                                  *)
SizeAfter(f, n) ==
  IF f.amt < JumboAt /\ JumboAt <= f.amt + n THEN 3
  ELSE IF f.amt < LargeAt /\ LargeAt <= f.amt + n THEN 2 ELSE f.size

(* What the peer did not take stays in the buffer.                         *)
Written(e, n) ==
  LET f == flow[e] IN
  [flow EXCEPT ![e] = [f EXCEPT !.buf = SubSeq(f.buf, n + 1, Len(f.buf)),
                                !.amt = f.amt + n, !.size = SizeAfter(f, n)]]

Write(e, n) ==
  /\ flow[e].phase = "copy" /\ n \in 1..Len(flow[e].buf)
  /\ peer[Other(e)].gone = "no"
  /\ got' = [got EXCEPT ![Other(e)] = @ \o SubSeq(flow[e].buf, 1, n)]
  /\ flow' = Written(e, n)
  /\ PeersStay /\ UNCHANGED <<taken, frame, shut, outcome>>

(* The peer to write to is gone: a broken pipe is ignored; a stream that   *)
(* can send no more takes 0 bytes, and that is BackendDisconnected or      *)
(* ClientDisconnected.                                                     *)
WriteFails(e) ==
  LET to == Other(e) IN
  /\ flow[e].phase = "copy" /\ flow[e].buf # <<>> /\ peer[to].gone # "no"
  /\ \E res \in (IF IsH2(to) THEN {"disconnected"} ELSE {})
                \cup (IF peer[to].gone = "fault" THEN {"error"} ELSE {"ok"}) :
       flow' = Stops(e, res)
  /\ PeersStay /\ UNCHANGED <<taken, frame, got, shut, outcome>>

-----------------------------------------------------------------------------
(* Closing                                                                 *)

(* Whatever ended the direction, the other peer's side is shut down.       *)
Shutdown(e) ==
  /\ flow[e].phase = "shutdown" /\ peer[Other(e)].gone = "no"
  /\ shut' = shut \cup {Other(e)}
  /\ flow' = [flow EXCEPT ![e].phase = "done"]
  /\ PeersStay /\ UNCHANGED <<taken, frame, got, outcome>>

(* ignore_shutdown_errors: a socket that is not connected has shut down    *)
(* itself; a stream that was cancelled gives a broken pipe, which is not   *)
(* ignored here and hides the result of the copy.                          *)
ShutdownFails(e) ==
  LET to == Other(e) IN
  /\ flow[e].phase = "shutdown" /\ peer[to].gone # "no"
  /\ \E res \in {flow[e].res}
                \cup (IF IsH2(to) \/ peer[to].gone = "fault" THEN {"closing"} ELSE {}) :
       flow' = [flow EXCEPT ![e] = [@ EXCEPT !.phase = "done", !.res = res]]
  /\ PeersStay /\ UNCHANGED <<taken, frame, got, shut, outcome>>

(* join: each direction is completed, then the errors are looked at, those *)
(* of sending first.                                                       *)
BothDone == \A e \in End : flow[e].phase = "done"

CopyReturns ==
  /\ outcome = "running" /\ BothDone
  /\ outcome' = IF flow["client"].res # "ok" THEN flow["client"].res
                ELSE flow["backend"].res
  /\ PeersStay /\ UNCHANGED <<taken, frame, flow, got, shut>>

RelayNext ==
  \/ \E e \in End :
       \/ PeerSends(e) \/ PeerEndsSide(e)
       \/ \E why \in {"reset", "cancel", "fault"} : PeerGoes(e, why)
       \/ \E n \in 1..MaxBytes[e] : ReceiveFrame(e, n) \/ Read(e, n) \/ Write(e, n)
       \/ ReadEnd(e) \/ ReadFails(e) \/ WriteFails(e)
       \/ Shutdown(e) \/ ShutdownFails(e)
  \/ CopyReturns

(* The futures are polled when a socket is ready.  A peer that takes no    *)
(* bytes leaves a write pending, so nothing is assumed of Write.           *)
RelayFairness ==
  /\ \A e \in End :
       /\ WF_relayVars(ReadEnd(e)) /\ WF_relayVars(ReadFails(e))
       /\ WF_relayVars(WriteFails(e)) /\ WF_relayVars(Shutdown(e))
       /\ WF_relayVars(ShutdownFails(e))
       /\ WF_relayVars(\E n \in 1..MaxBytes[e] : ReceiveFrame(e, n) \/ Read(e, n))
  /\ WF_relayVars(CopyReturns)

RelaySpec == RelayInit /\ [][RelayNext]_relayVars /\ RelayFairness

-----------------------------------------------------------------------------
(* Properties                                                              *)

(* However the bytes are split over frames, buffers and partial writes,    *)
(* they arrive in their order, each of them once.                          *)
InOrder ==
  \A e \in End :
    /\ got[Other(e)] = [i \in 1..Len(got[Other(e)]) |-> i]
    /\ flow[e].phase = "copy" =>
         got[Other(e)] \o flow[e].buf \o frame[e] = [i \in 1..taken[e] |-> i]

(* While both peers are there, the end of what one sends is passed on, and *)
(* only after the last byte of it.                                         *)
EndAfterLastByte ==
  \A e \in End :
    Other(e) \in shut /\ peer[e].gone = "no" /\ peer[Other(e)].gone = "no" =>
      peer[e].fin /\ Len(got[Other(e)]) = peer[e].sent

(* A direction ends for a reason of its own: what its source or its sink   *)
(* did.  The copy is not over while a direction still carries bytes.       *)
HalfCloseHonoured ==
  /\ \A e \in End : flow[e].phase # "copy" =>
       peer[e].fin \/ peer[e].gone # "no" \/ peer[Other(e)].gone # "no"
  /\ outcome # "running" => \A e \in End : flow[e].phase = "done"

(* Two peers that end well are a copy that ended well.                     *)
NoErrorWithoutFault ==
  outcome \notin {"running", "ok"} => \E e \in End : peer[e].gone # "no"

(* The bytes of a raw connection are copied both ways, in order, to the    *)
(* end of each way.                                                        *)
BytesRelayed ==
  /\ RelayTypeOK
  /\ InOrder
  /\ EndAfterLastByte
  /\ HalfCloseHonoured
  /\ NoErrorWithoutFault

(* When both peers are gone the copy returns and the connection is freed.  *)
RelayEnds ==
  (\A e \in End : peer[e].gone # "no") ~> outcome # "running"
=============================================================================
