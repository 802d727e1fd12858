----------------------------- MODULE LinkNoBlock -----------------------------
(***************************************************************************)
(* Link::request over a non-blocking socket: noblock(true).  read() and    *)
(* write() then go round their loops until the kernel has nothing more to  *)
(* give or to take (EWOULDBLOCK), the buffer is full or empty, or the      *)
(* connection ends; flush() tries again, response() does not.              *)
(*                                                                         *)
(* Everything else is module Link.  One action is again one system call;   *)
(* "loop" is the loop of read(), "write" that of write().                  *)
(***************************************************************************)
EXTENDS Link

VARIABLE got           \* read(): bytes read so far, its `ret`

nbVars == <<vars, got>>
-----------------------------------------------------------------------------
(* Link::write: nice() comes after the loop, flush() calls it again.       *)

NbWriteBegins ==
  /\ pc = "flush" /\ out.size > 0
  /\ \E g \in {out, Grow(out)} : LazilyGrown(out, g) /\ out' = g
  /\ pc' = "write"
  /\ UNCHANGED <<req, idx, issued, held, intact, sent, flushed,
                 recvVars, peerVars, result, got>>

NbWrite(k) ==
  /\ pc = "write" /\ out.size > 0 /\ peer # "reset"
  /\ k \in 1..out.size
  /\ out' = Decr(out, k)
  /\ flushed' = flushed + k
  /\ UNCHANGED <<pc, req, idx, issued, held, intact, sent,
                 recvVars, peerVars, allocFails, result, got>>

\* The buffer is empty, or write() says EWOULDBLOCK.
NbWriteReturns ==
  /\ pc = "write"
  /\ out.size > 0 => peer # "reset"
  /\ out' = Nice(out)
  /\ pc' = "flush"
  /\ UNCHANGED <<req, idx, issued, held, intact, sent, flushed,
                 recvVars, peerVars, allocFails, result, got>>

NbWriteFails ==
  /\ pc = "write" /\ out.size > 0 /\ peer = "reset"
  /\ Return(0)
  /\ UNCHANGED <<sendVars, recvVars, peerVars, allocFails, got>>
-----------------------------------------------------------------------------
(* Link::read                                                              *)

\* The first real block, nice(), and into the loop.
NbReadBegins ==
  /\ pc = "read"
  /\ \E g \in {in, Grow(in)} : LazilyGrown(in, g) /\ in' = Nice(g)
  /\ pc' = "loop"
  /\ UNCHANGED <<sendVars, rcvd, taken, peerVars, result, got>>

\* Mutant of NbRead: a read after the first lands where the first one did.
NbReadOver(k) ==
  /\ pc = "loop"
  /\ k \in 1..(avail - rcvd) /\ k <= Space(in)
  /\ in' = IF got = 0 THEN Incr(in, k) ELSE in
  /\ rcvd' = rcvd + k /\ got' = got + k
  /\ UNCHANGED <<pc, sendVars, taken, peerVars, allocFails, result>>

NbRead(k) ==
  /\ pc = "loop"
  /\ k \in 1..(avail - rcvd) /\ k <= Space(in)
  /\ in' = Incr(in, k)
  /\ rcvd' = rcvd + k /\ got' = got + k
  /\ UNCHANGED <<pc, sendVars, taken, peerVars, allocFails, result>>

\* Nothing there yet, for all read() knows: EWOULDBLOCK.
NbNothingYet == peer = "up" \/ rcvd < avail

\* read() returns the bytes it got, response() goes on to recv().
NbReadReturns ==
  /\ pc = "loop" /\ got > 0
  /\ Full(in) \/ NbNothingYet
  /\ pc' = "recv" /\ got' = 0
  /\ UNCHANGED <<sendVars, recvVars, peerVars, allocFails, result>>

\* Mutant of NbReadNothing: response() tries again.
NbReadRetries ==
  /\ pc = "loop" /\ got = 0
  /\ Full(in) \/ NbNothingYet
  /\ pc' = "recv"
  /\ UNCHANGED <<sendVars, recvVars, peerVars, allocFails, result, got>>

\* read() returns 0 for "nothing yet", too, and response() takes it for a
\* failure.
NbReadNothing ==
  /\ pc = "loop" /\ got = 0
  /\ Full(in) \/ NbNothingYet
  /\ Return(0)
  /\ UNCHANGED <<sendVars, recvVars, peerVars, allocFails, got>>

\* The end of the stream makes it 0 or -1, whatever was read before it.
NbReadEnds ==
  /\ pc = "loop" /\ ~Full(in)
  /\ avail = rcvd /\ peer # "up"
  /\ Return(0) /\ got' = 0
  /\ UNCHANGED <<sendVars, recvVars, peerVars, allocFails>>
-----------------------------------------------------------------------------
\* The steps of module Link that do not touch the socket.
NbBuffers ==
  /\ \/ \E r \in Requests : Issue(r)
     \/ AppendPiece \/ AppendGrow \/ AppendFails \/ Flushed
     \/ RecvEmpty \/ RecvReady \/ RecvOversized \/ RecvPartial \/ RecvNoRoom
  /\ UNCHANGED got

NbSocket ==
  \/ NbWriteBegins \/ (\E k \in 1..out.size : NbWrite(k)) \/ NbWriteReturns
  \/ NbWriteFails
  \/ NbReadBegins \/ (\E k \in 1..(avail - rcvd) : NbRead(k))
  \/ NbReadReturns \/ NbReadNothing \/ NbReadEnds

NbPeer ==
  /\ ServerStep \/ \E how \in {"closed", "reset"} : Disconnect(how)
  /\ UNCHANGED got

NbInit == Init /\ got = 0

NbNext == NbBuffers \/ NbSocket \/ NbPeer

NbSpec == NbInit /\ [][NbNext]_nbVars

\* The thread runs, and a kernel that is asked for ever to take some bytes takes
\* them sooner or later, though it may say EWOULDBLOCK any number of times.
NbFairSpec ==
  /\ NbSpec
  /\ WF_nbVars(NbBuffers /\ pc # "idle")
  /\ WF_nbVars(NbSocket)
  /\ SF_nbVars(\E k \in 1..out.size : NbWrite(k))
-----------------------------------------------------------------------------
NbTypeOK ==
  /\ pc \in {"idle", "append", "flush", "write", "recv", "read", "loop"}
  /\ out \in Buffers /\ in \in Buffers
  /\ got \in 0..in.size
  /\ in.size = rcvd - HeadStart

(* read() never returns 0 for want of room on a non-blocking socket        *)
(* either, however much its loop takes in: a full buffer is left to recv() *)
(* with something in `got`.                                                *)
NbReadHasRoom == pc = "loop" /\ got = 0 => ~Full(in)

(* A call that comes back with NULL, because the socket would block        *)
(* (link.cpp:439) or recv() has no room (RecvNoRoom), may leave its reply  *)
(* to a later call.  While no call has come back so, the replies are the   *)
(* right ones, and nothing is left in either buffer, though neither loop   *)
(* waits.  Of the calls after such a one this says nothing.                *)
NbInStep ==
  pc = "idle" /\ result.reply > 0 /\ result.reply = issued =>
    /\ ReplyMatches
    /\ out.size = 0 /\ in.size = 0

(* flush() spins while the kernel takes nothing, and still comes to an end *)
(* (link.h: "may cause a lot unneccessary write calls"); response() never  *)
(* waits at all: every call returns, even if the server never answers.     *)
NbReturns == pc # "idle" ~> pc = "idle"
=============================================================================
