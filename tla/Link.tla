-------------------------------- MODULE Link --------------------------------
(***************************************************************************)
(* One connection to an SSDB server: ClientImpl::request (SSDB_impl.cpp)   *)
(* over class Link (net/link.cpp) over its two Buffers, and the far end of *)
(* the socket as the code sees it.                                         *)
(*                                                                         *)
(* A client call is synchronous: append the records of the request and the *)
(* '\n' that ends the packet to the output buffer (send), write() until    *)
(* the buffer is empty (flush), then alternate recv() and read() until a   *)
(* whole packet is in the input buffer (response).  One action is one trip *)
(* round one of these loops, so at most one system call.                   *)
(*                                                                         *)
(* The two byte streams are represented by positions counted from the      *)
(* start of the connection; what the bytes are is module Framing's subject.*)
(* A request is the sequence of the pieces appended for it, the last being *)
(* the end-of-packet '\n'.  A piece is                                     *)
(*     end    the length of the request once this piece is appended        *)
(*     need   the space append_record()/append() insist on before they     *)
(*            copy: 16 + size + 1 for a record, 1 for the '\n'             *)
(* A reply packet of the server is                                         *)
(*     len    its length in bytes                                          *)
(*     over   0, or how many of its bytes recv() must see to find that it  *)
(*            exceeds MAX_PACKET_SIZE                                      *)
(***************************************************************************)
EXTENDS Buffer, Sequences

CONSTANTS Requests,      \* the requests the caller may issue
          Replies,       \* the replies the server may send
          MaxIssued,     \* bound: calls made on the connection
          MaxAllocFail   \* bound: realloc() calls that fail for want of memory

Pieces == [end : Nat, need : Nat]

Used(r, i) == IF i = 1 THEN r[1].end ELSE r[i].end - r[i - 1].end

\* What "a request" and "a reply" are.  A request has a command name, so at
\* least one record before the '\n'; append_record() reserves at least what it
\* writes; a reply that is found oversized is found so before it ends.
ASSUME LinkAssumption ==
  /\ MaxIssued \in Nat /\ MaxAllocFail \in Nat
  /\ Requests \subseteq Seq(Pieces)
  /\ \A r \in Requests :
       /\ Len(r) > 1
       /\ \A i \in 1..Len(r) : 0 < Used(r, i) /\ Used(r, i) <= r[i].need
       /\ Used(r, Len(r)) = 1 /\ r[Len(r)].need = 1
  /\ Replies \subseteq [len : Nat, over : Nat]
  /\ \A p \in Replies : p.len > 0 /\ p.over < p.len

VARIABLES
  pc,          \* where the call is: "idle", "append", "flush", "recv", "read"
  req,         \* the request of the current call
  idx,         \* send(): the piece to append next
  out, in,     \* Link::output and Link::input
  issued,      \* calls made so far
  held,        \* history: records appended to the packet not yet terminated
  intact,      \* history: no record of that packet is missing
  sent,        \* history: the packets terminated in the output stream
  flushed,     \* bytes of the output stream given to the kernel
  replies,     \* the server's reply packets, by where they end in its stream
  avail,       \* bytes of the reply stream that will reach the client
  rcvd,        \* bytes of the reply stream read() so far
  taken,       \* packets recv() has returned
  peer,        \* "up", "closed" (FIN) or "reset" (RST), as the socket shows it
  allocFails,  \* failed realloc() calls so far
  result       \* last value returned: [call number, reply packet or 0 for NULL]

sendVars == <<req, idx, out, issued, held, intact, sent, flushed>>
recvVars == <<in, rcvd, taken>>
peerVars == <<replies, avail, peer>>
vars == <<pc, sendVars, recvVars, peerVars, allocFails, result>>

Failed == result.req > 0 /\ result.reply = 0

\* The caller gets packet j of the reply stream, or NULL when j = 0.
Return(j) == /\ result' = [req |-> issued, reply |-> j]
             /\ pc' = "idle"

\* realloc() fails for want of memory: only allocFails records that it did.
RunsOut == allocFails < MaxAllocFail /\ allocFails' = allocFails + 1

\* grow() returns -1.
GrowFails(b) == \/ ~CanGrow(b) /\ UNCHANGED allocFails
                \/ RunsOut

\* if(total() == ZERO_BUFFER_SIZE) grow(), at the top of read() and write(),
\* which go on without looking at the result.
LazilyGrown(b, g) ==
  \/ g = b /\ b.total # ZeroBuf /\ UNCHANGED allocFails
  \/ g = b /\ b.total = ZeroBuf /\ RunsOut
  \/ g = Grow(b) /\ b.total = ZeroBuf /\ UNCHANGED allocFails
-----------------------------------------------------------------------------
(* Link::send *)

Issue(r) ==
  /\ pc = "idle"
  /\ issued < MaxIssued
  /\ issued' = issued + 1
  /\ req' = r /\ idx' = 1
  /\ pc' = "append"
  /\ UNCHANGED <<out, held, intact, sent, flushed,
                 recvVars, peerVars, allocFails, result>>

Fits == req[idx].need <= Space(out)

NextPiece == IF idx = Len(req) THEN pc' = "flush" /\ idx' = idx
                               ELSE pc' = "append" /\ idx' = idx + 1

\* The server side of the protocol skips blank lines: a '\n' with no record
\* before it ends no packet.
AppendPiece ==
  /\ pc = "append" /\ Fits
  /\ out' = Incr(out, Used(req, idx))
  /\ IF idx = Len(req)
       THEN /\ sent' = IF held = 0 THEN sent
                       ELSE Append(sent, [end   |-> flushed + out.size + 1,
                                          req   |-> issued,
                                          whole |-> intact])
            /\ held' = 0 /\ intact' = TRUE
       ELSE held' = held + 1 /\ UNCHANGED <<sent, intact>>
  /\ NextPiece
  /\ UNCHANGED <<req, issued, flushed, recvVars, peerVars, allocFails, result>>

AppendGrow ==
  /\ pc = "append" /\ ~Fits
  /\ CanGrow(out)
  /\ out' = Grow(out)
  /\ UNCHANGED <<pc, req, idx, issued, held, intact, sent, flushed,
                 recvVars, peerVars, allocFails, result>>

\* Mutant of AppendFails: copies the piece although grow() failed.
CopyAnyway ==
  /\ pc = "append" /\ ~Fits
  /\ GrowFails(out)
  /\ out' = Incr(out, Used(req, idx))
  /\ NextPiece
  /\ UNCHANGED <<req, issued, held, intact, sent, flushed,
                 recvVars, peerVars, result>>

\* append_record() and append() return -1 and send() does not look: the piece
\* is missing from the packet and the next one is appended.
AppendFails ==
  /\ pc = "append" /\ ~Fits
  /\ GrowFails(out)
  /\ intact' = FALSE
  /\ NextPiece
  /\ UNCHANGED <<req, out, issued, held, sent, flushed, recvVars, peerVars, result>>
-----------------------------------------------------------------------------
(* Link::flush and Link::write *)

Write(k) ==
  /\ pc = "flush" /\ out.size > 0 /\ peer # "reset"
  /\ k \in 1..out.size
  /\ \E g \in {out, Grow(out)} : LazilyGrown(out, g) /\ out' = Nice(Decr(g, k))
  /\ flushed' = flushed + k
  /\ UNCHANGED <<pc, req, idx, issued, held, intact, sent,
                 recvVars, peerVars, result>>

WriteFails ==
  /\ pc = "flush" /\ out.size > 0 /\ peer = "reset"
  /\ \E g \in {out, Grow(out)} : LazilyGrown(out, g) /\ out' = g
  /\ Return(0)
  /\ UNCHANGED <<req, idx, issued, held, intact, sent, flushed,
                 recvVars, peerVars>>

\* Mutant of Flushed: flush() as a single write(), which may be partial.
FlushedOnce ==
  /\ pc = "flush" /\ flushed > 0
  /\ pc' = "recv"
  /\ UNCHANGED <<sendVars, recvVars, peerVars, allocFails, result>>

Flushed ==
  /\ pc = "flush" /\ out.size = 0
  /\ pc' = "recv"
  /\ UNCHANGED <<sendVars, recvVars, peerVars, allocFails, result>>
-----------------------------------------------------------------------------
(* Link::recv *)

HeadStart == IF taken = 0 THEN 0 ELSE replies[taken].end

\* The first packet of the input buffer is all there; recv() has already seen
\* more than MAX_PACKET_SIZE of it.
HeadComplete == taken < Len(replies) /\ replies[taken + 1].end <= rcvd
HeadOversized == /\ taken < Len(replies) /\ replies[taken + 1].over > 0
                 /\ replies[taken + 1].over <= rcvd

RecvEmpty ==
  /\ pc = "recv" /\ in.size = 0
  /\ pc' = "read"
  /\ UNCHANGED <<sendVars, recvVars, peerVars, allocFails, result>>

\* Mutant of RecvReady: returns the packet without consuming it.
RecvPeeks ==
  /\ pc = "recv" /\ in.size > 0
  /\ HeadComplete /\ ~HeadOversized
  /\ Return(taken + 1)
  /\ UNCHANGED <<sendVars, recvVars, peerVars, allocFails>>

RecvReady ==
  /\ pc = "recv" /\ in.size > 0
  /\ HeadComplete /\ ~HeadOversized
  /\ in' = Decr(in, replies[taken + 1].end - HeadStart)
  /\ taken' = taken + 1
  /\ Return(taken + 1)
  /\ UNCHANGED <<sendVars, rcvd, peerVars, allocFails>>

\* Mutant of RecvOversized: skips the packet, so that the link goes on.
RecvSkipsOversized ==
  /\ pc = "recv" /\ in.size > 0
  /\ HeadOversized /\ HeadComplete
  /\ in' = Decr(in, replies[taken + 1].end - HeadStart)
  /\ taken' = taken + 1
  /\ Return(0)
  /\ UNCHANGED <<sendVars, rcvd, peerVars, allocFails>>

RecvOversized ==
  /\ pc = "recv" /\ in.size > 0
  /\ HeadOversized
  /\ Return(0)
  /\ UNCHANGED <<sendVars, recvVars, peerVars, allocFails>>

HeadPartial == in.size > 0 /\ ~HeadComplete /\ ~HeadOversized

Full(b) == Space(b) = 0
MustGrow == Full(in) /\ Full(Nice(in))

\* Mutant of RecvPartial: nice() alone is trusted to make room.
RecvPartialNeverGrows ==
  /\ pc = "recv" /\ HeadPartial
  /\ in' = IF Full(in) THEN Nice(in) ELSE in
  /\ pc' = "read"
  /\ UNCHANGED <<sendVars, rcvd, taken, peerVars, allocFails, result>>

RecvPartial ==
  /\ pc = "recv" /\ HeadPartial
  /\ MustGrow => CanGrow(in)
  /\ in' = IF MustGrow THEN Grow(Nice(in)) ELSE IF Full(in) THEN Nice(in) ELSE in
  /\ pc' = "read"
  /\ UNCHANGED <<sendVars, rcvd, taken, peerVars, allocFails, result>>

RecvNoRoom ==
  /\ pc = "recv" /\ HeadPartial
  /\ MustGrow /\ GrowFails(in)
  /\ in' = Nice(in)
  /\ Return(0)
  /\ UNCHANGED <<sendVars, rcvd, taken, peerVars>>
-----------------------------------------------------------------------------
(* Link::read *)

\* Mutant of ReadData: goes on to the end of the stream and returns its 0.
ReadToEnd(k) ==
  /\ pc = "read"
  /\ \E g \in {in, Grow(in)} :
       /\ LazilyGrown(in, g)
       /\ k <= Space(Nice(g))
       /\ in' = Incr(Nice(g), k)
  /\ k \in 1..(avail - rcvd)
  /\ rcvd' = rcvd + k
  /\ IF k = avail - rcvd /\ peer = "closed" THEN Return(0)
     ELSE pc' = "recv" /\ UNCHANGED result
  /\ UNCHANGED <<sendVars, taken, peerVars>>

ReadData(k) ==
  /\ pc = "read"
  /\ \E g \in {in, Grow(in)} :
       /\ LazilyGrown(in, g)
       /\ k <= Space(Nice(g))
       /\ in' = Incr(Nice(g), k)
  /\ k \in 1..(avail - rcvd)
  /\ rcvd' = rcvd + k
  /\ pc' = "recv"
  /\ UNCHANGED <<sendVars, taken, peerVars, result>>

\* read() returns 0 at the end of the stream, and also, without a system call,
\* when the buffer has no room; -1 once the connection is reset.
ReadFails ==
  /\ pc = "read"
  /\ \E g \in {in, Grow(in)} :
       /\ LazilyGrown(in, g)
       /\ in' = Nice(g)
       /\ Full(Nice(g)) \/ (avail = rcvd /\ peer # "up")
  /\ Return(0)
  /\ UNCHANGED <<sendVars, rcvd, taken, peerVars>>
-----------------------------------------------------------------------------
(* The server and the network: not under src/, seen only through the socket *)

StreamEnd == IF replies = <<>> THEN 0 ELSE replies[Len(replies)].end

\* The server executes the next terminated packet and answers it, whatever
\* records it holds (a malformed command is answered client_error).
ServerExecute(p) ==
  /\ peer = "up"
  /\ Len(replies) < Len(sent)
  /\ sent[Len(replies) + 1].end <= flushed
  /\ replies' = Append(replies, [end  |-> StreamEnd + p.len,
                                 over |-> IF p.over = 0 THEN 0
                                          ELSE StreamEnd + p.over])
  /\ avail' = StreamEnd + p.len
  /\ UNCHANGED <<pc, sendVars, recvVars, peer, allocFails, result>>

\* The connection ends; any part of what was not read yet may be lost.
Disconnect(how) ==
  /\ \/ peer = "up"
     \/ peer = "closed" /\ how = "reset"
  /\ peer' = how
  /\ avail' \in rcvd..avail
  /\ UNCHANGED <<pc, sendVars, recvVars, replies, allocFails, result>>
-----------------------------------------------------------------------------
Init ==
  /\ pc = "idle" /\ req = <<>> /\ idx = 1
  /\ out = NewBuffer(ZeroBuf) /\ in = NewBuffer(ZeroBuf)
  /\ issued = 0 /\ held = 0 /\ intact = TRUE /\ sent = <<>> /\ flushed = 0
  /\ replies = <<>> /\ avail = 0 /\ rcvd = 0 /\ taken = 0
  /\ peer = "up" /\ allocFails = 0
  /\ result = [req |-> 0, reply |-> 0]

ClientStep ==
  \/ AppendPiece \/ AppendGrow \/ AppendFails
  \/ (\E k \in 1..out.size : Write(k)) \/ WriteFails \/ Flushed
  \/ RecvEmpty \/ RecvReady \/ RecvOversized \/ RecvPartial \/ RecvNoRoom
  \/ (\E k \in 1..(avail - rcvd) : ReadData(k)) \/ ReadFails

ServerStep == \E p \in Replies : ServerExecute(p)

Next ==
  \/ \E r \in Requests : Issue(r)
  \/ ClientStep
  \/ ServerStep
  \/ \E how \in {"closed", "reset"} : Disconnect(how)

Spec == Init /\ [][Next]_vars

\* The calling thread runs, the kernel writes and delivers, and a server that
\* stays connected answers what it was sent.  Nobody has to issue a request,
\* and nobody has to disconnect.
FairSpec == Spec /\ WF_vars(ClientStep) /\ WF_vars(ServerStep)
-----------------------------------------------------------------------------
SentPackets == [end : Nat, req : Nat, whole : BOOLEAN]
ReplyPackets == [end : Nat, over : Nat]

TypeOK ==
  /\ pc \in {"idle", "append", "flush", "recv", "read"}
  /\ req \in Requests \cup {<<>>}
  /\ idx \in Nat
  /\ out \in Buffers /\ in \in Buffers
  /\ issued \in Nat /\ held \in Nat /\ intact \in BOOLEAN /\ flushed \in Nat
  /\ sent \in Seq(SentPackets)
  /\ replies \in Seq(ReplyPackets)
  /\ avail \in Nat /\ rcvd \in Nat /\ taken \in Nat
  /\ peer \in {"up", "closed", "reset"}
  /\ allocFails \in Nat
  /\ result \in [req : Nat, reply : Nat]

(* A reply handed to a call is the reply to the packet that ended with     *)
(* that same call, not one left over from an earlier call: link.h promises *)
(* of request() "send a request to the server, and wait until a response   *)
(* received", and Link::response() returns the first packet it finds.      *)
ReplyMatches ==
  result.reply > 0 => /\ result.reply <= Len(sent)
                      /\ sent[result.reply].req = result.req

(* ... and that packet carried every record of the request: send() drops a *)
(* record for which append_record() finds no memory, and still returns 0.  *)
(* With memory for a request wherever in the block nice() lets it start,   *)
(* that never happens, however many calls the block has served.            *)
AnswersWholeRequest == result.reply > 0 => sent[result.reply].whole

(* The connection fails for good: there is no reconnect and nothing is     *)
(* resynchronised, so after a NULL no later call may claim success, since  *)
(* its reply could not be told from the one still owed to the failed call. *)
FailStop == [][Failed => result'.reply = 0]_vars

(* Between calls nothing is left behind: everything appended was written,  *)
(* everything received was consumed, and the server has executed exactly   *)
(* the calls that returned (link.cpp keeps both buffers across calls).     *)
Quiescent ==
  pc = "idle" /\ ~Failed =>
    /\ out.size = 0 /\ in.size = 0
    /\ rcvd = StreamEnd
    /\ Len(replies) = issued /\ Len(sent) = issued

(* read() returns 0 both at the end of the stream and when it finds no     *)
(* room, and response() takes either for a dead connection: read() must    *)
(* never be entered with a buffer that nice() leaves full.                 *)
NoSpuriousEof == pc = "read" => ~Full(Nice(in))

(* A call fails only if the reply it waits for is not there: NULL is never *)
(* returned with a whole reply in the input buffer (link.h: "vector<Bytes>:*)
(* response ready"), not even when the connection ends right behind it.    *)
ReadyIsReturned ==
  [][result'.req > result.req /\ result'.reply = 0
       => ~HeadComplete' \/ HeadOversized']_vars

(* The buffers are reused over the whole life of a connection and never    *)
(* shrink.  They grow only when the bytes really held fill half of them,   *)
(* so however long a connection lives its memory is bounded by a multiple  *)
(* of its longest packet.                                                  *)
GrowthStep ==
  /\ out'.total > out.total =>
       out.total = ZeroBuf \/ 2 * (out.size + req[idx].need) >= out.total
  /\ in'.total > in.total =>
       in.total = ZeroBuf \/ 2 * in.size >= in.total

GrowsOnlyWhenHalfFull == [][GrowthStep]_vars

(* Every call returns: response() has no timeout, so this rests on a       *)
(* server that answers each packet it can delimit, or disconnects, and on  *)
(* the client having delimited it.                                         *)
Returns == pc # "idle" ~> pc = "idle"
-----------------------------------------------------------------------------
(* The inductive invariant behind ReplyMatches, FailStop and Quiescent.    *)

\* What an int can address is enough for the block append() may ask for.
Before(r, i) == IF i = 1 THEN 0 ELSE r[i - 1].end

EnoughMemory ==
  /\ MaxAllocFail = 0
  /\ \A r \in Requests : \A i \in 1..Len(r) :
       4 * (Before(r, i) + r[i].need) <= MaxInt

\* Why no later call can succeed once one has failed: the request cannot be
\* written, the reply that is due will not arrive, or it can be received but
\* never parsed.  Each of these, once true, stays true.
Stuck ==
  \/ peer = "reset" /\ out.size > 0 /\ pc \notin {"recv", "read"}
  \/ peer # "up" /\ (taken < Len(replies) => avail < replies[taken + 1].end)
  \/ HeadOversized
  \/ HeadPartial /\ MustGrow /\ ~CanGrow(in) /\ pc # "read"

\* Before the first failure every call has been answered in its turn.
InStep ==
  /\ taken = result.req /\ result.reply = result.req
  /\ Len(sent) = IF pc = "append" THEN taken ELSE issued
  /\ \A j \in 1..Len(sent) : sent[j].req = j /\ sent[j].whole
  /\ intact = TRUE
  /\ held = IF pc = "append" THEN idx - 1 ELSE 0
  /\ pc = "append" => out.size = Before(req, idx)
  /\ pc \in {"idle", "recv", "read"} => out.size = 0
  /\ pc \in {"idle", "append"} => in.size = 0

Calls ==
  /\ allocFails = 0
  /\ pc # "idle" => issued > 0
  /\ result.req = IF pc = "idle" THEN issued ELSE issued - 1
  /\ Len(replies) <= Len(sent)
  /\ Len(sent) <= IF pc = "append" THEN issued - 1 ELSE issued
  /\ Failed => Stuck
  /\ ~Failed => InStep
-----------------------------------------------------------------------------
(* The connection implements the abstract channel.                         *)
Chan == INSTANCE Channel WITH executed <- Len(replies),
                              busy     <- pc # "idle",
                              broken   <- Failed

ImplementsChannel == Chan!Spec
=============================================================================
