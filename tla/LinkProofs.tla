----------------------------- MODULE LinkProofs -----------------------------
(***************************************************************************)
(* Safety of one connection, over a blocking and a non-blocking socket, for *)
(* every set of requests and replies and every buffer size.  The invariant  *)
(* has two layers.  Streams holds whatever memory does and says where the   *)
(* two byte streams stand.  Calls needs memory and says which call they     *)
(* serve: with enough memory a connection answers every call with its own   *)
(* reply until the first NULL, and with NULL ever after.  Its heart is      *)
(* Stuck: the four ways a call can fail each leave the connection in a      *)
(* condition no later call can leave, which is why nothing has to be        *)
(* resynchronised.  The last part is about calls on a non-blocking socket,  *)
(* which may return before their reply is there.                            *)
(***************************************************************************)
EXTENDS LinkNoBlock, SequenceTheorems, TLAPS
-----------------------------------------------------------------------------
(* The buffer operators, for every value of the block sizes.                *)

(* nice() copies the run to the front with memcpy(), which is undefined     *)
(* when source and destination overlap: it moves the run only if it starts  *)
(* past the middle, and then the two ranges are disjoint (bytes.cpp:21-22). *)
THEOREM NiceMovesDisjoint ==
  ASSUME NEW b \in Buffers, Nice(b) # b
  PROVE  /\ Nice(b).off + Nice(b).size <= b.off
         /\ Nice(b).size = b.size /\ Nice(b).total = b.total
  BY DEF Nice, Buffers

(* nice() leaves a buffer whose run does not start past the middle; so when *)
(* it leaves no room, the run fills half of the block (link.cpp:184,353).   *)
THEOREM NiceMakesRoom ==
  ASSUME NEW b \in Buffers
  PROVE  /\ Nice(b) \in Buffers
         /\ 2 * Nice(b).off <= b.total
         /\ Nice(b).size = b.size /\ Nice(b).total = b.total
         /\ Space(b) <= Space(Nice(b))
         /\ b.size = 0 => 0 < Space(Nice(b))
         /\ Space(Nice(b)) = 0 => b.total <= 2 * b.size
  BY DEF Nice, Buffers, Space

(* grow() always enlarges the block, keeps what it holds, and makes room;   *)
(* the int it computes cannot overflow before MaxInt / 2 (bytes.cpp:27-45). *)
THEOREM GrowMakesRoom ==
  ASSUME NEW b \in Buffers
  PROVE  /\ Grow(b) \in Buffers
         /\ b.total < Grow(b).total
         /\ Grow(b).off = b.off /\ Grow(b).size = b.size
         /\ 0 < Space(Grow(b))
         /\ 2 * b.total <= MaxInt => CanGrow(b)
  BY BufferAssumption, SMTT(30) DEF Grow, GrownTotal, CanGrow, Buffers, Space

\* Appending within the space, and consuming within the size.
LEMMA IncrDecr ==
  ASSUME NEW b \in Buffers, NEW n \in Nat
  PROVE  /\ n <= Space(b) => Incr(b, n) \in Buffers
         /\ n <= b.size => Decr(b, n) \in Buffers
<1>1. ASSUME n <= Space(b) PROVE Incr(b, n) \in Buffers
  <2>1. Incr(b, n) = [off |-> b.off, size |-> b.size + n, total |-> b.total]
    BY DEF Incr, Buffers
  <2> QED  BY <1>1, <2>1 DEF Buffers, Space
<1>2. ASSUME n <= b.size PROVE Decr(b, n) \in Buffers
  BY <1>2 DEF Decr, Buffers
<1> QED  BY <1>1, <1>2

LEMMA NewBufferType ==
  ASSUME NEW n \in Nat, 0 < n
  PROVE  NewBuffer(n) \in Buffers
  BY DEF NewBuffer, Buffers
-----------------------------------------------------------------------------
(* The streams.                                                             *)

\* The replies lie one after the other in the stream of the server.
RepliesInOrder ==
  /\ \A i \in 1..Len(replies) : replies[i].end > 0
  /\ \A i, j \in 1..Len(replies) : i < j => replies[i].end < replies[j].end

\* Where the streams stand, whatever the call is doing.
Placed ==
  /\ req \in Requests \cup {<<>>} /\ idx \in Nat
  /\ out \in Buffers /\ in \in Buffers
  /\ issued \in Nat /\ held \in Nat /\ intact \in BOOLEAN /\ flushed \in Nat
  /\ sent \in Seq(SentPackets)
  /\ replies \in Seq(ReplyPackets)
  /\ avail \in Nat /\ rcvd \in Nat /\ taken \in Nat
  /\ peer \in {"up", "closed", "reset"}
  /\ allocFails \in Nat
  /\ result \in [req : Nat, reply : Nat]
  /\ RepliesInOrder
  /\ taken <= Len(replies)
  /\ rcvd = HeadStart + in.size
  /\ rcvd <= avail /\ avail <= StreamEnd

\* ... and what the call may rely on at each of its steps.
Streams ==
  /\ TypeOK
  /\ pc = "append" => req \in Requests /\ idx \in 1..Len(req)
  /\ RepliesInOrder
  /\ taken <= Len(replies)
  /\ rcvd = HeadStart + in.size
  /\ rcvd <= avail /\ avail <= StreamEnd
  /\ NoSpuriousEof
  /\ pc = "read" => ~HeadComplete

\* write() ends with nice(): what is left in the output starts near the front.
OutputNear == 2 * out.off <= out.total
-----------------------------------------------------------------------------
\* Streams in two parts: what holds anywhere, and what pc adds.
LEMMA StreamsParts ==
  Streams <=> /\ Placed
              /\ pc \in {"idle", "append", "flush", "recv", "read"}
              /\ pc = "append" => req \in Requests /\ idx \in 1..Len(req)
              /\ NoSpuriousEof
              /\ pc = "read" => ~HeadComplete
  BY DEF Streams, Placed, TypeOK

\* The facts about the current piece that the appending actions rest on.
LEMMA PieceFacts ==
  ASSUME Streams, pc = "append"
  PROVE  /\ req \in Seq(Pieces) /\ Len(req) \in Nat
         /\ idx \in 1..Len(req) /\ req[idx].need \in Nat
         /\ Used(req, idx) \in Nat /\ 0 < Used(req, idx)
         /\ Used(req, idx) <= req[idx].need
         /\ idx = Len(req) => Used(req, idx) = 1
<1>1. req \in Requests /\ idx \in 1..Len(req)
  BY DEF Streams
<1>2. req \in Seq(Pieces) /\ Len(req) \in Nat
  BY <1>1, LinkAssumption
<1>3. req[idx] \in Pieces
  BY <1>1, <1>2, ElementOfSeq
<1>4. idx # 1 => req[idx - 1] \in Pieces
  <2>1. idx # 1 => idx - 1 \in 1..Len(req)  BY <1>1, <1>2
  <2> QED  BY <1>2, <2>1, ElementOfSeq
<1>5. 0 < Used(req, idx) /\ Used(req, idx) <= req[idx].need
  BY <1>1, LinkAssumption
<1>6. Used(req, idx) \in Nat
  <2>1. Used(req, idx) \in Int
    BY <1>1, <1>3, <1>4 DEF Used, Pieces
  <2> QED  BY <1>5, <2>1
<1>7. idx = Len(req) => Used(req, idx) = 1
  BY <1>1, LinkAssumption
<1>8. req[idx].need \in Nat
  BY <1>3 DEF Pieces
<1> QED  BY <1>1, <1>2, <1>5, <1>6, <1>7, <1>8

\* What LazilyGrown can leave behind.
LEMMA LazilyGrownType ==
  ASSUME NEW b \in Buffers, NEW g, LazilyGrown(b, g), allocFails \in Nat,
         MaxAllocFail \in Nat
  PROVE  /\ g \in Buffers /\ g.off = b.off /\ g.size = b.size
         /\ b.total <= g.total
         /\ b.total < g.total => b.total = ZeroBuf
         /\ allocFails' \in Nat
<1>1. /\ Grow(b) \in Buffers /\ Grow(b).off = b.off /\ Grow(b).size = b.size
      /\ b.total < Grow(b).total
  BY GrowMakesRoom
<1>2. b.total \in Nat
  BY DEF Buffers
<1>3. CASE g = b
  BY <1>2, <1>3 DEF LazilyGrown, RunsOut
<1>4. CASE g = Grow(b) /\ b.total = ZeroBuf /\ UNCHANGED allocFails
  <2>1. Grow(b).total \in Nat  BY <1>1 DEF Buffers
  <2> QED  BY <1>1, <1>2, <1>4, <2>1
<1> QED  BY <1>3, <1>4 DEF LazilyGrown

LEMMA GrowFailsType ==
  ASSUME NEW b, GrowFails(b), allocFails \in Nat
  PROVE  allocFails' \in Nat
  BY DEF GrowFails, RunsOut
-----------------------------------------------------------------------------
LEMMA StreamsInit == Init => Streams
<1> SUFFICES ASSUME Init PROVE Streams
  OBVIOUS
<1>1. NewBuffer(ZeroBuf) \in Buffers
  BY BufferAssumption, NewBufferType
<1>2. TypeOK
  BY <1>1 DEF Init, TypeOK
<1>3. in.size = 0
  BY DEF Init, NewBuffer
<1> QED
  BY <1>2, <1>3, BufferAssumption
  DEF Init, Streams, RepliesInOrder, HeadStart, StreamEnd, NoSpuriousEof

\* Where the first packet of the input buffer lies.
LEMMA PlacedFacts ==
  ASSUME Placed
  PROVE  /\ replies \in Seq(ReplyPackets) /\ Len(replies) \in Nat /\ taken \in Nat
         /\ \A i \in 1..Len(replies) : replies[i].end \in Nat /\ replies[i].over \in Nat
         /\ HeadStart \in Nat /\ StreamEnd \in Nat /\ HeadStart <= StreamEnd
         /\ taken < Len(replies) => HeadStart < replies[taken + 1].end
<1>1. replies \in Seq(ReplyPackets) /\ Len(replies) \in Nat /\ taken \in Nat
  BY DEF Placed
<1>2. \A i \in 1..Len(replies) : replies[i].end \in Nat /\ replies[i].over \in Nat
  <2> SUFFICES ASSUME NEW i \in 1..Len(replies)
               PROVE replies[i].end \in Nat /\ replies[i].over \in Nat
    OBVIOUS
  <2>1. replies[i] \in ReplyPackets  BY <1>1, ElementOfSeq
  <2> QED  BY <2>1 DEF ReplyPackets
<1>3. taken <= Len(replies)
  BY DEF Placed
<1>4. HeadStart \in Nat /\ (taken > 0 => HeadStart = replies[taken].end)
  BY <1>1, <1>2, <1>3 DEF HeadStart
<1>5. StreamEnd \in Nat /\ (Len(replies) > 0 => StreamEnd = replies[Len(replies)].end)
  BY <1>1, <1>2 DEF StreamEnd
<1>6. HeadStart <= StreamEnd
  <2>1. CASE taken = 0  BY <1>5, <2>1 DEF HeadStart
  <2>2. CASE taken > 0 /\ taken = Len(replies)  BY <1>4, <1>5, <2>2
  <2>3. CASE taken > 0 /\ taken < Len(replies)
    BY <1>1, <1>2, <1>4, <1>5, <2>3 DEF Placed, RepliesInOrder
  <2> QED  BY <1>1, <1>3, <2>1, <2>2, <2>3
<1>7. taken < Len(replies) => HeadStart < replies[taken + 1].end
  <2>1. CASE taken = 0
    BY <1>1, <2>1 DEF HeadStart, Placed, RepliesInOrder
  <2>2. CASE taken > 0
    BY <1>1, <1>2, <1>4, <2>2 DEF Placed, RepliesInOrder
  <2> QED  BY <1>1, <2>1, <2>2
<1> QED  BY <1>1, <1>2, <1>4, <1>5, <1>6, <1>7

LEMMA HeadFacts ==
  ASSUME Streams
  PROVE  /\ replies \in Seq(ReplyPackets) /\ Len(replies) \in Nat /\ taken \in Nat
         /\ \A i \in 1..Len(replies) : replies[i].end \in Nat /\ replies[i].over \in Nat
         /\ HeadStart \in Nat /\ StreamEnd \in Nat /\ HeadStart <= StreamEnd
         /\ taken < Len(replies) => HeadStart < replies[taken + 1].end
  BY PlacedFacts, StreamsParts

\* Sending a request touches neither the replies nor the input buffer.
LEMMA StreamsSend ==
  ASSUME Streams,
         \/ \E r \in Requests : Issue(r)
         \/ AppendPiece \/ AppendGrow \/ AppendFails
  PROVE  Streams'
<1> USE DEF recvVars, peerVars
<1>1. CASE \E r \in Requests : Issue(r)
  <2> PICK r \in Requests : Issue(r)  BY <1>1
  <2>1. r \in Seq(Pieces) /\ 1 \in 1..Len(r)  BY LinkAssumption
  <2>2. TypeOK'  BY <2>1 DEF Streams, TypeOK, Issue
  <2> QED
    BY <2>1, <2>2 DEF Streams, Issue, RepliesInOrder, HeadStart, StreamEnd, NoSpuriousEof
<1>2. CASE AppendPiece
  <2> DEFINE used == Used(req, idx)
  <2>1. pc = "append" /\ req[idx].need <= Space(out) /\ out' = Incr(out, used)
    BY <1>2 DEF AppendPiece, Fits
  <2>2. out \in Buffers /\ idx \in Nat /\ flushed \in Nat /\ issued \in Nat
        /\ held \in Nat /\ intact \in BOOLEAN /\ sent \in Seq(SentPackets)
    BY DEF Streams, TypeOK
  <2>3. out' \in Buffers /\ out'.off = out.off /\ out'.total = out.total
    <3>1. used \in Nat /\ used <= Space(out)
      BY <2>1, <2>2, PieceFacts DEF Space, Buffers
    <3>2. Incr(out, used) \in Buffers  BY <2>2, <3>1, IncrDecr
    <3> QED  BY <2>1, <2>2, <3>2 DEF Incr, Buffers
  <2>4. sent' \in Seq(SentPackets)
    <3>1. [end |-> flushed + out.size + 1, req |-> issued, whole |-> intact]
            \in SentPackets
      BY <2>2 DEF Buffers, SentPackets
    <3> QED  BY <1>2, <2>2, <3>1 DEF AppendPiece
  <2>5. held' \in Nat /\ intact' \in BOOLEAN
    <3>1. CASE idx = Len(req)  BY <1>2, <3>1 DEF AppendPiece
    <3>2. CASE idx # Len(req)
      <4>1. held' = held + 1 /\ intact' = intact  BY <1>2, <3>2 DEF AppendPiece
      <4>2. held' \in Nat  BY <2>2, <4>1
      <4> QED  BY <2>2, <4>1, <4>2
    <3> QED  BY <3>1, <3>2
  <2>6. /\ idx' \in Nat /\ pc' \in {"append", "flush"}
        /\ pc' = "append" => idx' \in 1..Len(req)
    BY <1>2, <2>1, PieceFacts DEF AppendPiece, NextPiece
  <2>7. /\ UNCHANGED <<req, issued, flushed>>
        /\ UNCHANGED <<recvVars, peerVars, allocFails, result>>
    BY <1>2 DEF AppendPiece
  <2>8. TypeOK'  BY <2>3, <2>4, <2>5, <2>6, <2>7 DEF Streams, TypeOK
  <2> QED
    BY <2>1, <2>3, <2>6, <2>7, <2>8
    DEF Streams, RepliesInOrder, HeadStart, StreamEnd, NoSpuriousEof
<1>3. CASE AppendGrow
  <2>1. pc = "append" /\ pc' = "append" /\ out' = Grow(out) /\ out \in Buffers
    BY <1>3 DEF AppendGrow, Streams, TypeOK
  <2>2. out' \in Buffers /\ out'.off = out.off /\ out.total < out'.total
    BY <2>1, GrowMakesRoom
  <2>3. TypeOK'  BY <1>3, <2>2 DEF Streams, TypeOK, AppendGrow
  <2> QED
    BY <1>3, <2>1, <2>2, <2>3
    DEF Streams, AppendGrow, RepliesInOrder, HeadStart, StreamEnd, NoSpuriousEof, Buffers
<1>4. CASE AppendFails
  <2>1. allocFails' \in Nat
    BY <1>4, GrowFailsType DEF AppendFails, Streams, TypeOK
  <2>2. /\ idx' \in Nat /\ pc' \in {"append", "flush"}
        /\ pc' = "append" => idx' \in 1..Len(req)
    BY <1>4, PieceFacts DEF AppendFails, NextPiece
  <2>3. TypeOK'  BY <1>4, <2>1, <2>2 DEF Streams, TypeOK, AppendFails
  <2> QED
    BY <1>4, <2>2, <2>3
    DEF Streams, AppendFails, RepliesInOrder, HeadStart, StreamEnd, NoSpuriousEof
<1> QED  BY <1>1, <1>2, <1>3, <1>4

LEMMA StreamsFlush ==
  ASSUME Streams,
         (\E k \in 1..out.size : Write(k)) \/ WriteFails \/ Flushed
  PROVE  Streams'
<1> USE DEF recvVars, peerVars
<1> out \in Buffers /\ allocFails \in Nat /\ MaxAllocFail \in Nat /\ flushed \in Nat
  BY LinkAssumption DEF Streams, TypeOK
<1>1. CASE \E k \in 1..out.size : Write(k)
  <2> PICK k \in 1..out.size : Write(k)  BY <1>1
  <2> PICK g : LazilyGrown(out, g) /\ out' = Nice(Decr(g, k))
    BY DEF Write
  <2>1. g \in Buffers /\ g.size = out.size /\ allocFails' \in Nat
    BY LazilyGrownType
  <2>2. Decr(g, k) \in Buffers  BY <2>1, IncrDecr DEF Buffers
  <2>3. out' \in Buffers
    BY <2>2, NiceMakesRoom
  <2>4. k \in Nat  BY DEF Buffers
  <2>5. TypeOK'  BY <2>1, <2>3, <2>4 DEF Streams, TypeOK, Write
  <2> QED
    BY <2>3, <2>5
    DEF Streams, Write, RepliesInOrder, HeadStart, StreamEnd, NoSpuriousEof
<1>2. CASE WriteFails
  <2> PICK g : LazilyGrown(out, g) /\ out' = g
    BY <1>2 DEF WriteFails
  <2>1. /\ out' \in Buffers /\ out'.off = out.off /\ out.total <= out'.total
        /\ allocFails' \in Nat
    BY LazilyGrownType
  <2>2. TypeOK'  BY <1>2, <2>1 DEF Streams, TypeOK, WriteFails, Return
  <2> QED
    BY <1>2, <2>1, <2>2
    DEF Streams, WriteFails, Return, RepliesInOrder, HeadStart, StreamEnd,
        NoSpuriousEof, Buffers
<1>3. CASE Flushed
  BY <1>3
  DEF Streams, TypeOK, Flushed, sendVars, RepliesInOrder, HeadStart, StreamEnd,
      NoSpuriousEof
<1> QED  BY <1>1, <1>2, <1>3

LEMMA StreamsRecv ==
  ASSUME Streams,
         RecvEmpty \/ RecvReady \/ RecvOversized \/ RecvPartial \/ RecvNoRoom
  PROVE  Streams'
<1> USE DEF sendVars, peerVars
<1> in \in Buffers /\ allocFails \in Nat /\ rcvd \in Nat /\ taken \in Nat
  BY DEF Streams, TypeOK
<1>1. CASE RecvEmpty
  <2>1. ~Full(Nice(in))
    BY <1>1, NiceMakesRoom DEF RecvEmpty, Full
  <2>2. in' = in  BY <1>1 DEF RecvEmpty, recvVars
  <2>3. NoSpuriousEof'  BY <2>1, <2>2 DEF NoSpuriousEof
  <2>4. ~HeadComplete /\ HeadComplete' = HeadComplete
    <3>1. rcvd = HeadStart  BY <1>1, HeadFacts DEF RecvEmpty, Streams
    <3>2. ~HeadComplete  BY <3>1, HeadFacts DEF HeadComplete
    <3>3. HeadComplete' = HeadComplete
      BY <1>1 DEF RecvEmpty, recvVars, HeadComplete
    <3> QED  BY <3>2, <3>3
  <2> QED
    BY <1>1, <2>3, <2>4
    DEF Streams, TypeOK, RecvEmpty, recvVars, RepliesInOrder, HeadStart, StreamEnd
<1>2. CASE RecvReady
  <2> DEFINE len == replies[taken + 1].end - HeadStart
  <2>1. /\ taken < Len(replies) /\ replies[taken + 1].end <= rcvd
        /\ in' = Decr(in, len) /\ taken' = taken + 1 /\ pc' = "idle"
        /\ UNCHANGED <<sendVars, rcvd, peerVars, allocFails>>
        /\ result' = [req |-> issued, reply |-> taken + 1]
    BY <1>2 DEF RecvReady, HeadComplete, Return
  <2>2. /\ replies[taken + 1].end \in Nat /\ HeadStart \in Nat
        /\ HeadStart < replies[taken + 1].end
    BY <2>1, HeadFacts
  <2>3. len \in Nat /\ len <= in.size
    BY <2>1, <2>2 DEF Streams, Buffers
  <2>4. in' \in Buffers  BY <2>1, <2>3, IncrDecr
  <2>5. in'.size = in.size - len
    BY <2>1 DEF Decr
  <2>6. TypeOK'  BY <2>1, <2>4 DEF Streams, TypeOK
  <2>7. HeadStart' = replies[taken + 1].end
    BY <2>1 DEF HeadStart
  <2>8. rcvd' = HeadStart' + in'.size
    BY <2>1, <2>2, <2>5, <2>7 DEF Streams, Buffers
  <2>9. taken' <= Len(replies)  BY <2>1, HeadFacts
  <2> QED
    BY <2>1, <2>6, <2>8, <2>9 DEF Streams, RepliesInOrder, StreamEnd, NoSpuriousEof
<1>3. CASE RecvOversized
  BY <1>3
  DEF Streams, TypeOK, RecvOversized, recvVars, Return, RepliesInOrder, HeadStart,
      StreamEnd, NoSpuriousEof
<1>4. CASE RecvPartial
  <2>1. Nice(in) \in Buffers /\ Nice(in).size = in.size
    BY NiceMakesRoom
  <2>2. Grow(Nice(in)) \in Buffers /\ Grow(Nice(in)).size = in.size
        /\ 0 < Space(Grow(Nice(in)))
    BY <2>1, GrowMakesRoom
  <2>3. in' \in Buffers /\ in'.size = in.size /\ Space(in') # 0
    BY <1>4, <2>1, <2>2 DEF RecvPartial, MustGrow, Full
  <2>4. ~Full(Nice(in'))
    BY <2>3, NiceMakesRoom DEF Full, Space, Buffers
  <2>5. TypeOK'  BY <1>4, <2>3 DEF Streams, TypeOK, RecvPartial
  <2>6. NoSpuriousEof'  BY <2>4 DEF NoSpuriousEof, Full, Space, Nice
  <2> QED
    BY <1>4, <2>3, <2>5, <2>6
    DEF Streams, RecvPartial, HeadPartial, HeadComplete, RepliesInOrder, HeadStart,
        StreamEnd
<1>5. CASE RecvNoRoom
  <2>1. in' \in Buffers /\ in'.size = in.size
    BY <1>5, NiceMakesRoom DEF RecvNoRoom
  <2>2. allocFails' \in Nat  BY <1>5, GrowFailsType DEF RecvNoRoom
  <2>3. TypeOK'  BY <1>5, <2>1, <2>2 DEF Streams, TypeOK, RecvNoRoom, Return
  <2> QED
    BY <1>5, <2>1, <2>3
    DEF Streams, RecvNoRoom, Return, RepliesInOrder, HeadStart, StreamEnd, NoSpuriousEof
<1> QED  BY <1>1, <1>2, <1>3, <1>4, <1>5

LEMMA StreamsRead ==
  ASSUME Streams,
         (\E k \in 1..(avail - rcvd) : ReadData(k)) \/ ReadFails
  PROVE  Streams'
<1> USE DEF sendVars, peerVars
<1> in \in Buffers /\ allocFails \in Nat /\ MaxAllocFail \in Nat
      /\ rcvd \in Nat /\ avail \in Nat
  BY LinkAssumption DEF Streams, TypeOK
<1>1. CASE \E k \in 1..(avail - rcvd) : ReadData(k)
  <2> PICK k \in 1..(avail - rcvd) : ReadData(k)  BY <1>1
  <2> PICK g : /\ LazilyGrown(in, g)
               /\ k <= Space(Nice(g))
               /\ in' = Incr(Nice(g), k)
    BY DEF ReadData
  <2>1. g \in Buffers /\ g.size = in.size /\ allocFails' \in Nat
    BY LazilyGrownType
  <2>2. Nice(g) \in Buffers /\ Nice(g).size = in.size
    BY <2>1, NiceMakesRoom
  <2>3. in' \in Buffers  BY <2>2, IncrDecr
  <2>4. in'.size = in.size + k  BY <2>2 DEF Incr, Buffers
  <2>5. TypeOK'  BY <2>1, <2>3 DEF Streams, TypeOK, ReadData
  <2>6. rcvd' = HeadStart + in'.size /\ HeadStart' = HeadStart
    <3>1. rcvd' = rcvd + k /\ k \in Nat  BY DEF ReadData
    <3>2. in.size \in Nat /\ HeadStart \in Nat  BY HeadFacts DEF Buffers
    <3>3. rcvd' = HeadStart + in'.size
      BY <2>4, <3>1, <3>2 DEF Streams
    <3>4. HeadStart' = HeadStart  BY DEF ReadData, HeadStart
    <3> QED  BY <3>3, <3>4
  <2> QED
    BY <2>5, <2>6
    DEF Streams, ReadData, RepliesInOrder, StreamEnd, NoSpuriousEof
<1>2. CASE ReadFails
  <2> PICK g : LazilyGrown(in, g) /\ in' = Nice(g)
    BY <1>2 DEF ReadFails
  <2>1. g \in Buffers /\ g.size = in.size /\ allocFails' \in Nat
    BY LazilyGrownType
  <2>2. in' \in Buffers /\ in'.size = in.size
    BY <2>1, NiceMakesRoom
  <2>3. TypeOK'  BY <1>2, <2>1, <2>2 DEF Streams, TypeOK, ReadFails, Return
  <2> QED
    BY <1>2, <2>2, <2>3
    DEF Streams, ReadFails, Return, RepliesInOrder, HeadStart, StreamEnd, NoSpuriousEof
<1> QED  BY <1>1, <1>2

\* The server's next reply begins where the last one ended.
LEMMA ReplyAppended ==
  ASSUME Placed, NEW p \in Replies, ServerExecute(p)
  PROVE  /\ p.len \in Nat /\ p.len > 0
         /\ replies' \in Seq(ReplyPackets)
         /\ Len(replies') = Len(replies) + 1
         /\ replies'[Len(replies) + 1].end = StreamEnd + p.len
         /\ \A i \in 1..Len(replies) : replies'[i] = replies[i]
<1> DEFINE mark == [end  |-> StreamEnd + p.len,
                    over |-> IF p.over = 0 THEN 0 ELSE StreamEnd + p.over]
<1>1. p.len \in Nat /\ p.over \in Nat /\ p.len > 0
  BY LinkAssumption
<1>2. mark \in ReplyPackets
  BY <1>1, PlacedFacts DEF ReplyPackets
<1>3. replies' = Append(replies, mark)
  BY DEF ServerExecute
<1> QED  BY <1>1, <1>2, <1>3, PlacedFacts

LEMMA PlacedPeer ==
  ASSUME Placed,
         ServerStep \/ \E how \in {"closed", "reset"} : Disconnect(how)
  PROVE  Placed'
<1> USE DEF sendVars, recvVars
<1>1. CASE ServerStep
  <2> PICK p \in Replies : ServerExecute(p)  BY <1>1 DEF ServerStep
  <2>1. p.len \in Nat /\ p.len > 0  BY ReplyAppended
  <2>2. avail' = StreamEnd + p.len  BY DEF ServerExecute
  <2>3. /\ replies' \in Seq(ReplyPackets)
        /\ Len(replies') = Len(replies) + 1
        /\ replies'[Len(replies) + 1].end = StreamEnd + p.len
        /\ \A i \in 1..Len(replies) : replies'[i] = replies[i]
    BY ReplyAppended
  <2>4. StreamEnd' = StreamEnd + p.len
    BY <2>3, PlacedFacts DEF StreamEnd
  <2>5. avail' \in Nat  BY <2>1, <2>2, PlacedFacts
  <2>6. \A i \in 1..Len(replies) : replies[i].end <= StreamEnd
    BY PlacedFacts DEF StreamEnd, Placed, RepliesInOrder
  <2>7. RepliesInOrder'
    <3>1. /\ StreamEnd + p.len > 0
          /\ \A i \in 1..Len(replies) : replies[i].end < StreamEnd + p.len
      BY <2>1, <2>6, PlacedFacts
    <3>2. \A i \in 1..Len(replies') : i \in 1..Len(replies) \/ i = Len(replies) + 1
      BY <2>3, PlacedFacts
    <3>3. \A i \in 1..Len(replies') : replies'[i].end > 0
      BY <2>3, <3>1, <3>2 DEF Placed, RepliesInOrder
    <3>4. ASSUME NEW i \in 1..Len(replies'), NEW j \in 1..Len(replies'), i < j
          PROVE  replies'[i].end < replies'[j].end
      <4>1. i \in 1..Len(replies)  BY <2>3, <3>2, <3>4, PlacedFacts
      <4>2. CASE j \in 1..Len(replies)
        BY <2>3, <3>4, <4>1, <4>2 DEF Placed, RepliesInOrder
      <4>3. CASE j = Len(replies) + 1
        BY <2>3, <3>1, <4>1, <4>3
      <4> QED  BY <3>2, <4>2, <4>3
    <3> QED  BY <3>3, <3>4 DEF RepliesInOrder
  <2>8. HeadStart' = HeadStart /\ taken' <= Len(replies')
    BY <2>3, PlacedFacts DEF ServerExecute, HeadStart, Placed
  <2>9. rcvd' <= avail' /\ avail' <= StreamEnd'
    BY <2>1, <2>2, <2>4, PlacedFacts DEF Placed, ServerExecute
  <2> QED
    BY <2>3, <2>5, <2>7, <2>8, <2>9 DEF Placed, ServerExecute
<1>2. CASE \E how \in {"closed", "reset"} : Disconnect(how)
  <2>1. avail' \in rcvd..avail /\ peer' \in {"closed", "reset"}
    BY <1>2 DEF Disconnect
  <2>2. UNCHANGED <<pc, sendVars, recvVars, replies, allocFails, result>>
    BY <1>2 DEF Disconnect
  <2>3. avail' \in Nat  BY <2>1 DEF Placed
  <2>4. rcvd' <= avail' /\ avail' <= StreamEnd
    BY <2>1, <2>2, PlacedFacts DEF Placed
  <2> QED
    BY <2>1, <2>2, <2>3, <2>4
    DEF Placed, RepliesInOrder, HeadStart, StreamEnd
<1> QED  BY <1>1, <1>2

LEMMA StreamsPeer ==
  ASSUME Streams,
         ServerStep \/ \E how \in {"closed", "reset"} : Disconnect(how)
  PROVE  Streams'
<1> USE DEF sendVars, recvVars
<1>1. Placed'  BY PlacedPeer, StreamsParts
<1>2. UNCHANGED <<pc, req, idx, in>>
  BY DEF ServerStep, ServerExecute, Disconnect
<1>3. pc' = "read" => ~HeadComplete'
  <2>1. CASE ServerStep
    <3> PICK p \in Replies : ServerExecute(p)  BY <2>1 DEF ServerStep
    <3>1. /\ p.len \in Nat /\ p.len > 0
          /\ Len(replies') = Len(replies) + 1
          /\ replies'[Len(replies) + 1].end = StreamEnd + p.len
          /\ \A i \in 1..Len(replies) : replies'[i] = replies[i]
      BY ReplyAppended, StreamsParts
    <3>2. CASE taken < Len(replies)
      <4>1. replies'[taken + 1] = replies[taken + 1]  BY <3>1, <3>2, HeadFacts
      <4> QED  BY <3>2, <4>1 DEF Streams, ServerExecute, HeadComplete
    <3>3. CASE taken = Len(replies)
      <4>1. replies'[taken + 1].end > rcvd
        BY <3>1, <3>3, HeadFacts DEF Streams, TypeOK
      <4> QED  BY <3>1, <3>3, <4>1, HeadFacts DEF ServerExecute, HeadComplete, Streams, TypeOK
    <3> QED  BY <3>2, <3>3, HeadFacts DEF Streams
  <2>2. CASE \E how \in {"closed", "reset"} : Disconnect(how)
    BY <2>2 DEF Disconnect, Streams, HeadComplete
  <2> QED  BY <2>1, <2>2
<1> QED
  BY <1>1, <1>2, <1>3 DEF Streams, Placed, TypeOK, NoSpuriousEof

LEMMA StreamsStep == Streams /\ [Next]_vars => Streams'
<1> SUFFICES ASSUME Streams, [Next]_vars PROVE Streams'
  OBVIOUS
<1>1. CASE Next
  BY <1>1, StreamsSend, StreamsFlush, StreamsRecv, StreamsRead, StreamsPeer
  DEF Next, ClientStep
<1>2. CASE UNCHANGED vars
  BY <1>2
  DEF Streams, TypeOK, vars, sendVars, recvVars, peerVars, RepliesInOrder, HeadStart,
      StreamEnd, HeadComplete, NoSpuriousEof
<1> QED  BY <1>1, <1>2

THEOREM StreamsAlways == Spec => []Streams
  BY StreamsInit, StreamsStep, PTL DEF Spec

(* Every variable keeps its type; in particular neither buffer ever holds   *)
(* bytes outside its block, whatever the order of appends, writes, reads,   *)
(* nice() and grow() (bytes.h:139-162).                                     *)
THEOREM TypeCorrect == Spec => []TypeOK
<1>1. Streams => TypeOK  BY DEF Streams
<1> QED  BY <1>1, StreamsAlways, PTL

(* read() is never entered without room, so the 0 it returns always means   *)
(* the end of the stream (link.cpp:184-185, 353-362, 439).                  *)
THEOREM ReadHasRoom == Spec => []NoSpuriousEof
<1>1. Streams => NoSpuriousEof  BY DEF Streams
<1> QED  BY <1>1, StreamsAlways, PTL
-----------------------------------------------------------------------------
LEMMA OutputNearStep == Streams /\ OutputNear /\ [Next]_vars => OutputNear'
<1> SUFFICES ASSUME Streams, OutputNear, [Next]_vars PROVE OutputNear'
  OBVIOUS
<1> /\ out \in Buffers /\ allocFails \in Nat /\ MaxAllocFail \in Nat
  BY LinkAssumption DEF Streams, TypeOK
<1> /\ out.total \in Nat /\ out.off \in Nat
  BY DEF Buffers
<1>1. CASE AppendPiece
  BY <1>1 DEF AppendPiece, Incr, OutputNear
<1>2. CASE AppendGrow
  <2>1. out'.off = out.off /\ out.total < out'.total /\ out'.total \in Nat
    BY <1>2, GrowMakesRoom DEF AppendGrow, Buffers
  <2> QED  BY <2>1 DEF OutputNear
<1>3. CASE \E k \in 1..out.size : Write(k)
  <2> PICK k \in 1..out.size : Write(k)  BY <1>3
  <2> PICK g : LazilyGrown(out, g) /\ out' = Nice(Decr(g, k))
    BY DEF Write
  <2>1. g \in Buffers /\ g.size = out.size  BY LazilyGrownType
  <2>2. Decr(g, k) \in Buffers  BY <2>1, IncrDecr DEF Buffers
  <2> QED  BY <2>2, NiceMakesRoom DEF OutputNear
<1>4. CASE WriteFails
  <2> PICK g : LazilyGrown(out, g) /\ out' = g
    BY <1>4 DEF WriteFails
  <2>1. g.off = out.off /\ out.total <= g.total /\ g.total \in Nat
    BY LazilyGrownType DEF Buffers
  <2> QED  BY <2>1 DEF OutputNear
<1>5. CASE UNCHANGED out
  BY <1>5 DEF OutputNear
<1> QED
  BY <1>1, <1>2, <1>3, <1>4, <1>5
  DEF Next, ClientStep, Issue, AppendFails, Flushed, RecvEmpty, RecvReady, RecvOversized,
      RecvPartial, RecvNoRoom, ReadData, ReadFails, ServerStep, ServerExecute, Disconnect,
      sendVars, vars

LEMMA OutputNearAlways == Spec => []OutputNear
<1>1. Init => OutputNear
  BY BufferAssumption DEF Init, OutputNear, NewBuffer, BufferAssumption
<1> QED  BY <1>1, OutputNearStep, StreamsAlways, PTL DEF Spec

LEMMA Growth == Streams /\ OutputNear /\ [Next]_vars => [GrowthStep]_vars
<1> SUFFICES ASSUME Streams, OutputNear, Next PROVE GrowthStep
  OBVIOUS
<1> /\ out \in Buffers /\ in \in Buffers /\ allocFails \in Nat
    /\ MaxAllocFail \in Nat /\ 2 * out.off <= out.total
  BY LinkAssumption DEF Streams, OutputNear, TypeOK
<1> /\ out.total \in Nat /\ out.off \in Nat /\ out.size \in Nat
    /\ in.total \in Nat /\ in.off \in Nat /\ in.size \in Nat
  BY DEF Buffers
<1>1. CASE \E r \in Requests : Issue(r)
  BY <1>1 DEF Issue, recvVars, GrowthStep
<1>2. CASE AppendPiece
  <2>1. out' = Incr(out, Used(req, idx)) /\ in' = in
    BY <1>2 DEF AppendPiece, recvVars
  <2>2. out'.total = out.total  BY <2>1 DEF Incr
  <2> QED  BY <2>1, <2>2 DEF GrowthStep
<1>3. CASE AppendGrow
  <2>1. pc = "append" /\ ~Fits /\ in' = in
    BY <1>3 DEF AppendGrow, recvVars
  <2>2. req[idx].need \in Nat
    BY <2>1, PieceFacts
  <2>3. 2 * (out.size + req[idx].need) >= out.total
    BY <2>1, <2>2 DEF Fits, Space
  <2> QED  BY <2>1, <2>3 DEF GrowthStep
<1>4. CASE AppendFails
  BY <1>4 DEF AppendFails, recvVars, GrowthStep
<1>5. CASE \E k \in 1..out.size : Write(k)
  <2> PICK k \in 1..out.size : Write(k)  BY <1>5
  <2> PICK g : LazilyGrown(out, g) /\ out' = Nice(Decr(g, k))
    BY DEF Write
  <2>1. /\ g \in Buffers /\ g.size = out.size
        /\ out.total < g.total => out.total = ZeroBuf
    BY LazilyGrownType
  <2>2. Decr(g, k) \in Buffers /\ Decr(g, k).total = g.total
    BY <2>1, IncrDecr DEF Decr
  <2>3. out'.total = g.total  BY <2>2, NiceMakesRoom
  <2>4. in' = in  BY DEF Write, recvVars
  <2> QED  BY <2>1, <2>3, <2>4 DEF GrowthStep
<1>6. CASE WriteFails
  <2> PICK g : LazilyGrown(out, g) /\ out' = g
    BY <1>6 DEF WriteFails
  <2>1. out.total < g.total => out.total = ZeroBuf
    BY LazilyGrownType
  <2>2. in' = in  BY <1>6 DEF WriteFails, recvVars
  <2> QED  BY <2>1, <2>2 DEF GrowthStep
<1>7. CASE Flushed \/ RecvEmpty \/ RecvOversized
  <2>1. out' = out /\ in' = in
    BY <1>7 DEF Flushed, RecvEmpty, RecvOversized, sendVars, recvVars
  <2> QED  BY <2>1 DEF GrowthStep
<1>8. CASE RecvReady
  BY <1>8 DEF RecvReady, Decr, sendVars, GrowthStep
<1>9. CASE RecvPartial
  <2>1. out' = out  BY <1>9 DEF RecvPartial, sendVars
  <2>2. Nice(in).total = in.total /\ (Space(Nice(in)) = 0 => in.total <= 2 * in.size)
    BY NiceMakesRoom
  <2>3. CASE MustGrow  BY <2>1, <2>2, <2>3 DEF MustGrow, Full, GrowthStep
  <2>4. CASE ~MustGrow
    BY <1>9, <2>1, <2>2, <2>4 DEF RecvPartial, GrowthStep
  <2> QED  BY <2>3, <2>4
<1>10. CASE RecvNoRoom
  BY <1>10, NiceMakesRoom DEF RecvNoRoom, sendVars, GrowthStep
<1>11. CASE \E k \in 1..(avail - rcvd) : ReadData(k)
  <2> PICK k \in 1..(avail - rcvd) : ReadData(k)  BY <1>11
  <2> PICK g : LazilyGrown(in, g) /\ in' = Incr(Nice(g), k)
    BY DEF ReadData
  <2>1. g \in Buffers /\ (in.total < g.total => in.total = ZeroBuf)
    BY LazilyGrownType
  <2>2. in'.total = g.total  BY <2>1, NiceMakesRoom DEF Incr
  <2>3. out' = out  BY DEF ReadData, sendVars
  <2> QED  BY <2>1, <2>2, <2>3 DEF GrowthStep
<1>12. CASE ReadFails
  <2> PICK g : LazilyGrown(in, g) /\ in' = Nice(g)
    BY <1>12 DEF ReadFails
  <2>1. g \in Buffers /\ (in.total < g.total => in.total = ZeroBuf)
    BY LazilyGrownType
  <2>2. in'.total = g.total  BY <2>1, NiceMakesRoom
  <2>3. out' = out  BY <1>12 DEF ReadFails, sendVars
  <2> QED  BY <2>1, <2>2, <2>3 DEF GrowthStep
<1>13. CASE ServerStep \/ \E how \in {"closed", "reset"} : Disconnect(how)
  <2>1. out' = out /\ in' = in
    BY <1>13 DEF ServerStep, ServerExecute, Disconnect, sendVars, recvVars
  <2> QED  BY <2>1 DEF GrowthStep
<1> QED
  BY <1>1, <1>2, <1>3, <1>4, <1>5, <1>6, <1>7, <1>8, <1>9, <1>10, <1>11, <1>12, <1>13
  DEF Next, ClientStep

(* Neither buffer grows while it is less than half full, however many calls *)
(* it has served, and whether or not realloc() fails on the way: the copies *)
(* to the front made by nice() in read() and write() are frequent enough    *)
(* (link.cpp:184, 246, bytes.cpp:19-25).                                    *)
THEOREM BoundedGrowth == Spec => GrowsOnlyWhenHalfFull
  BY StreamsAlways, OutputNearAlways, Growth, PTL DEF Spec, GrowsOnlyWhenHalfFull
-----------------------------------------------------------------------------
(* The non-blocking socket: between system calls of read() and write() the  *)
(* streams are placed as ever; elsewhere the call stands where it would on  *)
(* a blocking one, with nothing in `got`.                                   *)

InLoop == pc \in {"write", "loop"}

NbStreams ==
  /\ Placed
  /\ got \in 0..in.size
  /\ pc \in {"idle", "append", "flush", "write", "recv", "read", "loop"}
  /\ ~InLoop => Streams
  /\ pc # "loop" => got = 0
  /\ NbReadHasRoom

\* Out of the loop, and not into recv()'s read: nothing more to show.
LEMMA LeavesLoop ==
  ASSUME Placed', pc' \in {"idle", "flush", "recv"}
  PROVE  Streams'
  BY DEF Streams, Placed, TypeOK, NoSpuriousEof

LEMMA NbInitial == NbInit => NbStreams
  BY StreamsInit, StreamsParts
  DEF NbInit, NbStreams, Init, InLoop, NbReadHasRoom, NewBuffer

\* A step of module Link that leaves the socket alone.
LEMMA NbKept ==
  ASSUME NbStreams, ~InLoop, Streams', UNCHANGED got
  PROVE  NbStreams'
<1>1. Placed' /\ pc' \in {"idle", "append", "flush", "recv", "read"}
  BY DEF Streams, Placed, TypeOK
<1>2. got' = 0 /\ in'.size \in Nat
  BY <1>1 DEF NbStreams, InLoop, Placed, Buffers
<1> QED  BY <1>1, <1>2 DEF NbStreams, InLoop, NbReadHasRoom

LEMMA NbStreamsBuffers ==
  ASSUME NbStreams, NbBuffers
  PROVE  NbStreams'
<1>1. ~InLoop
  BY DEF NbBuffers, InLoop, Issue, AppendPiece, AppendGrow, AppendFails, Flushed,
         RecvEmpty, RecvReady, RecvOversized, RecvPartial, RecvNoRoom
<1>2. Streams  BY <1>1 DEF NbStreams
<1>3. Streams'
  BY <1>2, StreamsSend, StreamsFlush, StreamsRecv DEF NbBuffers
<1> QED  BY <1>1, <1>3, NbKept DEF NbBuffers

LEMMA NbStreamsPeer ==
  ASSUME NbStreams, NbPeer
  PROVE  NbStreams'
<1>1. Placed'  BY PlacedPeer DEF NbStreams, NbPeer
<1>2. UNCHANGED <<pc, in, got>>
  BY DEF NbPeer, ServerStep, ServerExecute, Disconnect, recvVars
<1>3. ~InLoop => Streams'
  BY StreamsPeer DEF NbStreams, NbPeer
<1> QED  BY <1>1, <1>2, <1>3 DEF NbStreams, InLoop, NbReadHasRoom, Full, Space

LEMMA NbStreamsWrite ==
  ASSUME NbStreams,
         \/ NbWriteBegins \/ (\E k \in 1..out.size : NbWrite(k))
         \/ NbWriteReturns \/ NbWriteFails
  PROVE  NbStreams'
<1> USE DEF recvVars, peerVars
<1> /\ Placed /\ out \in Buffers /\ in \in Buffers /\ allocFails \in Nat
    /\ MaxAllocFail \in Nat /\ flushed \in Nat /\ issued \in Nat
  BY LinkAssumption DEF NbStreams, Placed
<1>1. CASE NbWriteBegins
  <2>1. out' \in Buffers /\ allocFails' \in Nat
    BY <1>1, LazilyGrownType DEF NbWriteBegins
  <2>2. Placed'
    BY <1>1, <2>1 DEF NbWriteBegins, Placed, RepliesInOrder, HeadStart, StreamEnd
  <2> QED
    BY <1>1, <2>2 DEF NbWriteBegins, NbStreams, InLoop, NbReadHasRoom
<1>2. CASE \E k \in 1..out.size : NbWrite(k)
  <2> PICK k \in 1..out.size : NbWrite(k)  BY <1>2
  <2>1. k \in Nat /\ k <= out.size  BY DEF Buffers
  <2>2. out' \in Buffers /\ flushed' \in Nat
    BY <2>1, IncrDecr DEF NbWrite
  <2>3. Placed'
    BY <2>2 DEF NbWrite, Placed, RepliesInOrder, HeadStart, StreamEnd
  <2> QED
    BY <2>3 DEF NbWrite, NbStreams, InLoop, NbReadHasRoom
<1>3. CASE NbWriteReturns
  <2>1. out' \in Buffers  BY <1>3, NiceMakesRoom DEF NbWriteReturns
  <2>2. Placed'
    BY <1>3, <2>1 DEF NbWriteReturns, Placed, RepliesInOrder, HeadStart, StreamEnd
  <2> QED
    BY <1>3, <2>2, LeavesLoop DEF NbWriteReturns, NbStreams, InLoop, NbReadHasRoom
<1>4. CASE NbWriteFails
  <2>1. Placed'
    BY <1>4
    DEF NbWriteFails, Return, sendVars, Placed, RepliesInOrder, HeadStart, StreamEnd
  <2> QED
    BY <1>4, <2>1, LeavesLoop
    DEF NbWriteFails, Return, NbStreams, InLoop, NbReadHasRoom
<1> QED  BY <1>1, <1>2, <1>3, <1>4

LEMMA NbStreamsRead ==
  ASSUME NbStreams,
         \/ NbReadBegins \/ (\E k \in 1..(avail - rcvd) : NbRead(k))
         \/ NbReadReturns \/ NbReadNothing \/ NbReadEnds
  PROVE  NbStreams'
<1> USE DEF sendVars, peerVars
<1> /\ Placed /\ in \in Buffers /\ allocFails \in Nat /\ MaxAllocFail \in Nat
    /\ rcvd \in Nat /\ avail \in Nat /\ issued \in Nat /\ HeadStart \in Nat
  BY LinkAssumption, PlacedFacts DEF NbStreams, Placed
<1> in.size \in Nat  BY DEF Buffers
<1>1. CASE NbReadBegins
  <2> PICK g : g \in {in, Grow(in)} /\ LazilyGrown(in, g) /\ in' = Nice(g)
    BY <1>1 DEF NbReadBegins
  <2>1. g \in Buffers /\ g.size = in.size /\ allocFails' \in Nat
    BY LazilyGrownType
  <2>2. in' \in Buffers /\ in'.size = in.size
    BY <2>1, NiceMakesRoom
  <2>3. ~Full(in')
    <3>1. CASE g = in
      BY <1>1, <3>1 DEF NbReadBegins, NbStreams, InLoop, Streams, NoSpuriousEof
    <3>2. CASE g = Grow(in)
      <4>1. 0 < Space(g)  BY <3>2, GrowMakesRoom
      <4>2. Space(g) <= Space(Nice(g))  BY <2>1, NiceMakesRoom
      <4>3. Space(g) \in Int /\ Space(Nice(g)) \in Int
        BY <2>1, <2>2 DEF Space, Buffers
      <4> QED  BY <4>1, <4>2, <4>3 DEF Full
    <3> QED  BY <3>1, <3>2
  <2>4. Placed'
    BY <1>1, <2>1, <2>2
    DEF NbReadBegins, Placed, RepliesInOrder, HeadStart, StreamEnd
  <2> QED
    BY <1>1, <2>2, <2>3, <2>4 DEF NbReadBegins, NbStreams, InLoop, NbReadHasRoom
<1>2. CASE \E k \in 1..(avail - rcvd) : NbRead(k)
  <2> PICK k \in 1..(avail - rcvd) : NbRead(k)  BY <1>2
  <2>1. /\ k \in Nat /\ k > 0 /\ rcvd + k <= avail /\ k <= Space(in)
        /\ pc' = pc /\ pc = "loop" /\ got' = got + k
        /\ in' = Incr(in, k) /\ rcvd' = rcvd + k
    BY DEF NbRead
  <2>2. in' \in Buffers  BY <2>1, IncrDecr
  <2>3. in'.size = in.size + k  BY <2>1 DEF Incr, Buffers
  <2>4. HeadStart' = HeadStart  BY DEF NbRead, HeadStart
  <2>5. rcvd' = HeadStart' + in'.size
    <3>1. rcvd = HeadStart + in.size  BY DEF Placed
    <3> QED  BY <2>1, <2>3, <2>4, <3>1
  <2>6. rcvd' \in Nat /\ rcvd' <= avail  BY <2>1
  <2>7. UNCHANGED <<req, idx, out, issued, held, intact, flushed, sent, replies, avail,
                    taken, peer, allocFails, result>>
    BY DEF NbRead
  <2>8. Placed'
    BY <2>2, <2>5, <2>6, <2>7 DEF Placed, RepliesInOrder, StreamEnd
  <2>9. got' \in 0..in'.size /\ got' # 0
    BY <2>1, <2>3 DEF NbStreams
  <2> QED  BY <2>1, <2>8, <2>9 DEF NbStreams, InLoop, NbReadHasRoom
<1>3. CASE NbReadReturns \/ NbReadEnds \/ NbReadNothing
  <2>1. /\ pc' \in {"idle", "recv"} /\ UNCHANGED <<sendVars, recvVars, peerVars, allocFails>>
        /\ got' = 0 /\ result' \in [req : Nat, reply : Nat]
    <3>1. CASE NbReadReturns  BY <3>1 DEF NbReadReturns, Placed
    <3>2. CASE NbReadEnds  BY <3>2 DEF NbReadEnds, Return
    <3>3. CASE NbReadNothing  BY <3>3 DEF NbReadNothing, Return
    <3> QED  BY <1>3, <3>1, <3>2, <3>3
  <2>2. Placed'
    BY <2>1 DEF Placed, recvVars, RepliesInOrder, HeadStart, StreamEnd
  <2>3. in' = in  BY <2>1 DEF recvVars
  <2> QED
    BY <2>1, <2>2, <2>3, LeavesLoop DEF NbStreams, InLoop, NbReadHasRoom
<1> QED  BY <1>1, <1>2, <1>3

LEMMA NbStreamsAlways == NbSpec => []NbStreams
<1>1. NbStreams /\ [NbNext]_nbVars => NbStreams'
  <2> SUFFICES ASSUME NbStreams, [NbNext]_nbVars PROVE NbStreams'
    OBVIOUS
  <2>1. CASE NbNext
    BY <2>1, NbStreamsBuffers, NbStreamsPeer, NbStreamsWrite, NbStreamsRead
    DEF NbNext, NbSocket
  <2>2. CASE UNCHANGED nbVars
    BY <2>2
    DEF nbVars, vars, sendVars, recvVars, peerVars, NbStreams, InLoop, NbReadHasRoom,
        Placed, Streams, TypeOK, RepliesInOrder, HeadStart, StreamEnd, HeadComplete,
        NoSpuriousEof, Full, Space, Nice
  <2> QED  BY <2>1, <2>2
<1> QED  BY <1>1, NbInitial, PTL DEF NbSpec

(* On a non-blocking socket, too, the buffers stay in their blocks and the  *)
(* input is the replies not yet taken, whatever the loops of read() and     *)
(* write() do and whether or not realloc() fails (link.cpp:178-248).        *)
THEOREM NbTypeCorrect == NbSpec => []NbTypeOK
<1>1. NbStreams => NbTypeOK
  <2> SUFFICES ASSUME NbStreams PROVE NbTypeOK
    OBVIOUS
  <2>1. Placed /\ in.size \in Nat  BY DEF NbStreams, Placed, Buffers
  <2>2. HeadStart \in Nat  BY <2>1, PlacedFacts
  <2> QED  BY <2>1, <2>2 DEF NbStreams, NbTypeOK, Placed
<1> QED  BY <1>1, NbStreamsAlways, PTL

(* A read() that has read nothing yet has room for something, so its 0 is   *)
(* the socket's (link.cpp:185).                                             *)
THEOREM NbRoomToRead == NbSpec => []NbReadHasRoom
<1>1. NbStreams => NbReadHasRoom  BY DEF NbStreams
<1> QED  BY <1>1, NbStreamsAlways, PTL
-----------------------------------------------------------------------------
(* The calls.                                                               *)

LEMMA NothingRunsOut ==
  ASSUME EnoughMemory, Calls
  PROVE  /\ ~RunsOut
         /\ \A b : GrowFails(b) => ~CanGrow(b) /\ allocFails' = 0
         /\ \A b, g : LazilyGrown(b, g) => allocFails' = 0
<1>1. ~RunsOut  BY DEF EnoughMemory, Calls, RunsOut
<1> QED  BY <1>1 DEF GrowFails, LazilyGrown, Calls

\* The types that the steps below rest on.
LEMMA Types ==
  ASSUME Streams
  PROVE  /\ issued \in Nat /\ held \in Nat /\ idx \in Nat /\ flushed \in Nat
         /\ result.req \in Nat /\ result.reply \in Nat
         /\ taken \in Nat /\ rcvd \in Nat /\ avail \in Nat
         /\ sent \in Seq(SentPackets) /\ Len(sent) \in Nat
         /\ Len(replies) \in Nat
         /\ in \in Buffers /\ out \in Buffers
         /\ in.size \in Nat /\ out.size \in Nat
         /\ pc \in {"idle", "append", "flush", "recv", "read"}
<1>1. in.size \in Nat /\ out.size \in Nat
  BY DEF Streams, TypeOK, Buffers
<1>2. result.req \in Nat /\ result.reply \in Nat
  BY DEF Streams, TypeOK
<1> QED  BY <1>1, <1>2 DEF Streams, TypeOK

\* A packet that is partly in the input buffer is one the server has sent.
LEMMA PartialHeadExists ==
  ASSUME Streams, HeadPartial
  PROVE  taken < Len(replies) /\ rcvd < replies[taken + 1].end
<1>1. taken < Len(replies)
  <2> SUFFICES ASSUME taken = Len(replies) PROVE FALSE
    BY Types DEF Streams
  <2>1. HeadStart = StreamEnd
    BY HeadFacts DEF HeadStart, StreamEnd
  <2>2. in.size > 0  BY Types DEF HeadPartial
  <2> QED  BY <2>1, <2>2, HeadFacts, Types DEF Streams
<1>2. replies[taken + 1].end \in Nat  BY <1>1, HeadFacts
<1> QED  BY <1>1, <1>2, Types DEF HeadPartial, HeadComplete

\* Stuck is about the replies, the input buffer and the socket; a step that
\* leaves those alone keeps it, whatever it appends.
LEMMA SendKeepsStuck ==
  ASSUME Streams, Stuck, UNCHANGED <<recvVars, peerVars>>,
         pc \notin {"recv", "read"},
         out.size <= out'.size, out'.size \in Nat,
         pc' \notin {"recv", "read"}
  PROVE  Stuck'
<1> USE DEF recvVars, peerVars
<1>1. CASE peer = "reset" /\ out.size > 0
  BY <1>1, Types DEF Stuck
<1>2. CASE peer # "up" /\ (taken < Len(replies) => avail < replies[taken + 1].end)
  BY <1>2 DEF Stuck
<1>3. CASE HeadOversized
  BY <1>3 DEF Stuck, HeadOversized
<1>4. CASE HeadPartial /\ MustGrow /\ ~CanGrow(in)
  BY <1>4 DEF Stuck, HeadPartial, HeadComplete, HeadOversized, MustGrow
<1> QED  BY <1>1, <1>2, <1>3, <1>4 DEF Stuck

LEMMA CallsInit == Init => Calls
  BY DEF Init, Calls, Failed, InStep, NewBuffer
-----------------------------------------------------------------------------
LEMMA CallsIssue ==
  ASSUME Streams, Calls, NEW r \in Requests, Issue(r)
  PROVE  Calls'
<1>1. /\ pc = "idle" /\ pc' = "append" /\ issued' = issued + 1 /\ idx' = 1
      /\ UNCHANGED <<out, held, intact, sent, flushed, allocFails, result>>
      /\ UNCHANGED <<recvVars, peerVars>>
  BY DEF Issue
<1>2. Failed' = Failed  BY <1>1 DEF Failed
<1>3. Failed => Stuck'
  BY <1>1, SendKeepsStuck, Types DEF Calls
<1>4. ~Failed => InStep'
  BY <1>1, Types DEF Calls, InStep, Before, recvVars
<1> QED
  BY <1>1, <1>2, <1>3, <1>4, Types DEF Calls, peerVars

LEMMA CallsAppendPiece ==
  ASSUME Streams, Calls, AppendPiece
  PROVE  Calls'
<1> DEFINE used == Used(req, idx)
           packet == [end   |-> flushed + out.size + 1,
                      req   |-> issued,
                      whole |-> intact]
<1>1. /\ pc = "append" /\ out' = Incr(out, used)
      /\ UNCHANGED <<req, issued, flushed, recvVars, peerVars, allocFails, result>>
  BY DEF AppendPiece
<1>2. used \in Nat /\ idx \in 1..Len(req) /\ Len(req) \in Nat
  BY <1>1, PieceFacts
<1>3. out'.size = out.size + used
  BY <1>1, <1>2 DEF Incr, Streams, TypeOK, Buffers
<1>4. pc' \in {"append", "flush"}  BY DEF AppendPiece, NextPiece
<1>5. Failed' = Failed  BY <1>1 DEF Failed
<1>6. Failed => Stuck'
  <2>1. out.size <= out'.size /\ out'.size \in Nat
    <3>1. out.size \in Nat  BY Types
    <3> QED  BY <1>2, <1>3, <3>1
  <2> QED  BY <1>1, <1>4, <2>1, SendKeepsStuck DEF Calls
<1>7. CASE idx # Len(req)
  <2>1. /\ pc' = "append" /\ idx' = idx + 1 /\ held' = held + 1
        /\ UNCHANGED <<sent, intact>>
    BY <1>7 DEF AppendPiece, NextPiece
  <2>2. ~Failed => out'.size = req[idx].end
    <3>1. out.size = Before(req, idx) => out.size + used = req[idx].end
      <4>1. req \in Seq(Pieces)  BY <1>1, PieceFacts
      <4>2. req[idx] \in Pieces  BY <1>2, <4>1, ElementOfSeq
      <4>3. idx # 1 => req[idx - 1] \in Pieces
        <5>1. idx # 1 => idx - 1 \in 1..Len(req)  BY <1>2
        <5> QED  BY <4>1, <5>1, ElementOfSeq
      <4> QED  BY <1>2, <4>2, <4>3 DEF Before, Used, Pieces
    <3> QED  BY <1>1, <1>3, <3>1 DEF Calls, InStep
  <2>3. ~Failed => InStep'
    BY <1>1, <1>2, <2>1, <2>2, Types DEF Calls, InStep, Before, recvVars
  <2> QED
    BY <1>1, <1>5, <1>6, <2>1, <2>3 DEF Calls, peerVars
<1>8. CASE idx = Len(req)
  <2>1. /\ pc' = "flush" /\ held' = 0 /\ intact' = TRUE
        /\ sent' = IF held = 0 THEN sent ELSE Append(sent, packet)
    BY <1>8 DEF AppendPiece, NextPiece
  <2>2. /\ Len(sent) <= Len(sent') /\ Len(sent') <= Len(sent) + 1
        /\ sent' = Append(sent, packet) =>
             /\ Len(sent') = Len(sent) + 1
             /\ sent'[Len(sent) + 1] = packet
             /\ \A j \in 1..Len(sent) : sent'[j] = sent[j]
    BY <2>1, Types
  <2>3. Len(sent') <= issued /\ Len(replies) <= Len(sent')
    <3>1. Len(sent) \in Nat /\ Len(replies) \in Nat /\ issued \in Nat
      BY Types
    <3>2. Len(sent') \in Nat  BY <2>1, Types
    <3> QED  BY <1>1, <2>2, <3>1, <3>2 DEF Calls, peerVars
  <2>4. ~Failed => InStep'
    <3> SUFFICES ASSUME ~Failed PROVE InStep'
      OBVIOUS
    <3>1. InStep /\ result.req = issued - 1  BY <1>1 DEF Calls
    <3>2. held # 0
      <4>1. Len(req) > 1  BY <1>1, LinkAssumption DEF Streams
      <4> QED  BY <1>1, <1>2, <1>8, <3>1, <4>1, Types DEF InStep
    <3>3. sent' = Append(sent, packet)  BY <2>1, <3>2
    <3>4. Len(sent) = issued - 1 /\ Len(sent') = issued
      BY <1>1, <2>2, <3>1, <3>3, Types DEF InStep
    <3>5. \A j \in 1..Len(sent') : sent'[j].req = j /\ sent'[j].whole
      <4> SUFFICES ASSUME NEW j \in 1..Len(sent')
                   PROVE  sent'[j].req = j /\ sent'[j].whole
        OBVIOUS
      <4>1. CASE j \in 1..Len(sent)
        <5>1. sent'[j] = sent[j]  BY <2>2, <3>3, <4>1
        <5>2. sent[j].req = j /\ sent[j].whole  BY <3>1, <4>1 DEF InStep
        <5> QED  BY <5>1, <5>2
      <4>2. CASE j = issued
        <5>1. sent'[j] = packet  BY <2>2, <3>3, <3>4, <4>2, Types
        <5>2. packet.req = issued /\ packet.whole = intact  OBVIOUS
        <5>3. packet.whole  BY <3>1, <5>2 DEF InStep
        <5> QED  BY <4>2, <5>1, <5>2, <5>3
      <4> QED  BY <3>4, <4>1, <4>2, Types
    <3>6. /\ taken' = result'.req /\ result'.reply = result'.req
          /\ Len(sent') = IF pc' = "append" THEN taken' ELSE issued'
          /\ intact' = TRUE
          /\ held' = IF pc' = "append" THEN idx' - 1 ELSE 0
          /\ pc' = "append" => out'.size = Before(req, idx)'
          /\ pc' \in {"idle", "recv", "read"} => out'.size = 0
          /\ pc' \in {"idle", "append"} => in'.size = 0
      BY <1>1, <2>1, <3>1, <3>4 DEF InStep, recvVars
    <3> QED
      BY <3>5, <3>6, Zenon DEF InStep
  <2> QED
    BY <1>1, <1>5, <1>6, <2>1, <2>3, <2>4 DEF Calls, peerVars
<1> QED  BY <1>2, <1>7, <1>8

\* The output buffer of a connection in step is never too full to grow.
LEMMA RoomToAppend ==
  ASSUME EnoughMemory, Streams, OutputNear, Calls, pc = "append", ~Failed
  PROVE  Fits \/ CanGrow(out)
<1> SUFFICES ASSUME ~Fits PROVE CanGrow(out)
  OBVIOUS
<1> DEFINE need == req[idx].need
<1>1. req \in Requests /\ idx \in 1..Len(req) /\ need \in Nat
  BY PieceFacts DEF Streams
<1>2. out.size = Before(req, idx)  BY DEF Calls, InStep
<1>3. 4 * (out.size + need) <= MaxInt
  BY <1>1, <1>2 DEF EnoughMemory
<1>4. /\ out \in Buffers /\ out.off \in Nat /\ out.total \in Nat /\ out.size \in Nat
      /\ 2 * out.off <= out.total
  BY DEF Streams, OutputNear, TypeOK, Buffers
<1>5. out.total <= 2 * (out.size + need)
  BY <1>1, <1>4 DEF Fits, Space
<1>6. 2 * out.total <= MaxInt
  BY <1>1, <1>3, <1>4, <1>5, BufferAssumption
<1> QED  BY <1>4, <1>6, GrowMakesRoom

LEMMA CallsAppendMisfit ==
  ASSUME EnoughMemory, Streams, OutputNear, Calls, AppendGrow \/ AppendFails
  PROVE  Calls'
<1> USE DEF recvVars, peerVars
<1>1. CASE AppendGrow
  <2>1. out'.size = out.size
    BY <1>1, GrowMakesRoom, Types DEF AppendGrow
  <2>2. Failed' = Failed  BY <1>1 DEF AppendGrow, Failed
  <2>3. Failed => Stuck'
    <3>1. pc = "append" /\ pc' = "append"  BY <1>1 DEF AppendGrow
    <3>2. UNCHANGED <<recvVars, peerVars>>  BY <1>1 DEF AppendGrow
    <3>3. out.size <= out'.size /\ out'.size \in Nat  BY <2>1, Types
    <3> QED  BY <3>1, <3>2, <3>3, SendKeepsStuck DEF Calls
  <2>4. ~Failed => InStep'
    BY <1>1, <2>1 DEF Calls, AppendGrow, InStep, Before
  <2> QED  BY <1>1, <2>2, <2>3, <2>4 DEF Calls, AppendGrow
<1>2. CASE AppendFails
  <2>1. pc = "append" /\ ~Fits /\ GrowFails(out)  BY <1>2 DEF AppendFails
  <2>2. ~CanGrow(out) /\ allocFails' = 0  BY <2>1, NothingRunsOut
  <2>3. Failed  BY <2>1, <2>2, RoomToAppend
  <2>4. pc' \in {"append", "flush"} /\ out' = out
    BY <1>2 DEF AppendFails, NextPiece
  <2>5. Failed' = Failed  BY <1>2 DEF AppendFails, Failed
  <2>6. Stuck'
    <3>1. UNCHANGED <<recvVars, peerVars>>  BY <1>2 DEF AppendFails
    <3>2. out.size <= out'.size /\ out'.size \in Nat  BY <2>4, Types
    <3>3. Stuck  BY <2>3 DEF Calls
    <3> QED  BY <2>1, <2>4, <3>1, <3>2, <3>3, SendKeepsStuck
  <2>7. /\ result' = result /\ issued' = issued /\ sent' = sent
        /\ replies' = replies
    BY <1>2 DEF AppendFails
  <2>8. issued - 1 <= issued  BY Types
  <2> QED
    BY <2>1, <2>2, <2>3, <2>4, <2>5, <2>6, <2>7, <2>8, Types DEF Calls
<1> QED  BY <1>1, <1>2
-----------------------------------------------------------------------------
LEMMA CallsFlush ==
  ASSUME EnoughMemory, Streams, Calls,
         (\E k \in 1..out.size : Write(k)) \/ WriteFails \/ Flushed
  PROVE  Calls'
<1> USE DEF recvVars, peerVars
<1> out \in Buffers /\ allocFails \in Nat /\ MaxAllocFail \in Nat
  BY LinkAssumption DEF Streams, TypeOK
<1>1. CASE \E k \in 1..out.size : Write(k)
  <2> PICK k \in 1..out.size : Write(k)  BY <1>1
  <2> PICK g : LazilyGrown(out, g) /\ out' = Nice(Decr(g, k))
    BY DEF Write
  <2>1. /\ pc = "flush" /\ pc' = "flush" /\ peer # "reset"
        /\ UNCHANGED <<req, idx, issued, held, intact, sent, recvVars, peerVars, result>>
    BY DEF Write
  <2>2. allocFails' = 0  BY NothingRunsOut
  <2>3. Failed' = Failed  BY <2>1 DEF Failed
  <2>4. Failed => Stuck'
    BY <2>1 DEF Calls, Stuck, HeadOversized, HeadPartial, HeadComplete, MustGrow
  <2>5. ~Failed => InStep'
    BY <2>1 DEF Calls, InStep
  <2> QED  BY <2>1, <2>2, <2>3, <2>4, <2>5 DEF Calls
<1>2. CASE WriteFails
  <2> PICK g : LazilyGrown(out, g) /\ out' = g
    BY <1>2 DEF WriteFails
  <2>1. /\ pc = "flush" /\ pc' = "idle" /\ peer = "reset" /\ out.size > 0
        /\ UNCHANGED <<issued, sent, peerVars>>
        /\ result' = [req |-> issued, reply |-> 0]
    BY <1>2 DEF WriteFails, Return
  <2>2. allocFails' = 0  BY NothingRunsOut
  <2>3. out'.size = out.size  BY LazilyGrownType
  <2>4. Stuck'  BY <2>1, <2>3 DEF Stuck
  <2>5. Failed'  BY <2>1 DEF Calls, Failed
  <2>6. result'.req = issued  BY <2>1
  <2> QED  BY <2>1, <2>2, <2>4, <2>5, <2>6 DEF Calls
<1>3. CASE Flushed
  <2>1. /\ pc = "flush" /\ pc' = "recv" /\ out.size = 0
        /\ UNCHANGED <<sendVars, recvVars, peerVars, allocFails, result>>
    BY <1>3 DEF Flushed
  <2>2. Failed' = Failed  BY <2>1 DEF Failed
  <2>3. Failed => Stuck'
    BY <2>1 DEF Calls, Stuck, HeadOversized, HeadPartial, HeadComplete, MustGrow
  <2>4. ~Failed => InStep'
    BY <2>1 DEF Calls, InStep, sendVars
  <2> QED  BY <2>1, <2>2, <2>3, <2>4 DEF Calls, sendVars
<1> QED  BY <1>1, <1>2, <1>3
-----------------------------------------------------------------------------
\* The packet that recv() returns to a connection in step is the last one of
\* the reply stream, and nothing follows it in the input buffer.
LEMMA ReadyIsLast ==
  ASSUME Streams, Calls, InStep, pc = "recv", HeadComplete
  PROVE  /\ taken + 1 = issued /\ Len(replies) = issued
         /\ rcvd = replies[taken + 1].end
<1>1. taken = issued - 1 /\ Len(sent) = issued
  BY DEF Calls, InStep
<1>2. taken < Len(replies) /\ Len(replies) <= issued
  BY <1>1 DEF HeadComplete, Calls
<1>3. taken + 1 = issued /\ Len(replies) = issued
  BY <1>1, <1>2, Types
<1>4. StreamEnd = replies[taken + 1].end
  BY <1>2, <1>3, Types DEF StreamEnd
<1>5. rcvd <= StreamEnd
  BY HeadFacts, Types DEF Streams
<1>6. replies[taken + 1].end <= rcvd /\ replies[taken + 1].end \in Nat
  BY <1>2, HeadFacts DEF HeadComplete
<1> QED  BY <1>3, <1>4, <1>5, <1>6, Types

LEMMA ReadyIsNotStuck ==
  ASSUME Streams, pc = "recv", HeadComplete, ~HeadOversized
  PROVE  ~Stuck
<1>1. taken < Len(replies) /\ replies[taken + 1].end <= rcvd
  BY DEF HeadComplete
<1>2. ~(avail < replies[taken + 1].end)
  <2>1. replies[taken + 1].end \in Nat  BY <1>1, HeadFacts
  <2>2. rcvd <= avail  BY DEF Streams
  <2> QED  BY <1>1, <2>1, <2>2, Types
<1> QED  BY <1>1, <1>2 DEF Stuck, HeadPartial

LEMMA CallsRecv ==
  ASSUME EnoughMemory, Streams, Calls,
         RecvEmpty \/ RecvReady \/ RecvOversized \/ RecvPartial \/ RecvNoRoom
  PROVE  Calls'
<1> USE DEF sendVars, peerVars
<1>1. CASE RecvEmpty
  <2>1. /\ pc = "recv" /\ pc' = "read" /\ in.size = 0
        /\ UNCHANGED <<sendVars, recvVars, peerVars, allocFails, result>>
    BY <1>1 DEF RecvEmpty
  <2>2. Failed' = Failed  BY <2>1 DEF Failed
  <2>3. Failed => Stuck'
    BY <2>1 DEF Calls, Stuck, HeadOversized, HeadPartial, recvVars
  <2>4. ~Failed => InStep'
    BY <2>1 DEF Calls, InStep, recvVars
  <2> QED  BY <2>1, <2>2, <2>3, <2>4 DEF Calls
<1>2. CASE RecvReady
  <2>1. /\ pc = "recv" /\ pc' = "idle" /\ HeadComplete /\ ~HeadOversized
        /\ in' = Decr(in, replies[taken + 1].end - HeadStart) /\ taken' = taken + 1
        /\ UNCHANGED <<sendVars, rcvd, peerVars, allocFails>>
        /\ result' = [req |-> issued, reply |-> taken + 1]
    BY <1>2 DEF RecvReady, Return
  <2>2. ~Stuck  BY <2>1, ReadyIsNotStuck
  <2>3. InStep  BY <2>2 DEF Calls
  <2>4. /\ taken + 1 = issued /\ Len(replies) = issued
        /\ rcvd = replies[taken + 1].end
    BY <2>1, <2>3, ReadyIsLast
  <2>5. in'.size = 0
    <3>1. rcvd = HeadStart + in.size /\ HeadStart \in Nat
      BY HeadFacts DEF Streams
    <3>2. in'.size = in.size - (rcvd - HeadStart)  BY <2>1, <2>4 DEF Decr
    <3>3. in.size \in Nat  BY Types
    <3> QED  BY <3>1, <3>2, <3>3
  <2>6. result'.req = issued /\ result'.reply = issued /\ issued > 0
    BY <2>1, <2>4, Types
  <2>7. ~Failed'  BY <2>6 DEF Failed
  <2>8. InStep'
    BY <2>1, <2>3, <2>4, <2>5, <2>6 DEF InStep
  <2> QED  BY <2>1, <2>6, <2>7, <2>8 DEF Calls
<1>3. CASE RecvOversized
  <2>1. /\ pc = "recv" /\ pc' = "idle" /\ HeadOversized
        /\ UNCHANGED <<sendVars, recvVars, peerVars, allocFails>>
        /\ result' = [req |-> issued, reply |-> 0]
    BY <1>3 DEF RecvOversized, Return
  <2>2. Stuck'  BY <2>1 DEF Stuck, HeadOversized, recvVars
  <2>3. result'.req = issued /\ Failed'
    BY <2>1 DEF Calls, Failed
  <2> QED  BY <2>1, <2>2, <2>3 DEF Calls
<1>4. CASE RecvPartial
  <2>1. /\ pc = "recv" /\ pc' = "read" /\ HeadPartial
        /\ MustGrow => CanGrow(in)
        /\ UNCHANGED <<sendVars, rcvd, taken, peerVars, allocFails, result>>
    BY <1>4 DEF RecvPartial
  <2>2. Failed' = Failed  BY <2>1 DEF Failed
  <2>3. Failed => Stuck'
    <3>1. Stuck => peer # "up" /\ (taken < Len(replies) => avail < replies[taken + 1].end)
      BY <2>1 DEF Stuck, HeadPartial
    <3> QED  BY <2>1, <3>1 DEF Calls, Stuck
  <2>4. ~Failed => InStep'
    BY <2>1 DEF Calls, InStep
  <2> QED  BY <2>1, <2>2, <2>3, <2>4 DEF Calls
<1>5. CASE RecvNoRoom
  <2>1. /\ pc = "recv" /\ pc' = "idle" /\ HeadPartial /\ MustGrow /\ GrowFails(in)
        /\ in' = Nice(in)
        /\ UNCHANGED <<sendVars, rcvd, taken, peerVars>>
        /\ result' = [req |-> issued, reply |-> 0]
    BY <1>5 DEF RecvNoRoom, Return
  <2>2. ~CanGrow(in) /\ allocFails' = 0  BY <2>1, NothingRunsOut
  <2>3. in' \in Buffers /\ in'.size = in.size /\ in'.total = in.total
    BY <2>1, NiceMakesRoom, Types
  <2>4. MustGrow'
    <3>1. Space(in') = 0  BY <2>1 DEF MustGrow, Full
    <3>2. Nice(in') = in'
      <4>1. 2 * in'.off <= in.total /\ in.total \in Nat /\ in'.off \in Nat
        BY <2>1, <2>3, NiceMakesRoom, Types DEF Buffers
      <4> QED  BY <2>3, <4>1 DEF Nice
    <3> QED  BY <3>1, <3>2 DEF MustGrow, Full
  <2>5. ~CanGrow(in')  BY <2>2, <2>3 DEF CanGrow, GrownTotal
  <2>6. HeadPartial'
    BY <2>1, <2>3 DEF HeadPartial, HeadComplete, HeadOversized
  <2>7. Stuck'  BY <2>1, <2>4, <2>5, <2>6 DEF Stuck
  <2>8. result'.req = issued /\ Failed'
    BY <2>1 DEF Calls, Failed
  <2> QED  BY <2>1, <2>2, <2>7, <2>8 DEF Calls
<1> QED  BY <1>1, <1>2, <1>3, <1>4, <1>5

LEMMA CallsRead ==
  ASSUME EnoughMemory, Streams, Calls,
         (\E k \in 1..(avail - rcvd) : ReadData(k)) \/ ReadFails
  PROVE  Calls'
<1> USE DEF sendVars, peerVars
<1> in \in Buffers /\ allocFails \in Nat /\ MaxAllocFail \in Nat
  BY LinkAssumption DEF Streams, TypeOK
<1>1. CASE \E k \in 1..(avail - rcvd) : ReadData(k)
  <2> PICK k \in 1..(avail - rcvd) : ReadData(k)  BY <1>1
  <2>1. /\ pc = "read" /\ pc' = "recv" /\ rcvd' = rcvd + k /\ k > 0
        /\ UNCHANGED <<sendVars, taken, peerVars, result>>
    BY DEF ReadData
  <2>2. allocFails' = 0
    <3> PICK g : LazilyGrown(in, g)  BY DEF ReadData
    <3> QED  BY NothingRunsOut
  <2>3. Failed' = Failed  BY <2>1 DEF Failed
  <2>4. Failed => Stuck'
    <3>1. HeadOversized => HeadOversized'
      <4>1. taken < Len(replies) => replies[taken + 1].over \in Nat
        BY HeadFacts
      <4> QED  BY <2>1, <4>1, Types DEF HeadOversized
    <3> QED  BY <2>1, <3>1 DEF Calls, Stuck
  <2>5. ~Failed => InStep'
    BY <2>1 DEF Calls, InStep
  <2> QED  BY <2>1, <2>2, <2>3, <2>4, <2>5 DEF Calls
<1>2. CASE ReadFails
  <2> PICK g \in {in, Grow(in)} :
         /\ LazilyGrown(in, g)
         /\ Full(Nice(g)) \/ (avail = rcvd /\ peer # "up")
    BY <1>2 DEF ReadFails
  <2>1. /\ pc = "read" /\ pc' = "idle"
        /\ UNCHANGED <<sendVars, rcvd, taken, peerVars>>
        /\ result' = [req |-> issued, reply |-> 0]
    BY <1>2 DEF ReadFails, Return
  <2>2. allocFails' = 0  BY NothingRunsOut
  <2>3. ~Full(Nice(g))
    <3>1. CASE g = in
      BY <2>1, <3>1 DEF Streams, NoSpuriousEof
    <3>2. CASE g = Grow(in)
      <4>1. Grow(in) \in Buffers /\ 0 < Space(Grow(in))  BY GrowMakesRoom
      <4>2. Space(Grow(in)) <= Space(Nice(Grow(in)))
        BY <4>1, NiceMakesRoom
      <4>3. Space(Grow(in)) \in Int /\ Space(Nice(Grow(in))) \in Int
        BY <4>1, NiceMakesRoom DEF Space, Buffers
      <4> QED  BY <3>2, <4>1, <4>2, <4>3 DEF Full
    <3> QED  BY <3>1, <3>2
  <2>4. taken < Len(replies) => avail < replies[taken + 1].end
    <3>1. avail = rcvd /\ ~HeadComplete  BY <2>1, <2>3 DEF Streams
    <3>2. taken < Len(replies) => replies[taken + 1].end \in Nat  BY HeadFacts
    <3> QED  BY <3>1, <3>2, Types DEF HeadComplete
  <2>5. Stuck'  BY <2>1, <2>3, <2>4 DEF Stuck
  <2>6. result'.req = issued /\ Failed'
    BY <2>1 DEF Calls, Failed
  <2> QED  BY <2>1, <2>2, <2>5, <2>6 DEF Calls
<1> QED  BY <1>1, <1>2
-----------------------------------------------------------------------------
LEMMA CallsPeer ==
  ASSUME Streams, Calls,
         ServerStep \/ \E how \in {"closed", "reset"} : Disconnect(how)
  PROVE  Calls'
<1> USE DEF sendVars, recvVars
<1>1. CASE ServerStep
  <2> PICK p \in Replies : ServerExecute(p)  BY <1>1 DEF ServerStep
  <2> DEFINE mark == [end  |-> StreamEnd + p.len,
                      over |-> IF p.over = 0 THEN 0 ELSE StreamEnd + p.over]
  <2>1. /\ peer = "up" /\ Len(replies) < Len(sent)
        /\ replies' = Append(replies, mark)
        /\ UNCHANGED <<pc, sendVars, recvVars, peer, allocFails, result>>
    BY DEF ServerExecute
  <2>2. mark \in ReplyPackets
    <3>1. p.len \in Nat /\ p.over \in Nat  BY LinkAssumption
    <3> QED  BY <3>1, HeadFacts DEF ReplyPackets
  <2>3. /\ Len(replies') = Len(replies) + 1
        /\ \A i \in 1..Len(replies) : replies'[i] = replies[i]
    BY <2>1, <2>2, HeadFacts
  <2>4. Failed' = Failed  BY <2>1 DEF Failed
  <2>5. Failed => Stuck'
    <3> SUFFICES ASSUME Stuck PROVE Stuck'
      BY DEF Calls
    <3> HIDE DEF mark
    <3>0. taken < Len(replies) => /\ taken < Len(replies')
                                  /\ replies'[taken + 1] = replies[taken + 1]
      <4>1. taken \in Nat /\ Len(replies) \in Nat  BY Types
      <4> QED  BY <2>3, <4>1
    <3>1. HeadOversized => HeadOversized'
      BY <2>1, <3>0 DEF HeadOversized
    <3>2. HeadPartial => HeadPartial'
      <4> SUFFICES ASSUME HeadPartial PROVE HeadPartial'
        OBVIOUS
      <4>1. taken < Len(replies) /\ rcvd < replies[taken + 1].end
        BY PartialHeadExists
      <4> QED
        BY <2>1, <3>0, <4>1
        DEF HeadPartial, HeadComplete, HeadOversized
    <3> QED  BY <2>1, <3>1, <3>2 DEF Stuck, MustGrow
  <2>6. ~Failed => InStep'
    BY <2>1 DEF Calls, InStep, Before
  <2>7. Len(replies') <= Len(sent')  BY <2>1, <2>3, Types
  <2> QED  BY <2>1, <2>4, <2>5, <2>6, <2>7 DEF Calls
<1>2. CASE \E how \in {"closed", "reset"} : Disconnect(how)
  <2>1. /\ peer' \in {"closed", "reset"} /\ (peer # "up" => peer = "closed")
        /\ avail' \in rcvd..avail
        /\ UNCHANGED <<pc, sendVars, recvVars, replies, allocFails, result>>
    BY <1>2 DEF Disconnect
  <2>2. Failed' = Failed  BY <2>1 DEF Failed
  <2>3. Failed => Stuck'
    <3> SUFFICES ASSUME Stuck PROVE Stuck'
      BY DEF Calls
    <3>1. CASE peer # "up" /\ (taken < Len(replies) => avail < replies[taken + 1].end)
      <4>1. taken < Len(replies) => replies[taken + 1].end \in Nat  BY HeadFacts
      <4>2. taken < Len(replies) => avail' < replies[taken + 1].end
        BY <2>1, <3>1, <4>1, Types
      <4> QED  BY <2>1, <4>2 DEF Stuck
    <3>2. CASE HeadOversized  BY <2>1, <3>2 DEF Stuck, HeadOversized
    <3>3. CASE HeadPartial /\ MustGrow /\ ~CanGrow(in) /\ pc # "read"
      BY <2>1, <3>3 DEF Stuck, HeadPartial, HeadComplete, HeadOversized, MustGrow
    <3>4. peer # "reset"  BY <2>1
    <3> QED  BY <3>1, <3>2, <3>3, <3>4 DEF Stuck
  <2>4. ~Failed => InStep'
    BY <2>1 DEF Calls, InStep, Before
  <2> QED  BY <2>1, <2>2, <2>3, <2>4 DEF Calls
<1> QED  BY <1>1, <1>2

LEMMA CallsStep ==
  ASSUME EnoughMemory
  PROVE  Streams /\ OutputNear /\ Calls /\ [Next]_vars => Calls'
<1> SUFFICES ASSUME Streams, OutputNear, Calls, [Next]_vars PROVE Calls'
  OBVIOUS
<1>1. CASE Next
  BY <1>1, CallsIssue, CallsAppendPiece, CallsAppendMisfit, CallsFlush, CallsRecv,
     CallsRead, CallsPeer
  DEF Next, ClientStep
<1>2. CASE UNCHANGED vars
  BY <1>2
  DEF vars, sendVars, recvVars, peerVars, Calls, Failed, Stuck, InStep, HeadOversized,
      HeadPartial, HeadComplete, MustGrow, Before
<1> QED  BY <1>1, <1>2

THEOREM CallsAlways ==
  ASSUME EnoughMemory
  PROVE  Spec => [](Streams /\ Calls)
<1>1. Init => Streams /\ Calls  BY StreamsInit, CallsInit
<1>2. Streams /\ OutputNear /\ Calls /\ [Next]_vars => (Streams /\ Calls)'
  BY StreamsStep, CallsStep
<1> QED  BY <1>1, <1>2, OutputNearAlways, PTL DEF Spec
-----------------------------------------------------------------------------
LEMMA Answered ==
  ASSUME Streams, Calls, result.reply > 0
  PROVE  /\ result.reply = result.req /\ result.reply \in 1..Len(sent)
         /\ sent[result.reply].req = result.req /\ sent[result.reply].whole
<1>1. InStep  BY Types DEF Calls, Failed
<1>2. result.reply = result.req /\ result.reply = taken
  BY <1>1 DEF InStep
<1>3. taken <= Len(replies) /\ Len(replies) <= Len(sent)
  BY DEF Streams, Calls
<1>4. result.reply \in 1..Len(sent)
  BY <1>2, <1>3, Types
<1> QED  BY <1>1, <1>2, <1>4 DEF InStep

(* Given memory, the reply a call returns is the reply to that very call,   *)
(* for every pattern of partial writes and reads, every number of calls and *)
(* every way the connection may break (SSDB_impl.cpp:70-87, link.cpp:433).  *)
THEOREM RepliesMatch ==
  ASSUME EnoughMemory
  PROVE  Spec => []ReplyMatches
<1>1. Streams /\ Calls => ReplyMatches
  BY Answered DEF ReplyMatches
<1> QED  BY <1>1, CallsAlways, PTL

(* ... and it answers all the records of the request (link.cpp:378-381).    *)
THEOREM WholeRequestsAnswered ==
  ASSUME EnoughMemory
  PROVE  Spec => []AnswersWholeRequest
<1>1. Streams /\ Calls => AnswersWholeRequest
  BY Answered DEF AnswersWholeRequest
<1> QED  BY <1>1, CallsAlways, PTL

(* Given memory, a connection that has failed once never again reports      *)
(* success, although nothing in Link remembers the failure (error_ of       *)
(* link.h:53-58 is never set).                                              *)
THEOREM FailuresAreFinal ==
  ASSUME EnoughMemory
  PROVE  Spec => FailStop
<1>1. Streams /\ Calls /\ [Next]_vars => [Failed => result'.reply = 0]_vars
  <2> SUFFICES ASSUME Streams, Calls, Next, Failed PROVE result'.reply = 0
    OBVIOUS
  <2>1. ~RecvReady
    BY ReadyIsNotStuck DEF RecvReady, Calls
  <2>2. result' = result \/ result' = [req |-> issued, reply |-> 0]
    BY <2>1
    DEF Next, Issue, ClientStep, AppendPiece, AppendGrow, AppendFails, Write, WriteFails,
        Flushed, RecvEmpty, RecvOversized, RecvPartial, RecvNoRoom, ReadData, ReadFails,
        ServerStep, ServerExecute, Disconnect, Return
  <2> QED  BY <2>2 DEF Failed
<1> QED  BY <1>1, CallsAlways, PTL DEF Spec, FailStop

(* Given memory, nothing of an answered call stays behind in the buffers,   *)
(* the streams or the server (link.cpp:250-260, 303-307).                   *)
THEOREM NothingLeftBehind ==
  ASSUME EnoughMemory
  PROVE  Spec => []Quiescent
<1>1. Streams /\ Calls => Quiescent
  <2> SUFFICES ASSUME Streams, Calls, pc = "idle", ~Failed
               PROVE  /\ out.size = 0 /\ in.size = 0
                      /\ rcvd = StreamEnd
                      /\ Len(replies) = issued /\ Len(sent) = issued
    BY DEF Quiescent
  <2>1. /\ out.size = 0 /\ in.size = 0 /\ taken = issued /\ Len(sent) = issued
    BY DEF Calls, InStep
  <2>2. Len(replies) = issued
    BY <2>1, Types DEF Streams, Calls
  <2>3. HeadStart = StreamEnd
    BY <2>1, <2>2, Types, HeadFacts DEF HeadStart, StreamEnd
  <2>4. rcvd = StreamEnd
    BY <2>1, <2>3, HeadFacts DEF Streams
  <2> QED  BY <2>1, <2>2, <2>4
<1> QED  BY <1>1, CallsAlways, PTL
-----------------------------------------------------------------------------
\* Outside recv() no whole reply rests in the input buffer, save one that the
\* connection will never get past.
Resting == pc # "recv" => ~HeadComplete \/ HeadOversized

LEMMA RestingInit == Init => Resting
  BY DEF Init, Resting, HeadComplete

\* A step that reads nothing and takes nothing leaves the head as it is.
LEMMA SameHead ==
  ASSUME UNCHANGED <<rcvd, taken, replies>>
  PROVE  HeadComplete' = HeadComplete /\ HeadOversized' = HeadOversized
  BY DEF HeadComplete, HeadOversized

LEMMA RestingRecvReady ==
  ASSUME Streams, Calls, RecvReady
  PROVE  Resting'
<1>1. pc = "recv" /\ HeadComplete /\ ~HeadOversized
      /\ taken' = taken + 1 /\ replies' = replies
  BY DEF RecvReady, peerVars
<1>2. InStep  BY <1>1, ReadyIsNotStuck DEF Calls
<1>3. taken + 1 = Len(replies)  BY <1>1, <1>2, ReadyIsLast
<1> QED  BY <1>1, <1>3, Types DEF Resting, HeadComplete

\* A reply that the server only now sends has not been read.
LEMMA RestingServerStep ==
  ASSUME Streams, Resting, ServerStep
  PROVE  Resting'
<1> PICK p \in Replies : ServerExecute(p)  BY DEF ServerStep
<1> DEFINE mark == [end  |-> StreamEnd + p.len,
                    over |-> IF p.over = 0 THEN 0 ELSE StreamEnd + p.over]
<1>1. /\ replies' = Append(replies, mark)
      /\ UNCHANGED <<pc, rcvd, taken>>
  BY DEF ServerExecute, recvVars
<1>2. p.len \in Nat /\ p.over \in Nat /\ p.len > 0 /\ StreamEnd \in Nat
  BY LinkAssumption, HeadFacts
<1>3. mark \in ReplyPackets  BY <1>2 DEF ReplyPackets
<1>4. /\ Len(replies') = Len(replies) + 1
      /\ replies'[Len(replies) + 1] = mark
      /\ \A i \in 1..Len(replies) : replies'[i] = replies[i]
  BY <1>1, <1>3, HeadFacts
<1>5. mark.end > rcvd
  <2>1. rcvd <= StreamEnd  BY HeadFacts, Types DEF Streams
  <2> QED  BY <1>2, <2>1, Types
<1> HIDE DEF mark
<1>6. CASE taken < Len(replies)
  <2>1. taken < Len(replies') /\ replies'[taken + 1] = replies[taken + 1]
    <3>1. taken \in Nat /\ Len(replies) \in Nat  BY Types
    <3> QED  BY <1>4, <1>6, <3>1
  <2> QED  BY <1>1, <1>6, <2>1 DEF Resting, HeadComplete, HeadOversized
<1>7. CASE taken = Len(replies)
  <2>1. mark.end \in Nat  BY <1>3 DEF ReplyPackets
  <2> QED  BY <1>1, <1>4, <1>5, <1>7, <2>1, Types DEF Resting, HeadComplete
<1> QED  BY <1>6, <1>7, Types DEF Streams

LEMMA RestingStep ==
  Streams /\ Calls /\ Resting /\ [Next]_vars => Resting'
<1> SUFFICES ASSUME Streams, Calls, Resting, [Next]_vars PROVE Resting'
  OBVIOUS
<1> USE DEF sendVars, recvVars, peerVars
<1>1. CASE \E r \in Requests : Issue(r)
  BY <1>1, SameHead DEF Issue, Resting
<1>2. CASE AppendPiece \/ AppendGrow \/ AppendFails
  BY <1>2, SameHead DEF AppendPiece, AppendGrow, AppendFails, Resting
<1>3. CASE (\E k \in 1..out.size : Write(k)) \/ WriteFails \/ Flushed
  BY <1>3, SameHead DEF Write, WriteFails, Flushed, Resting
<1>4. CASE RecvEmpty
  <2>1. UNCHANGED <<rcvd, taken, replies>> /\ in.size = 0
    BY <1>4 DEF RecvEmpty
  <2>2. rcvd = HeadStart  BY <2>1, HeadFacts, Types DEF Streams
  <2>3. ~HeadComplete
    <3> SUFFICES ASSUME taken < Len(replies)
                 PROVE  ~(replies[taken + 1].end <= rcvd)
      BY DEF HeadComplete
    <3>1. taken + 1 \in 1 .. Len(replies)  BY HeadFacts
    <3>2. /\ replies[taken + 1].end \in Nat /\ HeadStart \in Nat
          /\ HeadStart < replies[taken + 1].end
      BY <3>1, HeadFacts
    <3> PICK x \in Nat, y \in Nat : x = replies[taken + 1].end /\ y = HeadStart  BY <3>2
    <3>3. y < x /\ rcvd = y  BY <2>2, <3>2
    <3> QED  BY <3>3
  <2> QED  BY <2>1, <2>3, SameHead DEF Resting
<1>5. CASE RecvReady  BY <1>5, RestingRecvReady
<1>6. CASE RecvOversized \/ RecvPartial \/ RecvNoRoom
  BY <1>6, SameHead DEF RecvOversized, RecvPartial, RecvNoRoom, HeadPartial, Resting
<1>7. CASE \E k \in 1..(avail - rcvd) : ReadData(k)
  BY <1>7 DEF ReadData, Resting
<1>8. CASE ReadFails
  BY <1>8, SameHead DEF ReadFails, Resting
<1>9. CASE ServerStep  BY <1>9, RestingServerStep
<1>10. CASE \E how \in {"closed", "reset"} : Disconnect(how)
  BY <1>10, SameHead DEF Disconnect, Resting
<1>11. CASE UNCHANGED vars
  BY <1>11, SameHead DEF vars, Resting
<1> QED
  BY <1>1, <1>2, <1>3, <1>4, <1>5, <1>6, <1>7, <1>8, <1>9, <1>10, <1>11
  DEF Next, ClientStep

(* Given memory, a call never returns NULL with its whole reply already in  *)
(* the input buffer, whatever the order in which the last bytes of the reply*)
(* and the end of the connection arrive (SSDB_impl.cpp:75-87).              *)
THEOREM ReadyRepliesReturned ==
  ASSUME EnoughMemory
  PROVE  Spec => ReadyIsReturned
<1>1. Streams /\ Calls /\ Resting /\ [Next]_vars
        => [result'.req > result.req /\ result'.reply = 0
              => ~HeadComplete' \/ HeadOversized']_vars
  <2> SUFFICES ASSUME Streams, Calls, Resting, Next,
                      result'.req > result.req, result'.reply = 0
               PROVE  ~HeadComplete' \/ HeadOversized'
    OBVIOUS
  <2>1. result' # result  BY Types
  <2>2. pc' = "idle"
    BY <2>1
    DEF Next, Issue, ClientStep, AppendPiece, AppendGrow, AppendFails, Write, WriteFails,
        Flushed, RecvEmpty, RecvReady, RecvOversized, RecvPartial, RecvNoRoom, ReadData,
        ReadFails, ServerStep, ServerExecute, Disconnect, Return
  <2>3. Resting'  BY RestingStep
  <2> QED  BY <2>2, <2>3 DEF Resting
<1>2. Init => Resting  BY RestingInit
<1>3. Streams /\ Calls /\ Resting /\ [Next]_vars => Resting'  BY RestingStep
<1> QED  BY <1>1, <1>2, <1>3, CallsAlways, PTL DEF Spec, ReadyIsReturned
-----------------------------------------------------------------------------
(* Given memory, the connection implements the abstract channel: calls are  *)
(* executed at most once and in order, a reply is the reply to its own      *)
(* call, and the first failure is the last word.                            *)
THEOREM Refinement ==
  ASSUME EnoughMemory
  PROVE  Spec => ImplementsChannel
<1>1. Init => Chan!Init
  BY DEF Init, Chan!Init, Failed
<1>2. Streams /\ Calls /\ [Next]_vars => [Chan!Next]_Chan!vars
  <2> SUFFICES ASSUME Streams, Calls, [Next]_vars PROVE [Chan!Next]_Chan!vars
    OBVIOUS
  <2> USE DEF Chan!vars, Chan!Next, sendVars, recvVars, peerVars
  <2>1. CASE \E r \in Requests : Issue(r)
    BY <2>1 DEF Issue, Chan!Call, Failed
  <2>2. CASE \/ AppendPiece \/ AppendGrow \/ AppendFails
             \/ \E k \in 1..out.size : Write(k)
    BY <2>2 DEF AppendPiece, AppendGrow, AppendFails, NextPiece, Write, Failed
  <2>3. CASE Flushed \/ RecvEmpty \/ RecvPartial
    BY <2>3 DEF Flushed, RecvEmpty, RecvPartial, Failed
  <2>4. CASE \E k \in 1..(avail - rcvd) : ReadData(k)
    BY <2>4 DEF ReadData, Failed
  <2>5. CASE WriteFails \/ RecvOversized \/ RecvNoRoom \/ ReadFails
    <3>1. /\ pc # "idle" /\ pc' = "idle" /\ replies' = replies /\ issued' = issued
          /\ result' = [req |-> issued, reply |-> 0]
      BY <2>5 DEF WriteFails, RecvOversized, RecvNoRoom, ReadFails, Return
    <3>2. Failed'
      BY <3>1, Types DEF Calls, Failed
    <3> QED  BY <3>1, <3>2 DEF Chan!Fail
  <2>6. CASE RecvReady
    <3>1. /\ pc = "recv" /\ pc' = "idle" /\ HeadComplete /\ ~HeadOversized
          /\ replies' = replies /\ issued' = issued
          /\ result' = [req |-> issued, reply |-> taken + 1]
      BY <2>6 DEF RecvReady, Return
    <3>2. ~Failed  BY <3>1, ReadyIsNotStuck DEF Calls
    <3>3. taken + 1 = issued /\ Len(replies) = issued
      BY <3>1, <3>2, ReadyIsLast DEF Calls
    <3>4. result' = [req |-> issued, reply |-> issued]  BY <3>1, <3>3
    <3>5. ~Failed'
      BY <3>1, <3>3, <3>4, Types DEF Failed, Calls
    <3>6. Failed' = Failed  BY <3>2, <3>5 DEF Failed
    <3>7. pc # "idle" /\ ~(pc' # "idle")  BY <3>1
    <3>8. Chan!Reply
      BY <3>1, <3>2, <3>3, <3>4, <3>6, <3>7 DEF Chan!Reply
    <3> QED  BY <3>8
  <2>7. CASE ServerStep
    <3> PICK p \in Replies : ServerExecute(p)  BY <2>7 DEF ServerStep
    <3>1. Len(replies) < Len(sent) /\ UNCHANGED <<pc, issued, result>>
      BY DEF ServerExecute
    <3>2. Len(replies') = Len(replies) + 1
      <4>1. p.len \in Nat /\ p.over \in Nat  BY LinkAssumption
      <4>2. [end  |-> StreamEnd + p.len,
             over |-> IF p.over = 0 THEN 0 ELSE StreamEnd + p.over] \in ReplyPackets
        BY <4>1, HeadFacts DEF ReplyPackets
      <4> QED  BY <4>2, HeadFacts DEF ServerExecute
    <3>3. Len(replies) < issued
      <4>1. Len(sent) <= issued  BY Types DEF Calls
      <4> QED  BY <3>1, <4>1, Types
    <3>4. Failed' = Failed  BY <3>1 DEF Failed
    <3> QED  BY <3>1, <3>2, <3>3, <3>4 DEF Chan!Execute
  <2>8. CASE \E how \in {"closed", "reset"} : Disconnect(how)
    BY <2>8 DEF Disconnect, Failed
  <2>9. CASE UNCHANGED vars
    BY <2>9 DEF vars, Failed
  <2> QED
    BY <2>1, <2>2, <2>3, <2>4, <2>5, <2>6, <2>7, <2>8, <2>9 DEF Next, ClientStep
<1> QED
  BY <1>1, <1>2, CallsAlways, PTL DEF Spec, ImplementsChannel, Chan!Spec
-----------------------------------------------------------------------------
(* The same calls over a non-blocking socket.  Replies may be left to later *)
(* calls, so the invariant only bounds: packet j is not of a call before j, *)
(* and no call takes a reply that is not there.                             *)

NbAsked == \A j \in 1..Len(sent) : j <= sent[j].req /\ sent[j].req <= issued

\* Where nothing is left to write: flush() has come to its end.
NbFlushed == \/ pc \in {"recv", "read", "loop"}
             \/ pc = "idle" /\ result.reply > 0

NbCalls ==
  /\ pc # "idle" => issued > 0
  /\ result.req = IF pc = "idle" THEN issued ELSE issued - 1
  /\ result.reply <= taken
  /\ Len(replies) <= Len(sent)
  /\ Len(sent) <= IF pc = "append" THEN issued - 1 ELSE issued
  /\ NbAsked
  /\ NbFlushed => out.size = 0

LEMMA NbTypes ==
  ASSUME NbStreams
  PROVE  /\ Placed
         /\ issued \in Nat /\ taken \in Nat /\ rcvd \in Nat /\ avail \in Nat
         /\ result.req \in Nat /\ result.reply \in Nat
         /\ sent \in Seq(SentPackets) /\ Len(sent) \in Nat /\ Len(replies) \in Nat
         /\ in.size \in Nat /\ out.size \in Nat
<1>1. Placed  BY DEF NbStreams
<1>2. in.size \in Nat /\ out.size \in Nat  BY <1>1 DEF Placed, Buffers
<1>3. result.req \in Nat /\ result.reply \in Nat  BY <1>1 DEF Placed
<1> QED  BY <1>1, <1>2, <1>3 DEF Placed

LEMMA NbCallsSend ==
  ASSUME NbStreams, NbCalls,
         \/ \E r \in Requests : Issue(r)
         \/ AppendPiece \/ AppendGrow \/ AppendFails \/ Flushed
  PROVE  NbCalls'
<1> USE NbTypes DEF recvVars, peerVars
<1>1. CASE \E r \in Requests : Issue(r)
  <2>1. /\ pc = "idle" /\ pc' = "append" /\ issued' = issued + 1
        /\ UNCHANGED <<sent, replies, taken, result>>
    BY <1>1 DEF Issue
  <2>2. NbAsked'
    <3> SUFFICES ASSUME NEW j \in 1..Len(sent)
                 PROVE  j <= sent[j].req /\ sent[j].req <= issued + 1
      BY <2>1 DEF NbAsked
    <3>1. sent[j] \in SentPackets  BY ElementOfSeq
    <3>2. sent[j].req \in Nat  BY <3>1 DEF SentPackets
    <3> QED  BY <3>2 DEF NbCalls, NbAsked
  <2> QED  BY <2>1, <2>2 DEF NbCalls, NbFlushed
<1>2. CASE AppendPiece
  <2>1. /\ pc = "append" /\ pc' \in {"append", "flush"}
        /\ UNCHANGED <<issued, replies, taken, result>>
    BY <1>2 DEF AppendPiece, NextPiece
  <2>2. CASE sent' = sent
    <3>1. NbAsked'  BY <2>1, <2>2 DEF NbCalls, NbAsked
    <3> QED  BY <2>1, <2>2, <3>1 DEF NbCalls, NbFlushed
  <2>3. CASE sent' # sent
    <3> DEFINE packet == [end   |-> flushed + out.size + 1,
                          req   |-> issued,
                          whole |-> intact]
    <3>1. sent' = Append(sent, packet) /\ pc' = "flush"
      BY <1>2, <2>3 DEF AppendPiece, NextPiece
    <3>2. /\ Len(sent') = Len(sent) + 1
          /\ sent'[Len(sent) + 1] = packet
          /\ \A j \in 1..Len(sent) : sent'[j] = sent[j]
      BY <3>1
    <3>3. NbAsked'
      <4> SUFFICES ASSUME NEW j \in 1..Len(sent')
                   PROVE  j <= sent'[j].req /\ sent'[j].req <= issued
        BY <2>1 DEF NbAsked
      <4>1. CASE j \in 1..Len(sent)
        BY <3>2, <4>1 DEF NbCalls, NbAsked
      <4>2. CASE j = Len(sent) + 1
        <5>1. sent'[j].req = issued  BY <3>2, <4>2
        <5> QED  BY <2>1, <4>2, <5>1 DEF NbCalls
      <4> QED  BY <3>2, <4>1, <4>2
    <3> QED  BY <2>1, <3>1, <3>2, <3>3 DEF NbCalls, NbFlushed
  <2> QED  BY <2>2, <2>3
<1>3. CASE AppendGrow \/ AppendFails
  <2>1. /\ pc = "append" /\ pc' \in {"append", "flush"}
        /\ UNCHANGED <<issued, sent, replies, taken, result>>
    BY <1>3 DEF AppendGrow, AppendFails, NextPiece
  <2>2. NbAsked'  BY <2>1 DEF NbCalls, NbAsked
  <2> QED  BY <2>1, <2>2 DEF NbCalls, NbFlushed
<1>4. CASE Flushed
  <2>1. /\ pc = "flush" /\ pc' = "recv" /\ out'.size = 0
        /\ UNCHANGED <<issued, sent, replies, taken, result>>
    BY <1>4 DEF Flushed, sendVars
  <2>2. NbAsked'  BY <2>1 DEF NbCalls, NbAsked
  <2> QED  BY <2>1, <2>2 DEF NbCalls, NbFlushed
<1> QED  BY <1>1, <1>2, <1>3, <1>4

\* Every way out of flush() and response(): with the first packet of the input
\* or with nothing.
LEMMA NbCallsReturn ==
  ASSUME NbStreams, NbCalls, NEW j \in Nat, pc # "idle", pc # "append", Return(j),
         UNCHANGED <<out, issued, sent, replies>>,
         taken' \in Nat, taken <= taken', j <= taken', j > 0 => NbFlushed
  PROVE  NbCalls'
<1>1. /\ pc' = "idle" /\ result'.req = issued /\ result'.reply = j
  BY DEF Return
<1>2. NbAsked'  BY DEF NbCalls, NbAsked
<1> QED  BY <1>1, <1>2, NbTypes DEF NbCalls, NbFlushed

LEMMA NbCallsRecv ==
  ASSUME NbStreams, NbCalls,
         \/ RecvEmpty \/ RecvReady \/ RecvOversized \/ RecvPartial \/ RecvNoRoom
  PROVE  NbCalls'
<1> USE NbTypes DEF sendVars, recvVars, peerVars
<1>1. CASE RecvEmpty \/ RecvPartial
  <2>1. /\ pc = "recv" /\ pc' = "read"
        /\ UNCHANGED <<out, issued, sent, replies, taken, result>>
    BY <1>1 DEF RecvEmpty, RecvPartial
  <2>2. NbAsked'  BY <2>1 DEF NbCalls, NbAsked
  <2> QED  BY <2>1, <2>2 DEF NbCalls, NbFlushed
<1>2. CASE RecvReady
  <2>1. /\ pc = "recv" /\ Return(taken + 1) /\ taken' = taken + 1
        /\ UNCHANGED <<out, issued, sent, replies>>
    BY <1>2 DEF RecvReady
  <2>2. pc # "idle" /\ pc # "append" /\ NbFlushed  BY <2>1 DEF NbFlushed
  <2> QED  BY <2>1, <2>2, NbCallsReturn
<1>3. CASE RecvOversized \/ RecvNoRoom
  <2>1. /\ pc = "recv" /\ Return(0) /\ UNCHANGED <<out, issued, sent, replies, taken>>
    BY <1>3 DEF RecvOversized, RecvNoRoom
  <2> QED  BY <2>1, NbCallsReturn
<1> QED  BY <1>1, <1>2, <1>3

LEMMA NbCallsSocket ==
  ASSUME NbStreams, NbCalls, NbSocket
  PROVE  NbCalls'
<1> USE NbTypes DEF sendVars, recvVars, peerVars
<1>1. CASE NbWriteFails \/ NbReadNothing \/ NbReadEnds
  <2>1. /\ pc \in {"write", "loop"} /\ Return(0)
        /\ UNCHANGED <<out, issued, sent, replies, taken>>
    BY <1>1 DEF NbWriteFails, NbReadNothing, NbReadEnds
  <2> QED  BY <2>1, NbCallsReturn
<1>2. CASE NbWriteBegins \/ (\E k \in 1..out.size : NbWrite(k)) \/ NbWriteReturns
  <2>1. /\ pc \in {"flush", "write"} /\ pc' \in {"flush", "write"}
        /\ UNCHANGED <<issued, sent, replies, taken, result>>
    BY <1>2 DEF NbWriteBegins, NbWrite, NbWriteReturns
  <2>2. NbAsked'  BY <2>1 DEF NbCalls, NbAsked
  <2> QED  BY <2>1, <2>2 DEF NbCalls, NbFlushed
<1>3. CASE NbReadBegins \/ (\E k \in 1..(avail - rcvd) : NbRead(k)) \/ NbReadReturns
  <2>1. /\ pc \in {"read", "loop"} /\ pc' \in {"recv", "loop"}
        /\ UNCHANGED <<out, issued, sent, replies, taken, result>>
    BY <1>3 DEF NbReadBegins, NbRead, NbReadReturns
  <2>2. NbAsked'  BY <2>1 DEF NbCalls, NbAsked
  <2> QED  BY <2>1, <2>2 DEF NbCalls, NbFlushed
<1> QED  BY <1>1, <1>2, <1>3 DEF NbSocket

LEMMA NbCallsPeer ==
  ASSUME NbStreams, NbCalls, NbPeer
  PROVE  NbCalls'
<1> USE NbTypes DEF sendVars, recvVars
<1>1. UNCHANGED <<pc, out, issued, sent, taken, result>>
  BY DEF NbPeer, ServerStep, ServerExecute, Disconnect
<1>2. Len(replies') <= Len(sent)
  <2>1. CASE ServerStep
    BY <2>1 DEF ServerStep, ServerExecute, Placed
  <2>2. CASE \E how \in {"closed", "reset"} : Disconnect(how)
    BY <2>2 DEF Disconnect, NbCalls
  <2> QED  BY <2>1, <2>2 DEF NbPeer
<1>3. NbAsked'  BY <1>1 DEF NbCalls, NbAsked
<1> QED  BY <1>1, <1>2, <1>3 DEF NbCalls, NbFlushed

LEMMA NbCallsAlways == NbSpec => []NbCalls
<1>1. NbInit => NbCalls
  BY DEF NbInit, Init, NbCalls, NbAsked, NbFlushed
<1>2. NbStreams /\ NbCalls /\ [NbNext]_nbVars => NbCalls'
  <2> SUFFICES ASSUME NbStreams, NbCalls, [NbNext]_nbVars PROVE NbCalls'
    OBVIOUS
  <2>1. CASE NbBuffers
    BY <2>1, NbCallsSend, NbCallsRecv DEF NbBuffers
  <2>2. CASE UNCHANGED nbVars
    BY <2>2 DEF nbVars, vars, sendVars, recvVars, peerVars, NbCalls, NbAsked, NbFlushed
  <2> QED  BY <2>1, <2>2, NbCallsSocket, NbCallsPeer DEF NbNext
<1> QED  BY <1>1, <1>2, NbStreamsAlways, PTL DEF NbSpec

(* Only a call that comes back without its reply puts a non-blocking        *)
(* connection out of step: one that brings the replies even with the calls  *)
(* has its own, and leaves nothing behind (link.cpp:433-457), for all       *)
(* requests, replies and buffer sizes and whether or not memory runs out.   *)
THEOREM OutOfStepOnlyUnanswered == NbSpec => []NbInStep
<1>1. NbStreams /\ NbCalls => NbInStep
  <2> SUFFICES ASSUME NbStreams, NbCalls,
                      pc = "idle", result.reply > 0, result.reply = issued
               PROVE  ReplyMatches /\ out.size = 0 /\ in.size = 0
    BY DEF NbInStep
  <2>1. taken = issued /\ Len(replies) = issued /\ Len(sent) = issued
    BY NbTypes DEF NbCalls, Placed
  <2>2. ReplyMatches
    <3>1. issued \in 1..Len(sent)  BY <2>1, NbTypes
    <3>2. sent[issued].req \in Nat
      <4>1. sent[issued] \in SentPackets  BY <3>1, NbTypes, ElementOfSeq
      <4> QED  BY <4>1 DEF SentPackets
    <3>3. sent[issued].req = issued
      BY <3>1, <3>2, NbTypes DEF NbCalls, NbAsked
    <3> QED  BY <2>1, <3>3 DEF NbCalls, ReplyMatches
  <2>3. in.size = 0
    <3>1. HeadStart = StreamEnd
      <4>1. replies # <<>>  BY <2>1, NbTypes
      <4> QED  BY <2>1, <4>1, NbTypes DEF HeadStart, StreamEnd
    <3>2. HeadStart \in Nat  BY NbTypes, PlacedFacts
    <3> QED  BY <3>1, <3>2, NbTypes DEF Placed
  <2> QED  BY <2>2, <2>3 DEF NbCalls, NbFlushed
<1> QED  BY <1>1, NbStreamsAlways, NbCallsAlways, PTL
=============================================================================
