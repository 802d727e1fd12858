-------------------------------- MODULE Views --------------------------------
(***************************************************************************)
(* The bytes in the input buffer, and the Bytes that recv() hands out:     *)
(* pointers into the buffer's block, which nice() moves things about in,   *)
(* read() writes to and realloc() may move.  Module Buffer knows only      *)
(* where the run of unconsumed bytes is; here each cell of the block holds *)
(* the number of the byte of the stream that was last put there.           *)
(*                                                                         *)
(* ClientImpl::request copies the records before it returns, and last_recv *)
(* hands them out for as long as the caller likes: the caller here calls   *)
(* recv() and read() in any order and keeps all the Bytes it ever got.     *)
(***************************************************************************)
EXTENDS Buffer, Sequences

CONSTANT Streams         \* where the packets of the stream may end

ASSUME ViewsAssumption ==
  \A s \in Streams : /\ s \in Seq(Nat \ {0})
                     /\ \A i \in 2 .. Len(s) : s[i - 1] < s[i]

VARIABLES ends,          \* where the packets end in this stream
          in,            \* Link::input: a record of module Buffer
          block,         \* which block it is: realloc() may return another
          mem,           \* the cells of the block
          rcvd,          \* bytes read
          taken,         \* packets returned by recv()
          views          \* the Bytes returned: where, and which bytes they were

vars == <<ends, in, block, mem, rcvd, taken, views>>

Unwritten == 0

\* Mutant of NiceMem: the run is declared moved but not copied.
NiceMemForgotten(b, m) == m

\* Mutant of NiceMem: nice() clears the cells it no longer needs.
NiceMemCleared(b, m) ==
  IF Nice(b) = b THEN m
  ELSE [ i \in DOMAIN m |-> IF i < b.size THEN m[b.off + i] ELSE Unwritten ]

\* The cells after nice(): memcpy(buf, data_, size_), which never overlaps
\* (theorem NiceMovesDisjoint).
NiceMem(b, m) ==
  IF Nice(b) = b THEN m
  ELSE [ i \in DOMAIN m |-> IF i < b.size THEN m[b.off + i] ELSE m[i] ]

\* realloc() keeps what the block held.
GrowMem(b, m) ==
  [ i \in 0 .. GrownTotal(b) - 1 |-> IF i < b.total THEN m[i] ELSE Unwritten ]

\* The next k bytes of the stream, written at slot().
ReadMem(b, m, k) ==
  [ i \in DOMAIN m |-> IF i \in b.off + b.size .. b.off + b.size + k - 1
                         THEN rcvd + i - (b.off + b.size) + 1 ELSE m[i] ]
-----------------------------------------------------------------------------
StreamLength == IF ends = <<>> THEN 0 ELSE ends[Len(ends)]
HeadStart == IF taken = 0 THEN 0 ELSE ends[taken]
HeadComplete == taken < Len(ends) /\ ends[taken + 1] <= rcvd

\* The Bytes of the packet at the head of the input.
HeadView == [block |-> block, start |-> in.off, first |-> HeadStart + 1,
             len |-> ends[taken + 1] - HeadStart]

\* Mutant of RecvReady: makes room as soon as a packet is consumed.
RecvReadyAndNice ==
  /\ HeadComplete
  /\ views' = Append(views, HeadView)
  /\ in' = Nice(Decr(in, HeadView.len))
  /\ mem' = NiceMem(Decr(in, HeadView.len), mem)
  /\ taken' = taken + 1
  /\ UNCHANGED <<ends, block, rcvd>>

RecvReady ==
  /\ HeadComplete
  /\ views' = Append(views, HeadView)
  /\ in' = Decr(in, HeadView.len)
  /\ taken' = taken + 1
  /\ UNCHANGED <<ends, block, mem, rcvd>>

Full(b) == Space(b) = 0

\* recv() of an incomplete packet: nice() if the buffer is full ...
RecvNice ==
  /\ in.size > 0 /\ ~HeadComplete
  /\ Full(in) /\ ~Full(Nice(in))
  /\ in' = Nice(in) /\ mem' = NiceMem(in, mem)
  /\ UNCHANGED <<ends, block, rcvd, taken, views>>

\* ... and grow() if that does not help, which it does not when nothing moves.
RecvGrow ==
  /\ in.size > 0 /\ ~HeadComplete
  /\ Full(in) /\ Full(Nice(in)) /\ CanGrow(in)
  /\ in' = Grow(in) /\ mem' = GrowMem(in, mem)
  /\ block' \in {block, block + 1}
  /\ UNCHANGED <<ends, rcvd, taken, views>>

\* The block of one byte that the constructor made, grown by the first read().
IsFirst == in.total = ZeroBuf
Lazy == IF IsFirst THEN Grow(in) ELSE in
LazyMem == IF IsFirst THEN GrowMem(in, mem) ELSE mem

\* One read() that returns k bytes: grow() the first time, nice(), ::read().
Read(k) ==
  /\ k \in 1 .. StreamLength - rcvd
  /\ k <= Space(Nice(Lazy))
  /\ in' = Incr(Nice(Lazy), k)
  /\ mem' = ReadMem(Nice(Lazy), NiceMem(Lazy, LazyMem), k)
  /\ block' \in IF IsFirst THEN {block, block + 1} ELSE {block}
  /\ rcvd' = rcvd + k
  /\ UNCHANGED <<ends, taken, views>>

Init == /\ ends \in Streams
        /\ in = NewBuffer(ZeroBuf) /\ block = 0
        /\ mem = [i \in 0 .. ZeroBuf - 1 |-> Unwritten]
        /\ rcvd = 0 /\ taken = 0 /\ views = <<>>

Next == \/ RecvReady \/ RecvNice \/ RecvGrow
        \/ \E k \in 1 .. StreamLength - rcvd : Read(k)

Spec == Init /\ [][Next]_vars
-----------------------------------------------------------------------------
ViewType == [block : Nat, start : Nat, first : Nat, len : Nat]

TypeOK ==
  /\ ends \in Streams
  /\ in \in Buffers /\ block \in Nat
  /\ mem \in [0 .. in.total - 1 -> Nat]
  /\ rcvd \in Nat /\ taken \in 0 .. Len(ends)
  /\ views \in Seq(ViewType)

(* Whatever nice(), grow() and read() have done over the life of the       *)
(* connection, the unconsumed input is the bytes that were received, in    *)
(* order and each in its place (bytes.cpp:19-45, link.cpp:178-206).        *)
InputIsTheStream ==
  \A i \in 0 .. in.size - 1 : mem[in.off + i] = rcvd - in.size + i + 1

\* The Bytes still point to what they were made of.
Intact(v) == /\ v.block = block
             /\ \A i \in 0 .. v.len - 1 : mem[v.start + i] = v.first + i

(* The Bytes of a packet are good when recv() returns them, and those of   *)
(* all packets taken earlier stay good while further packets are taken     *)
(* from what was read already (link.cpp:302-306): request() copies them    *)
(* then.                                                                   *)
TakingKeeps ==
  [][taken' = taken + 1 =>
       /\ Intact(views[taken])'
       /\ \A i \in 1 .. Len(views) : Intact(views[i]) => Intact(views[i])']_vars

\* Inside the second half of the block.
InSecondHalf(v) == 2 * v.start > in.total

(* What nice() promises: making room in recv(), which does not read, it    *)
(* leaves the second half of the block as it was (bytes.cpp:20).           *)
SecondHalfKept ==
  [][ rcvd' = rcvd /\ block' = block =>
        \A i \in 1 .. Len(views) :
          Intact(views[i]) /\ InSecondHalf(views[i]) => Intact(views[i])' ]_vars
=============================================================================
