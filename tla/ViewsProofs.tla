----------------------------- MODULE ViewsProofs -----------------------------
(***************************************************************************)
(* The input buffer holds the stream, for any packets and block sizes, and *)
(* nice() leaves the second half of the block alone.                       *)
(***************************************************************************)
EXTENDS Views, SequenceTheorems, TLAPS

Cells(b) == 0 .. b.total - 1

\* The cells of a buffer hold the bytes of the stream that end with the n-th.
Holds(b, m, n) ==
  /\ b \in Buffers
  /\ m \in [Cells(b) -> Nat]
  /\ n \in Nat /\ b.size <= n
  /\ \A i \in 0 .. b.size - 1 : m[b.off + i] = n - b.size + i + 1

LEMMA NiceHolds ==
  ASSUME NEW b, NEW m, NEW n, Holds(b, m, n)
  PROVE  /\ Holds(Nice(b), NiceMem(b, m), n)
         /\ Nice(b).size = b.size /\ Nice(b).total = b.total
<1>1. /\ b.off \in Nat /\ b.size \in Nat /\ b.total \in Nat /\ 0 < b.total
      /\ b.off + b.size <= b.total
      /\ b = [off |-> b.off, size |-> b.size, total |-> b.total]
  BY DEF Holds, Buffers
<1>2. CASE Nice(b) = b BY <1>2 DEF Holds, NiceMem
<1>3. CASE Nice(b) # b
  <2>1. /\ Nice(b) = [off |-> 0, size |-> b.size, total |-> b.total]
        /\ b.off > b.total \div 2
    BY <1>1, <1>3 DEF Nice
  <2>2. Nice(b) \in Buffers BY <1>1, <2>1 DEF Buffers
  <2>3. NiceMem(b, m) \in [Cells(Nice(b)) -> Nat]
    <3>1. \A i \in Cells(b) : i < b.size => b.off + i \in Cells(b)
      BY <1>1 DEF Cells
    <3> QED BY <1>1, <1>3, <2>1, <3>1 DEF NiceMem, Holds, Cells
  <2>4. \A i \in 0 .. b.size - 1 : NiceMem(b, m)[i] = m[b.off + i]
    BY <1>1, <1>3 DEF NiceMem, Holds, Cells
  <2> QED BY <1>1, <2>1, <2>2, <2>3, <2>4 DEF Holds
<1> QED BY <1>2, <1>3

LEMMA GrowHolds ==
  ASSUME NEW b, NEW m, NEW n, Holds(b, m, n)
  PROVE  /\ Holds(Grow(b), GrowMem(b, m), n)
         /\ Grow(b).size = b.size /\ b.total < Grow(b).total
<1>1. /\ b.off \in Nat /\ b.size \in Nat /\ b.total \in Nat /\ 0 < b.total
      /\ b.off + b.size <= b.total
      /\ b = [off |-> b.off, size |-> b.size, total |-> b.total]
  BY DEF Holds, Buffers
<1>2. GrownTotal(b) \in Nat /\ b.total < GrownTotal(b)
  BY <1>1, BufferAssumption DEF GrownTotal, BufferAssumption
<1>3. Grow(b) = [off |-> b.off, size |-> b.size, total |-> GrownTotal(b)]
  BY <1>1 DEF Grow
<1>4. Grow(b) \in Buffers BY <1>1, <1>2, <1>3 DEF Buffers
<1>5. GrowMem(b, m) \in [Cells(Grow(b)) -> Nat]
  BY <1>1, <1>2, <1>3 DEF GrowMem, Holds, Cells, Unwritten
<1>6. \A i \in 0 .. b.size - 1 : GrowMem(b, m)[b.off + i] = m[b.off + i]
  BY <1>1, <1>2 DEF GrowMem
<1>7. Grow(b).size = b.size /\ Grow(b).off = b.off /\ Grow(b).total = GrownTotal(b)
  BY <1>3
<1>8. \A i \in 0 .. b.size - 1 : GrowMem(b, m)[b.off + i] = n - b.size + i + 1
  BY <1>6 DEF Holds
<1>9. n \in Nat /\ b.size <= n BY DEF Holds
<1>10. Holds(Grow(b), GrowMem(b, m), n) BY <1>4, <1>5, <1>7, <1>8, <1>9 DEF Holds
<1> QED BY <1>2, <1>7, <1>10

LEMMA ReadHolds ==
  ASSUME NEW b, NEW m, Holds(b, m, rcvd), NEW k \in Nat, k <= Space(b)
  PROVE  Holds(Incr(b, k), ReadMem(b, m, k), rcvd + k)
<1>1. /\ b.off \in Nat /\ b.size \in Nat /\ b.total \in Nat /\ 0 < b.total
      /\ b.off + b.size + k <= b.total
      /\ b = [off |-> b.off, size |-> b.size, total |-> b.total]
      /\ rcvd \in Nat /\ b.size <= rcvd
  BY DEF Holds, Buffers, Space
<1>2. Incr(b, k) = [off |-> b.off, size |-> b.size + k, total |-> b.total]
  BY <1>1 DEF Incr
<1>3. Incr(b, k) \in Buffers BY <1>1, <1>2 DEF Buffers
<1>4. ReadMem(b, m, k) \in [Cells(Incr(b, k)) -> Nat]
  BY <1>1, <1>2 DEF ReadMem, Holds, Cells
<1>5. ASSUME NEW i \in 0 .. b.size + k - 1
      PROVE  ReadMem(b, m, k)[b.off + i] = rcvd + k - (b.size + k) + i + 1
  <2>1. b.off + i \in Cells(b) BY <1>1 DEF Cells
  <2>2. CASE i < b.size BY <1>1, <2>1, <2>2 DEF ReadMem, Holds
  <2>3. CASE i >= b.size BY <1>1, <2>1, <2>3 DEF ReadMem, Holds
  <2> QED BY <1>1, <2>2, <2>3
<1> QED BY <1>1, <1>2, <1>3, <1>4, <1>5 DEF Holds

LEMMA ReadHoldsSizes ==
  ASSUME NEW b, NEW m, NEW n, Holds(b, m, n), NEW k \in Nat
  PROVE  /\ Incr(b, k).size = b.size + k /\ Incr(b, k).total = b.total
         /\ Decr(b, k).size = b.size - k /\ Decr(b, k).total = b.total
BY DEF Holds, Buffers, Incr, Decr

LEMMA DecrHolds ==
  ASSUME NEW b, NEW m, NEW n, Holds(b, m, n), NEW k \in Nat, k <= b.size
  PROVE  Holds(Decr(b, k), m, n)
<1>1. /\ b.off \in Nat /\ b.size \in Nat /\ b.total \in Nat /\ 0 < b.total
      /\ b.off + b.size <= b.total /\ n \in Nat /\ b.size <= n
  BY DEF Holds, Buffers
<1>2. Decr(b, k) \in Buffers BY <1>1 DEF Buffers, Decr
<1>3. ASSUME NEW i \in 0 .. Decr(b, k).size - 1
      PROVE  m[Decr(b, k).off + i] = n - Decr(b, k).size + i + 1
  <2>1. i + k \in 0 .. b.size - 1 BY <1>1 DEF Decr
  <2>2. m[b.off + (i + k)] = n - b.size + (i + k) + 1 BY <2>1 DEF Holds
  <2> QED BY <1>1, <2>1, <2>2 DEF Decr
<1> QED BY <1>1, <1>2, <1>3 DEF Holds, Decr, Cells
-----------------------------------------------------------------------------
\* The buffer holds the stream from the end of the last packet taken, and the
\* Bytes handed out lie in it or in a block it had before.
InBlock(v) == /\ v \in ViewType
              /\ v.block <= block
              /\ v.block = block => v.start + v.len <= in.total

VInv == /\ ends \in Streams /\ block \in Nat
        /\ Holds(in, mem, rcvd)
        /\ taken \in 0 .. Len(ends)
        /\ rcvd - in.size = HeadStart
        /\ views \in Seq(ViewType) /\ Len(views) = taken
        /\ \A i \in 1 .. Len(views) : InBlock(views[i])

LEMMA StreamEnds ==
  ASSUME ends \in Streams
  PROVE  /\ ends \in Seq(Nat \ {0})
         /\ \A i \in 2 .. Len(ends) : ends[i - 1] < ends[i]
BY ViewsAssumption DEF ViewsAssumption

LEMMA InitVInv == Init => VInv
<1> SUFFICES ASSUME Init PROVE VInv OBVIOUS
<1>1. Holds(in, mem, rcvd)
  BY BufferAssumption DEF Init, Holds, Buffers, NewBuffer, Cells, Unwritten, BufferAssumption
<1>2. Len(ends) \in Nat BY StreamEnds DEF Init
<1> QED BY <1>1, <1>2 DEF Init, VInv, NewBuffer, HeadStart

LEMMA NextVInv == VInv /\ [Next]_vars => VInv'
<1> SUFFICES ASSUME VInv, [Next]_vars PROVE VInv' OBVIOUS
<1> USE DEF VInv
<1>0. /\ in.off \in Nat /\ in.size \in Nat /\ in.total \in Nat /\ rcvd \in Nat
      /\ in.size <= rcvd
  BY DEF Holds, Buffers
<1>b. ASSUME views' = views, block' \in {block, block + 1},
             in'.total \in Nat, in.total <= in'.total
      PROVE  \A i \in 1 .. Len(views') : InBlock(views[i])'
  <2> SUFFICES ASSUME NEW i \in 1 .. Len(views) PROVE InBlock(views[i])'
    BY <1>b
  <2>1. InBlock(views[i]) /\ views'[i] = views[i] BY <1>b
  <2>2. /\ views[i] \in ViewType /\ views[i].block \in Nat
        /\ views[i].start \in Nat /\ views[i].len \in Nat
    BY <2>1 DEF InBlock, ViewType
  <2>3. views[i].block <= block' BY <1>b, <2>1, <2>2 DEF InBlock
  <2>4. views[i].block = block' => views[i].start + views[i].len <= in'.total
    BY <1>0, <1>b, <2>1, <2>2 DEF InBlock
  <2> QED BY <2>1, <2>2, <2>3, <2>4 DEF InBlock
<1>1. CASE RecvReady
  <2>1. /\ taken + 1 \in 1 .. Len(ends) /\ taken' = taken + 1 /\ ends' = ends
        /\ ends[taken + 1] <= rcvd /\ rcvd' = rcvd /\ mem' = mem /\ block' = block
        /\ in' = Decr(in, HeadView.len)
    BY <1>1, StreamEnds DEF RecvReady, HeadComplete
  <2>2. HeadStart \in Nat /\ HeadStart < ends[taken + 1] /\ ends[taken + 1] \in Nat
    <3>1. CASE taken = 0 BY <2>1, <3>1, StreamEnds DEF HeadStart
    <3>2. CASE taken # 0
      <4>1. taken + 1 \in 2 .. Len(ends) /\ taken \in 1 .. Len(ends) BY <2>1, <3>2
      <4> QED BY <3>2, <4>1, StreamEnds DEF HeadStart
    <3> QED BY <3>1, <3>2
  <2>3. HeadView.len = ends[taken + 1] - HeadStart BY DEF HeadView
  <2>4. HeadView.len \in Nat /\ HeadView.len <= in.size BY <1>0, <2>1, <2>2, <2>3
  <2>5. Holds(in', mem', rcvd') BY <2>1, <2>4, DecrHolds
  <2>6. in'.size = in.size - HeadView.len /\ in'.total = in.total
    BY <2>1, <2>4, ReadHoldsSizes
  <2>7. rcvd' - in'.size = HeadStart'
    BY <1>0, <2>1, <2>2, <2>3, <2>6 DEF HeadStart
  <2>8. HeadView \in ViewType /\ HeadView.block = block
        /\ HeadView.start + HeadView.len <= in.total
    <3>1. /\ HeadView.start = in.off /\ HeadView.block = block
          /\ HeadView.first = HeadStart + 1
          /\ HeadView = [block |-> HeadView.block, start |-> HeadView.start,
                          first |-> HeadView.first, len |-> HeadView.len]
      BY DEF HeadView
    <3>2. in.off + in.size <= in.total BY DEF Holds, Buffers
    <3>3. HeadView.first \in Nat BY <2>2, <3>1
    <3>4. HeadView \in ViewType BY <1>0, <2>4, <3>1, <3>3 DEF ViewType
    <3> QED BY <1>0, <2>4, <3>1, <3>2, <3>4
  <2>9. views' = Append(views, HeadView) BY <1>1 DEF RecvReady
  <2>10. \A i \in 1 .. Len(views') : InBlock(views[i])'
    <3> SUFFICES ASSUME NEW i \in 1 .. Len(views') PROVE InBlock(views[i])' OBVIOUS
    <3>1. Len(views') = Len(views) + 1 BY <2>8, <2>9
    <3>2. CASE i \in 1 .. Len(views)
      <4>1. views'[i] = views[i] /\ InBlock(views[i]) BY <2>9, <3>2
      <4> QED BY <2>1, <2>6, <4>1 DEF InBlock
    <3>3. CASE i = Len(views) + 1
      <4>1. views'[i] = HeadView BY <2>8, <2>9, <3>3
      <4> QED BY <2>1, <2>6, <2>8, <4>1 DEF InBlock
    <3> QED BY <3>1, <3>2, <3>3
  <2>11. views' \in Seq(ViewType) /\ Len(views') = taken' BY <2>1, <2>8, <2>9
  <2> QED BY <2>1, <2>5, <2>7, <2>10, <2>11
<1>2. CASE RecvNice
  <2>1. Holds(in', mem', rcvd') /\ in'.size = in.size /\ in'.total = in.total
    BY <1>2, NiceHolds DEF RecvNice
  <2>2. \A i \in 1 .. Len(views') : InBlock(views[i])'
    BY <1>0, <1>2, <1>b, <2>1 DEF RecvNice
  <2> QED BY <1>2, <2>1, <2>2 DEF RecvNice, HeadStart
<1>3. CASE RecvGrow
  <2>1. Holds(in', mem', rcvd') /\ in'.size = in.size /\ in.total < in'.total
    BY <1>3, GrowHolds DEF RecvGrow
  <2>2. in'.total \in Nat BY <2>1 DEF Holds, Buffers
  <2>3. \A i \in 1 .. Len(views') : InBlock(views[i])'
    BY <1>0, <1>3, <1>b, <2>1, <2>2 DEF RecvGrow
  <2>4. block' \in Nat BY <1>3 DEF RecvGrow
  <2> QED BY <1>3, <2>1, <2>3, <2>4 DEF RecvGrow, HeadStart
<1>4. ASSUME NEW k \in 1 .. StreamLength - rcvd, Read(k) PROVE VInv'
  <2>1. Holds(Lazy, LazyMem, rcvd) /\ Lazy.size = in.size
        /\ in.total <= Lazy.total /\ Lazy.total \in Nat
    <3>1. CASE IsFirst
      <4>1. Holds(Grow(in), GrowMem(in, mem), rcvd) /\ Grow(in).size = in.size
            /\ in.total < Grow(in).total
        BY GrowHolds
      <4>2. Grow(in).total \in Nat BY <4>1 DEF Holds, Buffers
      <4> QED BY <1>0, <3>1, <4>1, <4>2 DEF Lazy, LazyMem
    <3>2. CASE ~IsFirst BY <1>0, <3>2 DEF Lazy, LazyMem
    <3> QED BY <3>1, <3>2
  <2>2. /\ Holds(Nice(Lazy), NiceMem(Lazy, LazyMem), rcvd)
        /\ Nice(Lazy).size = in.size /\ Nice(Lazy).total = Lazy.total
    BY <2>1, NiceHolds
  <2>3. k \in Nat /\ k <= Space(Nice(Lazy)) BY <1>4 DEF Read
  <2>4. Holds(in', mem', rcvd') BY <1>4, <2>2, <2>3, ReadHolds DEF Read
  <2>5. in'.size = in.size + k /\ in'.total = Lazy.total
    BY <1>4, <2>2, <2>3, ReadHoldsSizes DEF Read
  <2>6. block' \in {block, block + 1} /\ block' \in Nat BY <1>4 DEF Read
  <2>7. \A i \in 1 .. Len(views') : InBlock(views[i])'
    BY <1>b, <1>4, <2>1, <2>5, <2>6 DEF Read
  <2> QED BY <1>0, <1>4, <2>3, <2>4, <2>5, <2>6, <2>7 DEF Read, HeadStart
<1>5. CASE UNCHANGED vars BY <1>5 DEF vars, HeadStart, InBlock
<1> QED BY <1>1, <1>2, <1>3, <1>4, <1>5 DEF Next

LEMMA VInvAlways == Spec => []VInv
BY InitVInv, NextVInv, PTL DEF Spec

(* The run, the cells and the Bytes handed out stay inside their blocks.   *)
THEOREM ViewsTypeCorrect == Spec => []TypeOK
<1>1. VInv => TypeOK BY DEF VInv, TypeOK, Holds, Cells
<1> QED BY <1>1, VInvAlways, PTL

(* nice(), grow() and read() never lose, repeat or reorder a byte of the   *)
(* unconsumed input, over a connection of any length.                      *)
THEOREM InputKeepsTheStream == Spec => []InputIsTheStream
<1>1. VInv => InputIsTheStream BY DEF VInv, InputIsTheStream, Holds
<1> QED BY <1>1, VInvAlways, PTL
-----------------------------------------------------------------------------
(* What nice() promises (bytes.cpp:20): a step of recv() that makes room   *)
(* in the same block leaves every Bytes in its second half as it was.      *)
THEOREM SecondHalfIsKept == Spec => SecondHalfKept
<1> DEFINE Keeps == \A i \in 1 .. Len(views) :
                      Intact(views[i]) /\ InSecondHalf(views[i]) => Intact(views[i])'
<1>1. ASSUME VInv, [Next]_vars, rcvd' = rcvd, block' = block PROVE Keeps
  <2> SUFFICES ASSUME NEW i \in 1 .. Len(views), Intact(views[i]), InSecondHalf(views[i])
               PROVE  Intact(views[i])'
    OBVIOUS
  <2> USE DEF VInv
  <2>0. /\ InBlock(views[i]) /\ views[i].block = block
        /\ views[i].start \in Nat /\ views[i].len \in Nat
        /\ views[i].start + views[i].len <= in.total
        /\ 2 * views[i].start > in.total
    BY <1>1 DEF InBlock, ViewType, Intact, InSecondHalf
  <2>1. /\ in.off \in Nat /\ in.size \in Nat /\ in.total \in Nat
        /\ in.off + in.size <= in.total /\ mem \in [Cells(in) -> Nat]
    BY <1>1 DEF Holds, Buffers
  <2>2. \A j \in 0 .. views[i].len - 1 : views[i].start + j \in Cells(in)
    <3>1. PICK s \in Nat, n \in Nat, t \in Nat :
            s = views[i].start /\ n = views[i].len /\ t = in.total
      BY <2>0, <2>1
    <3>2. s + n <= t BY <2>0, <3>1
    <3>3. \A j \in 0 .. n - 1 : s + j \in 0 .. t - 1 BY <3>2
    <3> QED BY <3>1, <3>3, Zenon DEF Cells
  <2>3. ASSUME views'[i] = views[i],
               \A j \in 0 .. views[i].len - 1 : mem'[views[i].start + j] = mem[views[i].start + j]
        PROVE  Intact(views[i])'
    BY <1>1, <2>3 DEF Intact
  <2>4. CASE RecvReady
    <3>1. views'[i] = views[i] /\ mem' = mem BY <1>1, <2>4 DEF RecvReady
    <3> QED BY <2>3, <3>1
  <2>5. CASE RecvNice
    <3>1. CASE Nice(in) = in BY <2>3, <2>5, <3>1 DEF RecvNice, NiceMem
    <3>2. CASE Nice(in) # in
      <4>1. in.off > in.total \div 2 BY <3>2 DEF Nice
      <4>2. in.size <= views[i].start BY <2>0, <2>1, <4>1
      <4>3. mem' = [ c \in Cells(in) |-> IF c < in.size THEN mem[in.off + c] ELSE mem[c] ]
        BY <2>1, <2>5, <3>2 DEF RecvNice, NiceMem
      <4>4. \A j \in 0 .. views[i].len - 1 : mem'[views[i].start + j] = mem[views[i].start + j]
        BY <2>0, <2>1, <2>2, <4>2, <4>3
      <4> QED BY <2>3, <2>5, <4>4 DEF RecvNice
    <3> QED BY <3>1, <3>2
  <2>6. CASE RecvGrow
    <3>1. GrownTotal(in) \in Nat /\ in.total < GrownTotal(in)
      BY <2>1, BufferAssumption DEF GrownTotal, BufferAssumption
    <3>2. mem' = [ c \in 0 .. GrownTotal(in) - 1 |-> IF c < in.total THEN mem[c] ELSE Unwritten ]
      BY <2>6 DEF RecvGrow, GrowMem
    <3>3. \A j \in 0 .. views[i].len - 1 : mem'[views[i].start + j] = mem[views[i].start + j]
      <4> SUFFICES ASSUME NEW j \in 0 .. views[i].len - 1
                   PROVE  mem'[views[i].start + j] = mem[views[i].start + j]
        OBVIOUS
      <4>1. /\ views[i].start + j \in 0 .. GrownTotal(in) - 1
            /\ views[i].start + j < in.total
        <5>1. views[i].start + j \in 0 .. in.total - 1 BY <2>2 DEF Cells
        <5> QED BY <2>1, <3>1, <5>1
      <4> QED BY <3>2, <4>1
    <3> QED BY <2>3, <2>6, <3>3 DEF RecvGrow
  <2>7. ASSUME NEW k \in 1 .. StreamLength - rcvd, Read(k) PROVE FALSE
    BY <1>1, <2>7 DEF Read, Holds
  <2>8. CASE UNCHANGED vars BY <2>3, <2>8 DEF vars
  <2> QED BY <1>1, <2>4, <2>5, <2>6, <2>7, <2>8 DEF Next
<1>2. VInv /\ [Next]_vars => [rcvd' = rcvd /\ block' = block => Keeps]_vars
  BY <1>1
<1> QED BY <1>2, VInvAlways, PTL DEF Spec, SecondHalfKept
-----------------------------------------------------------------------------
(* Taking a packet returns Bytes that are good, and spoils none that were  *)
(* (link.cpp:302-306): a caller who copies them before the next read is    *)
(* safe, as ClientImpl::request does.                                      *)
THEOREM TakenViewsStay == Spec => TakingKeeps
<1> DEFINE Kept == /\ Intact(views[taken])'
                   /\ \A i \in 1 .. Len(views) : Intact(views[i]) => Intact(views[i])'
<1>1. ASSUME VInv, [Next]_vars, taken' = taken + 1 PROVE Kept
  <2> USE DEF VInv
  <2>1. RecvReady
    <3>1. taken \in Nat BY <1>1, StreamEnds
    <3>2. taken' # taken BY <1>1, <3>1
    <3> QED BY <1>1, <3>2 DEF Next, RecvNice, RecvGrow, Read, vars
  <2>2. /\ mem' = mem /\ block' = block /\ views' = Append(views, HeadView)
        /\ ends[taken + 1] <= rcvd /\ taken + 1 \in 1 .. Len(ends)
    BY <1>1, <2>1, StreamEnds DEF RecvReady, HeadComplete
  <2>3. /\ Len(views) = taken /\ taken \in Nat /\ views \in Seq(ViewType)
    BY <1>1, StreamEnds
  <2>4. views'[taken'] = HeadView BY <1>1, <2>2, <2>3
  <2>5. \A i \in 1 .. Len(views) : views'[i] = views[i] BY <2>2, <2>3
  <2>6. ASSUME NEW j \in 0 .. HeadView.len - 1
        PROVE  mem[HeadView.start + j] = HeadView.first + j
    <3>1. /\ HeadView.start = in.off /\ HeadView.first = HeadStart + 1
          /\ HeadView.len = ends[taken + 1] - HeadStart
      BY DEF HeadView
    <3>2. /\ in.size \in Nat /\ rcvd \in Nat /\ rcvd - in.size = HeadStart
          /\ ends[taken + 1] \in Nat
      BY <1>1, <2>2, StreamEnds DEF Holds, Buffers
    <3>3. j \in 0 .. in.size - 1 BY <2>2, <3>1, <3>2
    <3>4. mem[in.off + j] = rcvd - in.size + j + 1 BY <1>1, <3>3 DEF Holds
    <3> QED BY <3>1, <3>2, <3>3, <3>4
  <2>7. HeadView.block = block BY DEF HeadView
  <2>8. Intact(HeadView) BY <2>6, <2>7 DEF Intact
  <2> QED BY <2>2, <2>4, <2>5, <2>8 DEF Intact
<1>2. VInv /\ [Next]_vars => [taken' = taken + 1 => Kept]_vars
  BY <1>1
<1> QED BY <1>2, VInvAlways, PTL DEF Spec, TakingKeeps
=============================================================================
