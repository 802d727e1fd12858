------------------------------- MODULE Buffer -------------------------------
(***************************************************************************)
(* class Buffer of src/src/util/bytes.{h,cpp}: one heap block holding a    *)
(* contiguous run of unconsumed bytes.  The bytes themselves are left out: *)
(* a buffer is the record                                                  *)
(*     off   = data_ - buf     where the run starts                        *)
(*     size  = size_           how long it is                              *)
(*     total = total_          how long the block is                       *)
(* and the operators below are the methods that change one of the three.   *)
(***************************************************************************)
EXTENDS Integers

CONSTANTS ZeroBuf,   \* ZERO_BUFFER_SIZE of link.cpp: the lazily allocated block
          MinBuf,    \* 8 * 1024: first real size, see grow()
          MidBuf,    \* 512 * 1024: from here on grow() doubles
          MaxInt     \* largest value of an int

\* The order of the sizes in the code; MinBuf and MidBuf are the two literals
\* of grow(), and the product 8 * total_ of its middle branch is an int.
ASSUME BufferAssumption ==
  /\ ZeroBuf \in Nat /\ MinBuf \in Nat /\ MidBuf \in Nat /\ MaxInt \in Nat
  /\ 0 < ZeroBuf /\ ZeroBuf < MinBuf /\ MinBuf <= MidBuf
  /\ 8 * MidBuf <= MaxInt

Buffers == { b \in [off : Nat, size : Nat, total : Nat] :
               /\ 0 < b.total
               /\ b.off + b.size <= b.total }

NewBuffer(total) == [off |-> 0, size |-> 0, total |-> total]

\* Mutant of Space: the consumed bytes before the run counted as free.
SpaceWithConsumed(b) == b.total - b.size

Space(b) == b.total - b.off - b.size

Incr(b, n) == [b EXCEPT !.size = @ + n]

Decr(b, n) == [off |-> b.off + n, size |-> b.size - n, total |-> b.total]

\* Mutant of Nice: never reclaims the consumed bytes.
NiceNever(b) == b

\* nice() is careful to move the run only when it starts in the second half.
Nice(b) == IF b.off > b.total \div 2 THEN [b EXCEPT !.off = 0] ELSE b

\* The size grow() asks realloc for ...
GrownTotal(b) == IF b.total < MinBuf THEN MinBuf
                 ELSE IF b.total < MidBuf THEN 8 * b.total
                 ELSE 2 * b.total

\* ... which is no valid size any more once the int has overflowed: the
\* negative n becomes a huge size_t and realloc returns NULL.
CanGrow(b) == GrownTotal(b) <= MaxInt

Grow(b) == [b EXCEPT !.total = GrownTotal(b)]
=============================================================================
