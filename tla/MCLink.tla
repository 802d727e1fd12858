------------------------------- MODULE MCLink -------------------------------
(* Small instances of Link.  The literal sizes of the code are scaled down: *)
(* a header of up to 3 bytes stands for the 16 of append_record, a block of *)
(* 1 byte for ZERO_BUFFER_SIZE, packets over 12 bytes are oversized.  grow()*)
(* goes through blocks of                                                   *)
(*     1, 3, 6, 12, 24     MCLink.cfg, which has no 8-fold step             *)
(*     1, 2, 16, 32        MCLinkMemory.cfg, which has them all             *)
(*     1, 4, 8, 16, 32     the others                                       *)
(* that stand for 8, 8K, 64K, 512K, 1M and so on to the largest an int can  *)
(* count.                                                                   *)
EXTENDS Link

CONSTANTS HeaderMax, MaxPacket

Record(body) == [used |-> 2 + body + 1, need |-> HeaderMax + body + 1]

\* The pieces of a request with records of these body lengths.
OneRecord(a) ==
  << [end |-> Record(a).used,     need |-> Record(a).need],
     [end |-> Record(a).used + 1, need |-> 1] >>

TwoRecords(a, b) ==
  LET e1 == Record(a).used  e2 == e1 + Record(b).used
  IN  << [end |-> e1,     need |-> Record(a).need],
         [end |-> e2,     need |-> Record(b).need],
         [end |-> e2 + 1, need |-> 1] >>

\* Three of them on end are more than the 24 bytes of the largest block of
\* MCLink.cfg (the second record of the third has no room), one where nice()
\* may have left it is not.
MCLinkRequests == { TwoRecords(1, 1) }
MCRequests == { TwoRecords(0, 0) }
MCLargeRequests == { OneRecord(1), TwoRecords(2, 26) }
MCSmallRequests == { OneRecord(0), OneRecord(2) }

\* A short reply, one that makes the input buffer grow, one whose records pass
\* MaxPacket before the end, one whose single record does not fit in memory.
Fine(len) == [len |-> len, over |-> 0]
Oversized(len, at) == [len |-> len, over |-> at]

MCFineReplies == { Fine(3), Fine(9) }
MCLinkReplies == { Fine(5), Oversized(16, MaxPacket + 1), Oversized(34, 33) }
MCLongReplies == { Fine(9), Oversized(16, MaxPacket + 1), Oversized(34, 33) }
MCReplies == MCFineReplies \cup MCLongReplies
=============================================================================
