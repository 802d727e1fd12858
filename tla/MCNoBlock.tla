------------------------------ MODULE MCNoBlock ------------------------------
(* LinkNoBlock with a small request and replies like those of MCLink.      *)
EXTENDS LinkNoBlock

CONSTANTS HeaderMax, MaxPacket

Record(body) == [used |-> 2 + body + 1, need |-> HeaderMax + body + 1]

OneRecord(a) ==
  << [end |-> Record(a).used,     need |-> Record(a).need],
     [end |-> Record(a).used + 1, need |-> 1] >>

MCRequests == { OneRecord(0) }

Reply(len, over) == [len |-> len, over |-> over]

MCReplies == { Reply(3, 0), Reply(9, 0), Reply(16, MaxPacket + 1) }
=============================================================================
