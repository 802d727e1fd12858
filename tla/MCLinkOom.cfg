\* One realloc() fails: a call may then be answered with another call's reply.
CONSTANTS
  ZeroBuf = 1
  MinBuf = 4
  MidBuf = 4
  MaxInt = 32
  HeaderMax = 3
  MaxPacket = 12
  Requests <- MCSmallRequests
  Replies <- MCFineReplies
  MaxIssued = 2
  MaxAllocFail = 1
SPECIFICATION Spec
INVARIANTS ReplyMatches
CHECK_DEADLOCK FALSE
