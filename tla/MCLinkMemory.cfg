\* realloc() may fail, requests are large enough to fill the largest block.
CONSTANTS
  ZeroBuf = 1
  MinBuf = 2
  MidBuf = 4
  MaxInt = 32
  HeaderMax = 3
  MaxPacket = 12
  Requests <- MCLargeRequests
  Replies <- MCReplies
  MaxIssued = 2
  MaxAllocFail = 1
SPECIFICATION Spec
INVARIANTS TypeOK NoSpuriousEof
PROPERTIES GrowsOnlyWhenHalfFull
CHECK_DEADLOCK FALSE
