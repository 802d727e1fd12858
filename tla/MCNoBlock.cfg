\* Non-blocking socket, and a realloc() that may fail: no reply is waited for,
\* every call returns.
CONSTANTS
  ZeroBuf = 1
  MinBuf = 4
  MidBuf = 4
  MaxInt = 32
  HeaderMax = 3
  MaxPacket = 12
  Requests <- MCRequests
  Replies <- MCReplies
  MaxIssued = 2
  MaxAllocFail = 1
SPECIFICATION NbFairSpec
INVARIANTS NbTypeOK NbReadHasRoom NbInStep
PROPERTIES NbReturns
CHECK_DEADLOCK FALSE
