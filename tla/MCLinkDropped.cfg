\* One realloc() fails while a request is appended: a record is lost.
CONSTANTS
  ZeroBuf = 1
  MinBuf = 4
  MidBuf = 4
  MaxInt = 32
  HeaderMax = 3
  MaxPacket = 12
  Requests <- MCRequests
  Replies <- MCFineReplies
  MaxIssued = 2
  MaxAllocFail = 1
SPECIFICATION Spec
INVARIANTS AnswersWholeRequest
CHECK_DEADLOCK FALSE
