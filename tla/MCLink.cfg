\* The output block that three calls need while nice() reclaims is the largest
\* there is; replies of every kind, any disconnection.
CONSTANTS
  ZeroBuf = 1
  MinBuf = 3
  MidBuf = 3
  MaxInt = 36
  HeaderMax = 3
  MaxPacket = 12
  Requests <- MCLinkRequests
  Replies <- MCLinkReplies
  MaxIssued = 3
  MaxAllocFail = 0
SPECIFICATION FairSpec
INVARIANTS ReplyMatches AnswersWholeRequest Quiescent
PROPERTIES FailStop ReadyIsReturned ImplementsChannel Returns
CHECK_DEADLOCK FALSE
