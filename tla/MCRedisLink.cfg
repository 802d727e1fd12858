\* Every command and option, one taken before the other is answered or after.
CONSTANTS
  IntMax = 7
  Requests <- MCRequests
  Stores <- MCStores
  Failures <- MCFailures
  MaxReceived = 2
  MaxPending = 2
SPECIFICATION Spec
INVARIANTS TypeOK ReplyOfItsRequest RepliesFramed ValuesInRequestOrder WindowAsAsked ScoresBetween
CHECK_DEADLOCK FALSE
