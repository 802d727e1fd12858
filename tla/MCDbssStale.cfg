\* A NULL bound: the status returned is an earlier call's.
CONSTANTS
  Methods <- OneOfEachKind
  Absent = {TRUE}
  MaxValues = 1
  MaxIssued = 1
SPECIFICATION Spec
INVARIANTS OkHasARequest
CHECK_DEADLOCK FALSE
