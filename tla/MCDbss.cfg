\* Every method of the API, three requests on the connection.
CONSTANTS
  Methods <- AllMethods
  Absent = {TRUE}
  MaxValues = 2
  MaxIssued = 3
SPECIFICATION Spec
INVARIANTS TypeOK SuccessIsReal NothingStale BrokenIsTold
CHECK_DEADLOCK FALSE
