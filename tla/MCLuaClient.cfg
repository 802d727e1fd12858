\* Every wrapper of DB.lua, two calls on the connection.
CONSTANTS
  Methods <- AllMethods
  Absent = {TRUE}
  MaxValues = 4
  MaxKeys = 2
  MaxIssued = 2
SPECIFICATION LuaSpec
INVARIANTS LuaTypeOK LuaResultIsReal UnwrittenOnlyWhenMissing
CHECK_DEADLOCK FALSE
