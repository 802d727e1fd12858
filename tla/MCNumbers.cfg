\* Numbers of every width stored, counted and read back.
CONSTANTS
  IntMax = 3
  TextMax = 9
  DoubleMax = 16
  LongMax = 31
  LuaNumbers <- MCNumbers
SPECIFICATION Spec
INVARIANTS TypeOK KeptAsGiven AnswerIsTheNumber
PROPERTY AnswersFollow
