\* Packets of both protocols back to back, cut anywhere.
CONSTANTS
  MaxPacket = 17
  RangeCommands <- MCRangeCommands
  ScoreCommands <- MCScoreCommands
  LongMax = 9
  Streams <- MCStreams
SPECIFICATION Spec
INVARIANTS TypeOK InOrder ReadyWhenComplete RefusedForAReason
CHECK_DEADLOCK FALSE
