\* Any packets through blocks of 4, 8 and 16 bytes, recv() and read() in any order.
CONSTANTS
  ZeroBuf = 1
  MinBuf = 4
  MidBuf = 4
  MaxInt = 32
  Total = 11
  Packets = 4
  Streams <- MCStreams
SPECIFICATION Spec
INVARIANTS TypeOK InputIsTheStream
PROPERTIES TakingKeeps SecondHalfKept
CHECK_DEADLOCK FALSE
