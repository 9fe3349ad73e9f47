\* Four lines, buffers for one or two of them, a file left after one buffer.
SPECIFICATION FairSpec
CONSTANTS
  SmallSize = 6
  LargeSize = 10
  NumericSize = 3
  rollSize = 8
  checkEveryN = 2
  flushInterval = 0
  RollPerSeconds = 2
  Contents <- MCContents
  MaxLines = 4
  MaxBuffers = 2
  MaxTime = 2
INVARIANTS
  LogTypeOK
  LinesInOrder
  SparesComeBack
PROPERTIES
  LinesReachFile
\* The program ends.
CHECK_DEADLOCK FALSE
