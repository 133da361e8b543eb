SPECIFICATION PartsSpec
CONSTANTS
  number_p = 3
  number_r = 2
  Units <- Units0to1
  CHUNKLEN = 2
  MaxSize = 5
  Pages = 7
  size = 2
INVARIANTS
  DecidesSafety
  DeliversText
  OneLastChunk
  ShowsStretches
PROPERTIES
  CheckerReturns
  LoopEnds
  ScanReturns
\* Every part comes to its end.
CHECK_DEADLOCK FALSE
