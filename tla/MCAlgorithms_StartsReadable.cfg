SPECIFICATION PartsSpec
CONSTANTS
  number_p = 1
  number_r = 1
  Units <- Units0to1
  CHUNKLEN = 2
  MaxSize = 1
  Pages = 5
  size = 1
INVARIANT
  StartsReadable
\* Every part comes to its end.
CHECK_DEADLOCK FALSE
