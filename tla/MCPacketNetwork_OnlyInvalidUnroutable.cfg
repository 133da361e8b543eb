SPECIFICATION Spec
CONSTANTS
  Source <- AllSources
  Dest <- AllDests
  TTLs <- TTL12
  Octet = 7
  IP <- HostIP
  tables <- RT_A
  LogEvery = 2
  MaxPacket = 1
  QueueLen = 1
INVARIANT
  OnlyInvalidUnroutable
\* The generator stops at its bound or after SIGINT, and the router may exit.
CHECK_DEADLOCK FALSE
