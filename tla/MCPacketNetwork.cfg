\* All pairs of hosts, two packets, the log rewritten every other time.
SPECIFICATION FairSpec
CONSTANTS
  Source <- AllSources
  Dest <- AllDests
  TTLs <- TTL12
  Octet = 7
  IP <- HostIP
  tables <- RT_A
  LogEvery = 2
  MaxPacket = 2
  QueueLen = 1
INVARIANTS
  EveryPacketDecided
  SidesAgree
  LogLagBounded
  GeneratorSaves
PROPERTY
  GeneratorStops
\* The generator stops at its bound or after SIGINT, and the router may exit.
CHECK_DEADLOCK FALSE
