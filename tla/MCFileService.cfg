\* Two runs of the client, each with a child of the server.
SPECIFICATION FairSpec
CONSTANTS
  Session <- Sessions2
  Kid <- Kids2
  File <- FileA
  Pieces <- PiecesA
  Unreadable <- UnreadableA
  LineLen <- LineLenA
  QueueLen = 2
INVARIANTS
  ZombiesAccountedFor
  OneChildPerRequest
  PiecesInOrder
  LogBytesTrue
PROPERTIES
  ReapedUnlessCoalesced
  ChildrenEnd
  ClientsEnd
\* All sessions may be over and the parent waiting for ever.
CHECK_DEADLOCK FALSE
