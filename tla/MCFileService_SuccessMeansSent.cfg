SPECIFICATION Spec
CONSTANTS
  Session <- Sessions2
  Kid <- Kids2
  File <- FileA
  Pieces <- PiecesA
  Unreadable <- UnreadableA
  LineLen <- LineLenA
  QueueLen = 2
INVARIANT
  SuccessMeansSent
\* All sessions may be over and the parent waiting for ever.
CHECK_DEADLOCK FALSE
