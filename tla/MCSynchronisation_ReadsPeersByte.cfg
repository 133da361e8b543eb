SPECIFICATION ProgramSpec
CONSTANTS
  n = 1
  BUFFER_SIZE = 1
  MaxItems = 1
  User <- Users
  Units = 1
  Drift = 1
  Seats = 2
  N = 1
INVARIANT
  ReadsPeersByte
\* Both processes of the handshake come to a stop.
CHECK_DEADLOCK FALSE
