SPECIFICATION ProgramSpec
CONSTANTS
  n = 3
  BUFFER_SIZE = 2
  MaxItems = 5
  User <- Users
  Units = 1
  Drift = 2
  Seats = 5
  N = 3
INVARIANTS
  MutualExclusion
  OvertakenOnceByEach
  FirstInFirstOut
  SemaphoreCounts
  FileFollowsOutput
  DestroyedWhenUnused
  InTurns
PROPERTIES
  Served
  PhilosophersStarve
  MutexFileFinishes
\* Philosophers, threads and pipes come to a stop, and the producer at its bound.
CHECK_DEADLOCK FALSE
