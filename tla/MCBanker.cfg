\* Three processes, one resource type: several waiters in one scan.
SPECIFICATION FairSpec
CONSTANTS
  number_p = 3
  number_r = 1
  Units <- Units0to2
INVARIANTS
  ClaimsRespected
  NoForgottenWaiter
PROPERTIES
  UnitsOnlyMove
  WaitersKeepTheirPlace
  StopsUnlessAllWait
  ImplementsResourcePool
\* The simulation ends after SIGINT.
CHECK_DEADLOCK FALSE
