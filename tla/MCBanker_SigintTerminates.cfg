SPECIFICATION FairSpec
CONSTANTS
  number_p = 2
  number_r = 1
  Units <- Units0to2
PROPERTY
  SigintTerminates
\* The simulation ends after SIGINT.
CHECK_DEADLOCK FALSE
