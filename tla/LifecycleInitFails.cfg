SPECIFICATION FairSpec
CONSTANTS
  Base = 7
  Services = 4
  InitMayFail = TRUE
PROPERTIES InitFailureEnds
CHECK_DEADLOCK FALSE
