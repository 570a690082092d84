SPECIFICATION FairSpec
CONSTANTS
  Base = 7
  Services = 4
  InitMayFail = FALSE
INVARIANTS TypeOK StartTogether UsesInitialised CleanEnd
PROPERTIES TerminateEnds
CHECK_DEADLOCK FALSE
