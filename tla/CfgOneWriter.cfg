SPECIFICATION Spec
CONSTANTS
  Threads = {main}
  Main = main
  Nil = Nil
  CntMax = 100
  MaxSaves = 3
  MaxRestarts = 3
INVARIANTS TypeOK BootSucceeds SavedSurvives PicksNewer
PROPERTIES ImplementsStore
CHECK_DEADLOCK FALSE
