SPECIFICATION Spec
CONSTANTS
  Threads = {main, web}
  Main = main
  Nil = Nil
  CntMax = 100
  MaxSaves = 2
  MaxRestarts = 1
INVARIANTS SavedSurvives
CHECK_DEADLOCK FALSE
