SPECIFICATION FairSpec
CONSTANTS
  Threads = {main, web}
  Main = main
  Nil = Nil
  CntMax = 100
  MaxSaves = 2
  MaxRestarts = 0
INVARIANTS ReaderSeesWhole NoLostUpdate
PROPERTIES SaveReturns
CHECK_DEADLOCK FALSE
