SPECIFICATION FairSpec
CONSTANTS
  Key = Key
  Power = Power
  Keys = {Key, Power}
  LongPress = 2
  WaitTime = 1
  RetryTime = 1
  MaxQueue = 1
  MaxPresses = 2
  MaxFaults = 1
  MaxRestarts = 1
INVARIANTS TypeOK PressNeverIgnored OneServer
PROPERTIES OneChangePerPress CycleOrder Settles
CHECK_DEADLOCK FALSE
