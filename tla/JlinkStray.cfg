SPECIFICATION FairSpec
CONSTANTS
  Key = Key
  Power = Power
  Keys = {Key, Power}
  LongPress = 2
  WaitTime = 1
  RetryTime = 10
  MaxQueue = 1
  MaxPresses = 1
  MaxFaults = 1
  MaxRestarts = 0
PROPERTIES ServerStops
CHECK_DEADLOCK FALSE
