SPECIFICATION FairSpec
CONSTANTS
  Stubborn = {"udhcpc"}
  MaxEntries = 2
  MaxSaves = 1
  MaxFaults = 1
INVARIANTS TypeOK NoMissedUpdate OneRadioUser DaemonsOfMode
PROPERTIES Settles StatusDrops ImplementsService
CHECK_DEADLOCK FALSE
