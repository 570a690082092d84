SPECIFICATION Spec
CONSTANTS
  Stubborn = {"wpa_supplicant"}
  MaxEntries = 1
  MaxSaves = 0
  MaxFaults = 0
INVARIANTS OneRadioUser
CHECK_DEADLOCK FALSE
