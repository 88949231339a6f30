CONSTANTS
  Kinds = {"settings"}
  MaxSaves = 3
  MaxFaults = 0
  MaxCrashes = 1
SPECIFICATION DamagedSpec
CHECK_DEADLOCK FALSE
INVARIANTS
  SettingsAreFound
