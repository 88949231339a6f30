CONSTANTS
  Kinds = {"session", "registry", "settings"}
  MaxSaves = 4
  MaxFaults = 3
  MaxCrashes = 2
SPECIFICATION Spec
CHECK_DEADLOCK FALSE
INVARIANTS
  NeverHalf
  ReportedIsKept
  SettingsAreFound
