CONSTANTS
  Kinds = {"session"}
  MaxSaves = 3
  MaxFaults = 0
  MaxCrashes = 1
SPECIFICATION Spec
CHECK_DEADLOCK FALSE
PROPERTIES
  RestartOpensIt
