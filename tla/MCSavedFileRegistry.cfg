CONSTANTS
  Kinds = {"registry"}
  MaxSaves = 3
  MaxFaults = 0
  MaxCrashes = 0
SPECIFICATION Spec
CHECK_DEADLOCK FALSE
INVARIANTS
  FailureKeepsFile
