CONSTANTS
  Sends = {c1}
  MaxDeaths = 0
  MaxBreaks = 2
  MaxStalls = 0
  MaxMutations = 2
  MaxIdle = 0
  MaxFails = 0
  MaxRetries = 0
  c1 = c1
  c2 = c2
SPECIFICATION Spec
CHECK_DEADLOCK FALSE
PROPERTIES
  ReplacementIsReal
