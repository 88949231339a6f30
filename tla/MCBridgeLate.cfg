CONSTANTS
  Sends = {c1}
  MaxDeaths = 0
  MaxBreaks = 0
  MaxStalls = 1
  MaxMutations = 0
  MaxIdle = 0
  MaxFails = 0
  MaxRetries = 0
  c1 = c1
  c2 = c2
SPECIFICATION FairSpec
CHECK_DEADLOCK FALSE
PROPERTIES
  LateWriteReconnects
