CONSTANTS
  Sends = {c1}
  MaxDeaths = 1
  MaxBreaks = 1
  MaxStalls = 1
  MaxMutations = 1
  MaxIdle = 1
  MaxFails = 1
  MaxRetries = 1
  c1 = c1
  c2 = c2
SPECIFICATION FairSpec
CHECK_DEADLOCK FALSE
PROPERTIES
  Reconnects
