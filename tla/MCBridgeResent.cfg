CONSTANTS
  Sends = {c1}
  MaxDeaths = 0
  MaxBreaks = 1
  MaxStalls = 0
  MaxMutations = 0
  MaxIdle = 0
  MaxFails = 0
  MaxRetries = 0
  c1 = c1
  c2 = c2
SPECIFICATION Spec
CHECK_DEADLOCK FALSE
PROPERTIES
  FailedIsNotSent
