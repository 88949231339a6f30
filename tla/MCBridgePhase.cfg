CONSTANTS
  Sends = {c1}
  MaxDeaths = 1
  MaxBreaks = 0
  MaxStalls = 0
  MaxMutations = 0
  MaxIdle = 1
  MaxFails = 1
  MaxRetries = 1
  c1 = c1
  c2 = c2
SPECIFICATION Spec
CHECK_DEADLOCK FALSE
INVARIANTS
  PhaseIsConnected
