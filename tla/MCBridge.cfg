CONSTANTS
  Sends = {c1, c2}
  MaxDeaths = 1
  MaxBreaks = 1
  MaxStalls = 1
  MaxMutations = 1
  MaxIdle = 1
  MaxFails = 0
  MaxRetries = 1
  c1 = c1
  c2 = c2
SPECIFICATION Spec
CHECK_DEADLOCK FALSE
INVARIANTS
  NoCommandIsForgotten
  PendingIsInFlight
  EngineChangeIsNoticed
