CONSTANTS
  Sessions <- MCMonitored
  Latencies = {1, 2}
  MaxPath = 1
  MaxBuffers = 6
  MaxTracks = 3
  MaxChain = 2
  FaultKinds = {}
  MaxFaults = 0
  MaxOps = 2
SPECIFICATION Spec
CHECK_DEADLOCK FALSE
INVARIANTS
  TracksAreWithinLimits
