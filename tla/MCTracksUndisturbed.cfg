CONSTANTS
  Sessions <- MCSessions
  Latencies = {1, 2}
  MaxPath = 4
  MaxBuffers = 6
  MaxTracks = 6
  MaxChain = 3
  FaultKinds = {}
  MaxFaults = 0
  MaxOps = 2
SPECIFICATION Spec
CHECK_DEADLOCK FALSE
INVARIANTS
  StreamIsUndisturbed
