CONSTANTS
  Sessions <- MCSessions
  Latencies = {1, 2}
  MaxPath = 4
  MaxBuffers = 6
  MaxTracks = 6
  MaxChain = 3
  FaultKinds = {"swap","prepare","retire"}
  MaxFaults = 1
  MaxOps = 2
SPECIFICATION Spec
CHECK_DEADLOCK FALSE
INVARIANTS
  TypeOK
  RoutesAreSound
  GraphFollowsTracks
  FullOutputsAreAligned
  LowOutputsHearTheirPlugins
PROPERTIES
  RefusalsKeepTracks
  SystemOutputsStay
