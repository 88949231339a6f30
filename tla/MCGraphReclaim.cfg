CONSTANTS
  Graphs = {g1, g2, g3}
  Callbacks = {rt}
  Publishers = {pub}
  None = None
  MaxFailures = 1
  g1 = g1
  g2 = g2
  g3 = g3
  rt = rt
  pub = pub
SPECIFICATION FairSpec
PROPERTIES
  OperationsEnd
  RefinesSafeReclaim
INVARIANTS
  TypeOK
  NoUseAfterFree
  QueueOwnsItsGraphs
  LeaksAreFailures
  CleanExit
