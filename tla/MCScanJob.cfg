CONSTANTS
  Modules = {m1, m2}
  Inside = {m1}
  Roots = 1
  MaxStarts = 2
  MaxCancels = 2
  MaxDrops = 1
  MaxReloads = 1
  MaxApprovals = 1
  MaxThrows = 1
  MaxTroubles = 1
  m1 = m1
  m2 = m2
SPECIFICATION FairSpec
CHECK_DEADLOCK FALSE
INVARIANTS
  CancelHitsItsJob
  ConnectedListIsRegistry
PROPERTIES
  RequestsAreHandled
  FirstScanEnds
