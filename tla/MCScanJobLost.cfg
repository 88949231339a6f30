CONSTANTS
  Modules = {m1, m2}
  Inside = {m1}
  Roots = 1
  MaxStarts = 1
  MaxCancels = 0
  MaxDrops = 1
  MaxReloads = 0
  MaxApprovals = 0
  MaxThrows = 0
  MaxTroubles = 2
  m1 = m1
  m2 = m2
SPECIFICATION Spec
CHECK_DEADLOCK FALSE
INVARIANTS
  ListIsRegistry
