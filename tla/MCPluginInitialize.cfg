CONSTANTS
  Plugins = {p1, p2}
  Shadows = {s1, s2, s3}
  None = None
  MaxFailures = 1
  p1 = p1
  p2 = p2
  s1 = s1
  s2 = s2
  s3 = s3
SPECIFICATION Spec
SYMMETRY Interchangeable
INVARIANTS
  InitializeIsQuiescent
