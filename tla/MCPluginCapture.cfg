CONSTANTS
  Plugins = {p1, p2, p3}
  Shadows = {s1, s2, s3, s4}
  None = None
  MaxFailures = 0
  p1 = p1
  p2 = p2
  p3 = p3
  s1 = s1
  s2 = s2
  s3 = s3
  s4 = s4
SPECIFICATION Spec
SYMMETRY Interchangeable
INVARIANTS
  CaptureIsQuiescent
