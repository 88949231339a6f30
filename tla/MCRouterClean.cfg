CONSTANTS
  Kinds = {"save"}
  HostKinds = {"bypass"}
  MaxConnections = 1
  MaxAsks = 1
  MaxPosts = 1
  MaxEdits = 0
  MaxThrows = 0
SPECIFICATION Spec
CHECK_DEADLOCK FALSE
INVARIANTS
  CleanMeansSaved
