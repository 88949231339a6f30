CONSTANTS
  Kinds = {"edit"}
  HostKinds = {"latency"}
  MaxConnections = 2
  MaxAsks = 1
  MaxPosts = 0
  MaxEdits = 0
  MaxThrows = 0
SPECIFICATION Spec
CHECK_DEADLOCK FALSE
INVARIANTS
  ViewIsCurrent
