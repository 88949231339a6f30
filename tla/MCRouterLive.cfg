CONSTANTS
  Kinds = {"query", "edit", "load"}
  HostKinds = {"bypass", "trackFailed", "latency"}
  MaxConnections = 2
  MaxAsks = 2
  MaxPosts = 1
  MaxEdits = 0
  MaxThrows = 1
SPECIFICATION FairSpec
CHECK_DEADLOCK FALSE
INVARIANTS
  FirstViewIsCurrent
PROPERTIES
  CommandsEnd
