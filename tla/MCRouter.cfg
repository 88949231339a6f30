CONSTANTS
  Kinds = {"query", "edit", "param", "stream", "save", "load", "ensure"}
  HostKinds = {"bypass", "preset", "savePreset", "trackFailed", "latency"}
  MaxConnections = 2
  MaxAsks = 2
  MaxPosts = 1
  MaxEdits = 1
  MaxThrows = 0
SPECIFICATION Spec
CHECK_DEADLOCK FALSE
INVARIANTS
  RepliesAreAsked
  StatusBeforeReply
  BaselineIsCurrent
