SPECIFICATION FairSpec
CONSTANTS
  Helper = {a, b}
  Reuse = {b}
  MaxAttempts = 2
  Faults = {"write", "restart", "restore", "probe", "enroll", "crash"}
INVARIANT
  ProvenOrStopped
PROPERTIES
  WindowCloses
  HelperEnds
\* A helper ends; nothing has to happen after that.
CHECK_DEADLOCK FALSE
