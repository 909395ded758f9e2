SPECIFICATION Spec
CONSTANTS
  Helper = {a, b}
  Reuse = {b}
  MaxAttempts = 2
  Faults = {}
INVARIANT
  HaltedLeavesSafe
\* A helper ends; nothing has to happen after that.
CHECK_DEADLOCK FALSE
