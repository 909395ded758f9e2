SPECIFICATION Spec
CONSTANTS
  Helper = {a}
  Reuse = {}
  MaxAttempts = 2
  Faults = {"signal", "trap_signal"}
INVARIANT
  InterruptedRestoresSafe
\* A helper ends; nothing has to happen after that.
CHECK_DEADLOCK FALSE
