SPECIFICATION Spec
CONSTANTS
  Helper = {a, b}
  Reuse = {b}
  MaxAttempts = 2
  Faults = {"write", "restart", "restore", "probe", "enroll", "crash",
            "stop", "signal", "trap_signal", "kill", "power"}
INVARIANTS
  WindowInv
  ExposureIsOwned
  VerifiedIsClosed
PROPERTY
  ImplementsSafeWindow
\* A helper ends; nothing has to happen after that.
CHECK_DEADLOCK FALSE
