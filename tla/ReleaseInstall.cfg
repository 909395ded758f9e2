SPECIFICATION Spec
CONSTANTS
  Installer = {i1, i2}
  Version = {v1, v2}
  MaxBegins = 3
  None = None
SYMMETRY Alike
INVARIANTS
  TypeOK
  InstalledIsComplete
  VerifiedWasInstalled
PROPERTY
  UpgradeKeepsCommands
CHECK_DEADLOCK FALSE
