SPECIFICATION Spec
CONSTANTS
  Run = {r1, r2}
  Kind = {"new", "reuse", "readiness", "wallet"}
  MaxHeight = 3
  MaxUpsets = 1
SYMMETRY Alike
INVARIANTS
  TypeOK
  KeysAreEarned
  WasteHasReason
  PackageIsSound
PROPERTY
  WholeStaysWhole
CHECK_DEADLOCK FALSE
