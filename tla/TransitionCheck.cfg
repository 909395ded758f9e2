SPECIFICATION Spec
CONSTANTS
  None = None
  Absent = Absent
  Key = {1, 2}
  Index = {1, 2}
  Tuple <- MCTuple
  Timing <- MCTiming
  Node <- MCNode
  Setup <- MCSetup
  MaxHeight = 3
  MaxMoves = 2
INVARIANTS
  TypeOK
  SafeIsOneMoment
  CustodyIsTrue
  AuthorshipIsFinal
  AuthorsOnTime
  QualifiedRuntime
  WaitingIsAccepted
CHECK_DEADLOCK FALSE
