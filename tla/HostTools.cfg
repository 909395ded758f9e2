SPECIFICATION ToolSpec
CONSTANTS
  a1 = a1
  a2 = a2
  b = b
  Candidate <- MCCandidate
  Operator <- MCOperator
  Samples = 3
  Count = 2
  MaxDelay = 2
  MaxRuns = 2
  Torn = Torn
  None = None
  Run = {p, q}
  m1 = m1
  m2 = m2
  m3 = m3
  Manifest = {m1, m2, m3}
  Generated <- MCGenerated
  Expires <- MCExpires
  Peers <- MCPeers
  Minimum <- MCMinimum
  Tolerance = 0
  MaxWindow = 2
  MaxClock = 3
  MaxBegins = 2
SYMMETRY Alike
INVARIANTS
  ToolsTypeOK
  ChoiceIsBest
  PreviousIsKept
  PeersAreVerified
CHECK_DEADLOCK FALSE
