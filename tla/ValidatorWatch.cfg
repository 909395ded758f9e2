SPECIFICATION Spec
CONSTANTS
  Account = {alice, bob}
  NoIndex = NoIndex
  Authority = {i0, i1}
  MaxHeight = 3
  MaxSession = 1
  Samples = 3
  RequiredReady = 2
  MaxUpsets = 1
SYMMETRY NodeSymmetry
INVARIANTS TypeOK SampleIsSnapshot AcceptedIsAuthored AcceptedIsRecovery
CHECK_DEADLOCK FALSE
