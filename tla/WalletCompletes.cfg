SPECIFICATION FairSpec
CONSTANTS
  Run = {r1, r2}
  Stake = {2}
  Keys = {k1, k2}
  NoKeys = NoKeys
  Free = {3, 5, 12}
  Locked = {0, 1, 3}
  MinBond = 1
  Fee = 1
  Deposit = 1
  MaxIterations = 5
  Faults = {}
PROPERTY Completes
CHECK_DEADLOCK FALSE
