CONSTANTS
  o1 = o1
  o2 = o2
  Owners = {o1, o2}
  IsCoveredCall = TRUE
  IDX_SCALE = 10
  SHARE_UNIT = 2
  UnitsPerLot = 1
  RawPerLot6 = 2
  MarkBandBps = 5
  BasisPoints = 10
  Deposits = {2}
  ShareMoves = {1}
  Marks = {2, 3}
  Flows = {1}
  MaxCollateral = 4
  MaxOther = 1
  MaxLocked = 1
  MaxEpoch = 1
SPECIFICATION VaultSpec
SYMMETRY Symmetric
INVARIANTS Funded ClaimsBacked
PROPERTIES NoDilution
CHECK_DEADLOCK FALSE
