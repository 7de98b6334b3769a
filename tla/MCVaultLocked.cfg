CONSTANTS
  w1 = w1
  w2 = w2
  Slots = {w1, w2}
  P_ONE = 4
  P_FLOOR = 2
  P_SCALE = 2
  ScaleMod = 256
  LOT6 = 1
  BPS = 10
  MaxFill = 3
  MaxSold = 5
  t1 = t1
  t2 = t2
  s1 = s1
  s2 = s2
  p1 = p1
  p2 = p2
  Keys = {a, b}
  NoKey = none
  MaxFeeBps = 1
  HasHook = FALSE
  Terms = {t1, t2}
  Fees = {1, 2}
  Caps = {1}
  MaxFees = 1
  Grids <- AllTerms
  Treasuries = {b}
  Written = {s1, s2}
  CoveredCall = FALSE
  RawPerUnit = 2
  PricePerUnit <- Strikes
  UnitsInLot = 2
  LostInTransfer = 1
  ExpiresAt <- Expiries
  CapPerSeries = 4
  CapTotal = 5
  RollInterval = 2
  Wealth = 10
  Sizes = {1, 2}
  LastTime = 4
  Positions = {p1, p2}
  StrikeAt <- StrikesHeld
  WindowOpens = 1
  Deadline = 2
  MinSize = 1
  MinItm = 1
  KeeperFee = 1
  FeedValues = {2, 4}
  MaxPosition = 2
  MaxFeePot = 1
  o1 = o1
  Owners = {o1}
  IsCoveredCall = FALSE
  IDX_SCALE = 10
  SHARE_UNIT = 2
  UnitsPerLot = 1
  RawPerLot6 = 2
  MarkBandBps = 5
  BasisPoints = 10
  Deposits = {2}
  ShareMoves = {1, 2}
  Marks = {2}
  Flows = {1}
  MaxCollateral = 3
  MaxOther = 1
  MaxLocked = 1
  MaxEpoch = 1
SPECIFICATION ProgramSpec
INVARIANTS SettledBackIsUnlocked
CHECK_DEADLOCK FALSE
