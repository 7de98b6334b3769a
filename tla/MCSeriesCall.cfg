CONSTANTS
  w1 = w1
  w2 = w2
  v1 = v1
  Writers = {w1, v1}
  Vaults = {v1}
  NoWriter = NoWriter
  Side = "call"
  Strike = 3
  RawPerLot = 3
  FeeBps = 1
  MintFeeBps = 3
  P_ONE = 64
  P_FLOOR = 8
  P_SCALE = 8
  ScaleMod = 256
  LOT6 = 2
  BPS = 10
  MAX_ASKS = 2
  MAX_ASKS_PER_WRITER = 2
  MAX_WALK = 2
  MAX_WRITERS = 2
  MaxWriterLots = 4
  MinLots = 1
  MaxLots = 2
  Expiry = 2
  HaltGrace = 1
  CloseGrace = 1
  Deposits = {3}
  QuoteLots = {2}
  Prices = {1}
  BuyLots = {2}
  MoveLots = {1}
  MaxQuotes = 2
  MaxTime = 4
  PauseTimes = {1, 2, 3}
SPECIFICATION TimelySpec
INVARIANTS TokensBacked
PROPERTIES ImplementsPool NoExerciseAfterSettlement HaltHonoured WritesDeclared
CHECK_DEADLOCK FALSE
