CONSTANTS
  w1 = w1
  w2 = w2
  v1 = v1
  Writers = {w1, v1}
  Vaults = {v1}
  NoWriter = NoWriter
  Side = "call"
  Strike = 3
  RawPerLot = 2
  FeeBps = 1
  MintFeeBps = 0
  P_ONE = 1024
  P_FLOOR = 32
  P_SCALE = 32
  ScaleMod = 256
  LOT6 = 2
  BPS = 10
  MAX_ASKS = 2
  MAX_ASKS_PER_WRITER = 2
  MAX_WALK = 2
  MAX_WRITERS = 2
  MaxWriterLots = 32
  MinLots = 1
  MaxLots = 32
  Expiry = 2
  HaltGrace = 1
  CloseGrace = 1
  Deposits = {16}
  QuoteLots = {16}
  Prices = {1}
  BuyLots = {32}
  MoveLots = {16}
  MaxQuotes = 2
  MaxTime = 5
  PauseTimes = {3}
SPECIFICATION Spec
PROPERTIES TrimsOnlyDust
CHECK_DEADLOCK FALSE
