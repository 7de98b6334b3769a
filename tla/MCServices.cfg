CONSTANTS
  m1 = m1
  m2 = m2
  m3 = m3
  Fans = {f1, f2}
  Width = 2
  Items = 3
  Gate = 2
  Nobody = none
  Launch <- LaunchSet
  MarketConcurrency = 2
  MaxTicks = 2
  MaxSignatures = 4
  FullPage = 2
  BackfillPage = 1
  HeadPages = 2
  BackfillPages = 2
  Endpoints = 2
  Calls = {c1, c2}
  Home = 1
  Bench = 1
  LastMoment = 2
  Levels = {1, 3}
  Tolerance = 1
  LotsPerSeries = 2
  AskMinimum = 2
  VaultCap = 3
  Backings <- OneSideBacked
  BesideVault = TRUE
  Pages = {p1, p2}
  Ttl = 1
  Stale = 2
  Kept = 2
  Timeout = 1
  LastSecond = 6
  BlockhashLife = 1
  HeightSlack = 1
  MaxRuns = 2
  MaxHeight = 2
  Subjects = {x1, x2}
  Nothing = nothing
  Gap = 4
  ExpiriesAhead = 2
  Extra = {}
  GraceTime = 1
  Tier = 1
  MaxLiveSeries = 6
  StrikesPerSide = 3
  Forwards = {40, 60}
  LastPassTime = 10
  MaxPriceAge = 1
  CacheLife = 1
  LastMinute = 3
  AskPrices = {1, 3}
  AskSizes = {1, 2}
  TicketSizes = {2, 3}
  PerLot = 2
  TakerFee = 1
  WalkLimit = 2
  MaxAsks = 3
SPECIFICATION ServicesSpec
INVARIANTS GateIsExact   FailsAfterAll CheapIsDust VerdictsStand   TicketHonoured
PROPERTIES QuietWhenBlind NeverBackwards RunsEnd PositionsArrive
CHECK_DEADLOCK FALSE
