CONSTANTS
  MaxPriceAge = 1
  CacheLife = 1
  LastMinute = 4
SPECIFICATION MarksSpec
INVARIANTS QuotedOnFresh
CHECK_DEADLOCK FALSE
