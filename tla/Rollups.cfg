\* Deadlock off: the pass over the fills ends.
CONSTANTS
  NoBm = NoBm
  NoPrice = NoPrice
  p1 = p1  p2 = p2  bm1 = bm1  bm2 = bm2
  Pools <- MCPools
  BMs <- MCBMs
  Prices = {1, 2, 3}
  Sizes = {0, 2}
  Quotes = {1, 5}
  Minutes <- MCMinutes
  Samples <- MCSamples
  MaxFills = 3
  Intervals = {1, 2}
  Legacy <- MCLegacy
  Unit = 1
SPECIFICATION Spec
INVARIANTS
  PoolRowsAreTotals CandlesWellFormed SidesPartitionVolume BmRowsAreTotals
  CandlesMatchFacts CandlesBounded EndpointsAgree BmVolumeMatchesFacts
CHECK_DEADLOCK FALSE
