SPECIFICATION FairSpec
CONSTANTS
  d1 = d1 d2 = d2 x1 = x1 x2 = x2 x3 = x3 p1 = p1 p2 = p2 p3 = p3 t1 = t1 t2 = t2 t3 = t3
  NoPool = NoPool
  Process = {d1, d2}
  Dex = {x1, x2, x3}
  Pool = {p1, p2, p3}
  Token = {t1, t2, t3}
  Selected <- TwoAndOne
  PoolsOf <- DexPools
  TokensOf <- PairTokens
  DropsLookups = {x2}
  MaxPools = 2
INVARIANTS TypeOK SummaryComplete FailuresDoNotSpread LossIsOnePools
PROPERTIES DiscoveryEnds ImplementsCatalog
CHECK_DEADLOCK FALSE
