SPECIFICATION Spec
CONSTANTS
  d1 = d1 d2 = d2 x1 = x1 x2 = x2 x3 = x3 p1 = p1 p2 = p2 p3 = p3 t1 = t1 t2 = t2 t3 = t3
  NoPool = NoPool
  Process = {d1}
  Dex = {x1, x2, x3}
  Pool = {p1, p2, p3}
  Token = {t1, t2, t3}
  Selected <- OnlyOne
  PoolsOf <- DexPools
  TokensOf <- PairTokens
  DropsLookups = {}
  MaxPools = 2
INVARIANTS CountedTokensStored
CHECK_DEADLOCK FALSE
