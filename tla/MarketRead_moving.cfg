SPECIFICATION Spec
CONSTANTS
  p = p
  q = q
  a = a
  b = b
  c = c
  None = None
  c1 = c1
  c2 = c2
  Pool = {p, q}
  Token = {a, b, c}
  TokensOf <- SharedTokens
  Case = {c1, c2}
  NoDecimals = {}
  Faults = FALSE
  Malformed = FALSE
  Curve <- PoolCurve
  Token0 <- FirstToken
  Token1 <- SecondToken
  Unit <- TokenUnit
  Forward <- CaseForward
  Size <- CaseSize
  FeeBase = 5
  FeeBps = 1
  Q96 = 1
  MaxHead = 1
INVARIANTS ImpactAtOneBlock
CHECK_DEADLOCK FALSE
