SPECIFICATION FairSpec
CONSTANTS
  p = p
  q = q
  a = a
  b = b
  c = c
  None = None
  c1 = c1
  c2 = c2
  Pool = {p, q}
  Token = {a, b, c}
  TokensOf <- SharedTokens
  Case = {c1, c2}
  NoDecimals = {c}
  Faults = TRUE
  Malformed = TRUE
  Curve <- PoolCurve
  Token0 <- FirstToken
  Token1 <- SecondToken
  Unit <- TokenUnit
  Forward <- CaseForward
  Size <- CaseSize
  FeeBase = 5
  FeeBps = 1
  Q96 = 1
  MaxHead = 2
INVARIANTS TypeOK LabelNotAhead ImpactIsSizeOnly SuccessHasImpact NothingGuessed OneAnswerPerToken
  FailedReadLeavesState
PROPERTIES PassEnds
CHECK_DEADLOCK FALSE
