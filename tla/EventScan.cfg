SPECIFICATION FairBatchSpec
CONSTANTS
  MaxBlock = 5
  ChunkSize = 8
  MinChunk = 1
  MaxShrinks = 2
  Providers <- MCProviders
  MaxFetches = 2
  MaxRequests = 10
  MaxRetries = 2
  None = None
  Lookback = 4
  MaxBlocksPerRun = 5
  Asked <- MCAsked
  Calls <- MCCalls
  Chains <- MCChains
INVARIANTS BatchTypeOK BatchComplete OneTimePerBlock EveryBlockSettledOnce AdaptsToLimit PostsBounded ErrorsAccounted RangeHonoured
PROPERTIES FetchReturns ImplementsScan
CHECK_DEADLOCK FALSE
