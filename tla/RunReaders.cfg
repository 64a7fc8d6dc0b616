SPECIFICATION ReadersSpec
CONSTANTS
  r1 = r1 r2 = r2 disc = disc p1 = p1 p2 = p2 c1 = c1 c2 = c2 e1 = e1 e2 = e2 e3 = e3
  Age <- StartOrder
  Idle = Idle Free = Free
  Discovery = disc NoRun = NoRun NoPool = NoPool
  Run <- TwoRuns
  Process <- TwoProcesses
  Pool = {p1}
  Case = {c1}
  Event = {e1}
  Adapters = 1
  PoolsOf <- OnePool
  EventsOf <- OneEvent
  WithExecution = TRUE
  CollectEvents = TRUE
  Misconfigured = FALSE
  StatementFaults = FALSE
INVARIANTS LockDiscipline
PROPERTIES ImplementsRecords AnswersAgree LatestMovesOn
CHECK_DEADLOCK FALSE
