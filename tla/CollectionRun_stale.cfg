SPECIFICATION Spec
CONSTANTS
  r1 = r1 r2 = r2 disc = disc p1 = p1 p2 = p2 c1 = c1 c2 = c2 e1 = e1 e2 = e2 e3 = e3
  Discovery = disc NoRun = NoRun NoPool = NoPool
  Run <- OneRun
  Process <- OneProcess
  Pool = {p1, p2}
  Case = {c1}
  Event = {}
  Adapters = 2
  PoolsOf <- OnePoolEach
  EventsOf <- NoEvents
  WithExecution = TRUE
  CollectEvents = FALSE
  Misconfigured = FALSE
  StatementFaults = FALSE
PROPERTIES AbortsOnlyWhenLockedOut
CHECK_DEADLOCK FALSE
