SPECIFICATION FairSpec
CONSTANTS
  p1 = p1
  p2 = p2
  r1 = r1
  r2 = r2
  NoTx = NoTx
  Process = {p1, p2}
  Row = {r1, r2}
  MaxOpens = 2
INVARIANTS TypeOK SchemaFollowsVersions ReadyMeansCurrent
PROPERTIES RunsSurvive SomeProcessGetsReady
CHECK_DEADLOCK FALSE
