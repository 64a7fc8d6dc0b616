SPECIFICATION Spec
CONSTANTS
  p1 = p1
  p2 = p2
  r1 = r1
  r2 = r2
  NoTx = NoTx
  Process = {p1}
  Row = {r1}
  MaxOpens = 2
INVARIANTS LoneProcessSucceeds
CHECK_DEADLOCK FALSE
