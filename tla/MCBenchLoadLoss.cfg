SPECIFICATION Spec
\* Every generator may be done.
CHECK_DEADLOCK FALSE
CONSTANTS
  c1 = c1
  c2 = c2
  i1 = i1
  i2 = i2
  Clients = {c1}
  Conns <- MCConns
  Total = 4
  OneIn = 3
  AchievedPercent = 75
INVARIANT PassBoundsLoss
