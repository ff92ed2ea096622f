SPECIFICATION FairSpec
CONSTANTS
  t1 = t1
  t2 = t2
  t3 = t3
  c1 = c1
  c2 = c2
  k1 = k1
  k2 = k2
  NoTurn = NoTurn
  Turns = {t1, t2, t3}
  Calls = {c1, c2}
  Keys = {k1}
  RunKey <- MCRunKey
  ParkKey <- MCParkKey
  MaxRuns = 4
  MaxFaults = 1
  MaxCrashes = 1
  MaxStops = 0
  MaxBoots = 0
  Expiry = FALSE
CHECK_DEADLOCK FALSE
CONSTRAINT InOrder
PROPERTIES
  HandoffIsAnswered
  NeverWedged
