SPECIFICATION Spec
CONSTANTS
  t1 = t1
  t2 = t2
  t3 = t3
  c1 = c1
  c2 = c2
  c3 = c3
  k1 = k1
  k2 = k2
  NoTurn = NoTurn
  Turns = {t1, t2, t3}
  Calls = {c1, c2, c3}
  Keys = {k1}
  RunKey <- MCRunKey
  ParkKey <- MCParkKey
  MaxRuns = 6
  MaxFaults = 1
  MaxCrashes = 1
  MaxStops = 1
  MaxBoots = 1
  Expiry = TRUE
CONSTRAINT OneHarm
SYMMETRY TurnSymmetry
INVARIANTS  OneHand
 
CHECK_DEADLOCK FALSE
