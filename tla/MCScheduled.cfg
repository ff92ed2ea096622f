SPECIFICATION FairSpec
CONSTANTS
  a1 = a1
  a2 = a2
  p1 = p1
  p2 = p2
  Authors = {a1, a2}
  Pollers = {p1, p2}
  Lease = 2
  GiveUpAfter = 1
  LongRounds = FALSE
  MaxNow = 2
  MaxEdits = 1
  MaxFaults = 1
CHECK_DEADLOCK FALSE
INVARIANTS
  TypeOK
  NotTwice
PROPERTIES
  DeletedIsGone
  EveryMessageSettles
