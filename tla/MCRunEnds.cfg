SPECIFICATION FairSpec
CONSTANTS
  c1 = c1
  rec = rec
  r1 = r1
  Calls = {c1, rec}
  Reconciler = rec
  Runners = {r1}
  NoRunner = NoRunner
  ClaimWindow = 1
  HardWindow = 2
  IdleWindow = 1
  OfflineTTL = 2
  LeaseTTL = 1
  Grace = 0
  TurnLimit = 1
  MaxPosts = 0
  MaxTurns = 1
  MaxNow = 5
  MaxFaults = 1
  Policies = {TRUE, FALSE}
  Overlap = FALSE
INVARIANTS TurnsCountedOnce DeadlineUnderCeiling
PROPERTY EveryRunEnds
CHECK_DEADLOCK FALSE
