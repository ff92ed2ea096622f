SPECIFICATION Spec
CONSTANTS
  c1 = c1
  c2 = c2
  rec = rec
  r1 = r1
  r2 = r2
  Calls = {c1, c2, rec}
  Reconciler = rec
  Runners = {r1, r2}
  NoRunner = NoRunner
  ClaimWindow = 1
  HardWindow = 1
  IdleWindow = 1
  OfflineTTL = 2
  LeaseTTL = 1
  Grace = 0
  TurnLimit = 1
  MaxPosts = 1
  MaxTurns = 0
  MaxNow = 2
  MaxFaults = 1
  Policies = {TRUE, FALSE}
  Overlap = FALSE
SYMMETRY CallSymmetry
CHECK_DEADLOCK FALSE
INVARIANTS
  TypeOK
  OneHolder
  PostsCountedOnce
  AnswerNotDuplicated
PROPERTIES
  ProtocolSpec
