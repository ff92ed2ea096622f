SPECIFICATION FairSpec
CONSTANTS
  m1 = m1
  u1 = u1
  u2 = u2
  Msgs = {m1}
  DesktopUsers = {u1}
  MobileUsers = {u1, u2}
  CheckRetries = 1
  PushRetries = 1
  MaxFaults = 1
  MaxCrashes = 1
CHECK_DEADLOCK FALSE
INVARIANTS
  PushedOnce
  NobodyMissed
PROPERTY
  EveryAlertSettles
