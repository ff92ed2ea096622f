SPECIFICATION Spec
CONSTANTS
  u1 = u1
  u2 = u2
  i1 = i1
  i2 = i2
  o1 = o1
  o2 = o2
  r1 = r1
  r2 = r2
  r3 = r3
  Users = {u1}
  Instances = {i1, i2}
  Ops = {o1, o2}
  Readers = {r1, r2}
  Kinds = {"alerts", "inbox"}
  MaxChanges = 3
  MaxReads = 3
  MaxFaults = 1
SYMMETRY Symmetric
CHECK_DEADLOCK FALSE
INVARIANTS
  AlertsFollow
  InboxFollowsItsReads
