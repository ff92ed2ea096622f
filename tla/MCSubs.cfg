SPECIFICATION Spec
CONSTANTS
  u1 = u1
  u2 = u2
  i1 = i1
  i2 = i2
  s1 = s1
  s2 = s2
  s3 = s3
  o1 = o1
  o2 = o2
  Channel = channel
  Users = {u1, u2}
  Instances = {i1, i2}
  Socks = {s1, s2}
  Ops = {o1, o2}
  Cap = 1
  MaxConns = 2
  MaxOps = 2
  MaxFaults = 1
SYMMETRY Symmetric
CHECK_DEADLOCK FALSE
INVARIANTS
  CommandsInOrder
  UpIsHeard
  SubscribedAsMember
