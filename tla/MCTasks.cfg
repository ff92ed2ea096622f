SPECIFICATION Spec
CONSTANTS
  o1 = o1
  o2 = o2
  m1 = m1
  m2 = m2
  m3 = m3
  req = req
  mem = mem
  Ids = {1, 2}
  Ops = {o1, o2}
  Requester = req
  Members = {mem}
  Runners = {m1, m2, m3}
  Owner <- Owners
  Reported = {"in_progress", "awaiting_user_test", "mr_created"}
  Existing = {"none", "created", "in_progress", "awaiting_user_test", "mr_created"}
  IndexLags = FALSE
  MaxLost = 1
  MaxOutages = 1
  MaxCalls = 2
CHECK_DEADLOCK FALSE
SYMMETRY OpSymmetry
INVARIANTS
  TypeOK
  OneActive
  PushNeedsSignOff
  CardTellsTruth
PROPERTY MovesAlongEdges
