SPECIFICATION StreamSpec
CONSTANTS
  Events = {1, 2, 3, 4}
  Ephemeral = {2}
  MaxLen = 2
  Buffer = 2
  Retries = 0
  MaxConns = 2
  MaxFailures = 1
CHECK_DEADLOCK FALSE
INVARIANTS
  DoneIsComplete
  CursorIsHonest
  NothingMissing
