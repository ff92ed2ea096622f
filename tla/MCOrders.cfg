SPECIFICATION FairSpec
CONSTANTS
  s1 = s1
  s2 = s2
  q1 = q1
  q2 = q2
  Sweepers = {s1}
  Requests = {q1}
  Harnesses = {"cli", "server"}
  Kinds = {"watch", "beat", "schedule"}
  Firings = {2}
  Interval = 1
  ThreadTTL = 2
  Threaded = {"watch"}
  Busy = {"schedule"}
  MaxNow = 2
  MaxMessages = 1
  MaxEdits = 1
  MaxChanges = 1
CHECK_DEADLOCK FALSE
INVARIANT FiresOnce
PROPERTY ConsentFirst
CONSTANT MaxLost = 1
PROPERTY MissedIsCaught
