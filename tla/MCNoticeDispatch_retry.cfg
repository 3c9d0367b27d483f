\* One handoff, one failure.
SPECIFICATION Spec
CONSTANTS
  r1 = r1
  r2 = r2
  Notice = {1}
  Closure = {}
  To <- MCTo
  Handler = {h1}
  Worker = worker
  NoThread = NoThread
  MaxPosts = 2
  MaxFaults = 1
  MaxWaits = 0
  MaxCopies = 2
INVARIANTS
  RetryDeliversOnce
CHECK_DEADLOCK FALSE
