\* Two handoffs and a closure notice, two consoles, every kind of failure.
SPECIFICATION FairSpec
CONSTANTS
  r1 = r1
  r2 = r2
  Notice = {1, 2, 3}
  Closure = {3}
  To <- MCTo
  Handler = {h1}
  Worker = worker
  NoThread = NoThread
  MaxPosts = 2
  MaxFaults = 1
  MaxWaits = 1
  MaxCopies = 2
INVARIANTS
  DispatchedWasStored
  CopyNeedsRollback
PROPERTIES
  OutboxDrainsUnlessBlocked
CHECK_DEADLOCK FALSE
