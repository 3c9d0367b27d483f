\* One mailbox, three mails of which the second is large, two byte budgets.
SPECIFICATION FairSpec
CONSTANTS
  Account = {1}
  Mail = {1, 2, 3}
  Size <- MCSize
  Corrupt = {}
  Thread = {t1}
  NoThread = NoThread
  Limit = 2
  Budget = {2, 3}
  MaxSends = 3
INVARIANTS
  BatchCanBeReplayed
PROPERTIES
  ImplementsQueue
  LockIsReleased
