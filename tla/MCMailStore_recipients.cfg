\* Two mailboxes that share mail, two handler threads.
SPECIFICATION RecipientsSpec
CONSTANTS
  Account = {1, 2}
  Mail = {1}
  Size <- MCSize
  Corrupt = {1}
  Thread = {t1, t2}
  NoThread = NoThread
  Limit = 1
  Budget = {1}
  MaxSends = 3
INVARIANTS
  AcknowledgedMailIsKept
  OneCopy
  NewMailChangesFlag
SYMMETRY MCThreads
