\* Two callers, two nonces, a clock that is set back once.
SPECIFICATION Spec
CONSTANTS
  Challenge = {A, B}
  Binding = {b1}
  Ttl = {2}
  Thread = {t1, t2}
  NoThread = NoThread
  None = None
  Attempts = 2
  MaxClock = 3
  MaxSetBacks = 1
  MaxCalls = 4
SYMMETRY MCThreads
INVARIANTS
  OneReceipt
  AnswersAreDurable
  ConsumedInsideWindow
CHECK_DEADLOCK FALSE
