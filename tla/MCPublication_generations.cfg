\* Two publishers and a server, of the program guide and of News.
SPECIFICATION Spec
CONSTANTS
  e1 = e1
  e2 = e2
  Edition = {e1, e2}
  NoEdition = NoEdition
  Collected <- MCCollected
  Expires <- MCExpires
  Publisher = {p1, p2}
  NoPublisher = NoPublisher
  Server = {s1}
  MaxGenerations = 2
  MaxClock = 3
  MaxChanges = 2
  MaxDamage = 1
INVARIANTS PointerIsWhole NothingExpiredIsPublished
PROPERTY ImplementsRegister
CHECK_DEADLOCK FALSE
