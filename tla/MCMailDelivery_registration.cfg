\* A registration mail sent twice, with another Date, and a letter; no faults.
SPECIFICATION Spec
CONSTANTS
  letter = letter
  hello = hello
  helloAgain = helloAgain
  notice = notice
  album = album
  Mail = {hello, helloAgain, letter}
  Registration = {hello, helloAgain}
  Key <- MCKey
  Ident <- MCIdent
  Sender <- MCSender
  NoIdent = NoIdent
  Limit = 1
  Size <- MCSize
  MaxSize = 3
  MaxEntries = 3
  MaxPosts = 3
  MaxFaults = 0
  MaxLate = 0
INVARIANTS
  RegistrationRetryIsIdempotent
CHECK_DEADLOCK FALSE
