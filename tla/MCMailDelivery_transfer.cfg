\* Two posts of four mails: two that differ in their Date only, one without a
\* Message-ID, one too large for the console.  Batches of two within a budget that the
\* second registration and the notice exceed together; requests can be handled after
\* the console has given them up; the list holds two.
SPECIFICATION FairSpec
CONSTANTS
  letter = letter
  hello = hello
  helloAgain = helloAgain
  notice = notice
  album = album
  Mail = {hello, helloAgain, notice, album}
  Registration = {hello, helloAgain}
  Key <- MCKey
  Ident <- MCIdent
  Sender <- MCSender
  NoIdent = NoIdent
  Limit = 2
  Size <- MCSize
  MaxSize = 3
  MaxEntries = 2
  MaxPosts = 2
  MaxFaults = 2
  MaxLate = 1
INVARIANTS
  EachIdentOnce
  LossNeedsMistakenDelete
  FlagNeverHidesMail
PROPERTIES
  EveryMailArrives
CHECK_DEADLOCK FALSE
