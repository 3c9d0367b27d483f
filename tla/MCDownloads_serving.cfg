\* Two command processes, two launches, two manifests, three slots; the server with
\* two editions of the guide and of News.
SPECIFICATION RestingSpec
CONSTANTS
  p1 = p1
  p2 = p2
  l1 = l1
  l2 = l2
  s1 = s1
  s2 = s2
  Tool <- Tools
  Launcher <- Launchers
  Console = console
  NoId = noid
  Slot <- Slots
  Manifest <- Manifests
  FirstTables <- Tables
  None = None
  Torn = Torn
  MaxRuns = 2
  Second <- Seconds
  MaxEdition = 2
  Collected <- First
  Expires <- After
  MaxClock = 3
  Listing <- Listings
  Area <- Areas
  Number <- Numbers
  Direct <- Answered
  Routes <- Consoles
  Keyed <- Coded
INVARIANTS
  TornFileHasABackup
  ConfiguredConsoleIsKnown
  PreparedProfilePasses
  ProvisionConverges
  OwnServiceOutlivesConsole
  PreflightAgreesWithServe
  PreflightedTaskIsServed
  OneEditionPerProcess
SYMMETRY Symmetry
CHECK_DEADLOCK FALSE
