SPECIFICATION Spec
CONSTANTS
  catalog = catalog
  audit = audit
  fixture = fixture
  manifest = manifest
  rooms = rooms
  Path = {catalog, audit, fixture, manifest, rooms}
  DirectoryOf <- MCDirectoryOf
  Job <- MCJob
  Publisher = {p1, p2, p3}
  NoPublisher = NoPublisher
  MaxRuns = 3
INVARIANTS SourcesHoldWhilePublished BatchesAreWhole NobodyWaitsInACircle
CHECK_DEADLOCK FALSE
