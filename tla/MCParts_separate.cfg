\* The shop: two importers and two artwork builds over catalogs with and without
\* identities, four products for three identities, pages of two rows.  Areas:
\* three towns for two codes, two builders.  Receipts: two forms, two handlers.
\* Two key pairs for the forecast files, captures of four resources over five moments.
SPECIFICATION RestingSpec
CONSTANTS
  a = a
  b = b
  cc = cc
  d = d
  Product = {a, b, cc, d}
  Pictured = {a, b}
  Importer = {p1, p2}
  NoImporter = NoImporter
  None = None
  Found <- MCFound
  Legacy <- MCLegacy
  MaxMovieId = 3
  MaxShown = 2
  ArtBuild = {t1, t2}
  MaxImports = 2
  MaxBuilds = 2
  Town = {1, 2, 3}
  Builder = {b1, b2}
  NoBuilder = NoBuilder
  MaxCode = 2
  MaxRuns = 3
  vote = vote
  rating = rating
  Form = {vote, rating}
  Malformed = Malformed
  Handler = {h1, h2}
  MaxSubmits = 4
  Earlier <- MCEarlier
  WindowLength = 2
  CaptureTimeout = 1
  MaxCaptureClock = 4
  MaxLead = 1
  Catalog <- Catalogs
  Weather <- Weathers
  Key = {k1, k2}
  FullValidity = 2
  ShortValidity = 1
  MaxClock = 2
  Missing <- NoCode
  Place = {a, b}
  Code <- Codes
  Character <- Characters
  Byte <- Bytes
  MaxLength = 9
  Reach = 3
  Markers = 4
  LongCodes = 2
  GroupSize = 3
  Capacity = 3
  Body <- Bodies
  Prefix <- Prefixes
  Language = 0
  Languages = 7
  NewsDocument <- Snapshots
  Slots = 3
  MaxSnapshots = 2
  Image <- Images
  ArticleId = {a}
INVARIANTS
  CardsFitPages
  LossNeedsOverlap
  FirstReceiptAnswers
  RecordsAreOneMoment
  FileReadsBack
  AcceptedPairIsUsable
  EncodedReadsBack
  HandoffIsWhole
  AcceptedBundleResolves
PROPERTY IdentityIsForever
CHECK_DEADLOCK FALSE
