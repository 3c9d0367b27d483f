\* One importer, two imports, two pages.
SPECIFICATION Spec
CONSTANTS
  a = a
  b = b
  cc = cc
  d = d
  Product = {a, b, cc, d}
  Pictured = {a, b}
  Importer = {p1}
  NoImporter = NoImporter
  None = None
  Found <- MCFound
  Legacy <- MCLegacy
  MaxMovieId = 3
  MaxShown = 2
  ArtBuild = {t1}
  MaxImports = 2
  MaxBuilds = 0
INVARIANT InChannelIdNamesOneProduct
CHECK_DEADLOCK FALSE
