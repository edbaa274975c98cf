SPECIFICATION Spec
CONSTANTS
  Sessions = {s1, s2}
  Paths = {p1, p2}
  Stored = {p1}
  LoginSlots = 0
  UploadSlots = 1
  DownloadSlots = 0
  MaxSim = 2
  Settings <- AllSettings
SYMMETRY Symmetric
INVARIANTS UploadsApart BooksBalance IndexedIsComplete
