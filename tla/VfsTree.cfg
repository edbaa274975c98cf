SPECIFICATION Spec
CONSTANTS
  a = a
  b = b
  Slave = {a, b}
  None = None
  Path <- MCPath
  DirPath <- MCDirs
  Sfv = "sfv"
  Diz = "diz"
  Zips = {"zip"}
  Payload = {"f"}
  Sum = {0, 1, 2}
  MaxSize = 2
  MaxParts = 1
  loop = loop
  stop = stop
  Saver = {loop, stop}
  Settings <- MCSettings
SYMMETRY Savers
INVARIANTS IndexHolds SavedIsCurrent
CHECK_DEADLOCK FALSE
