SPECIFICATION MasterSpec
CONSTANTS
  here = here
  other = other
  Files = {here, other}
  Dirs = {a}
  DirOf <- OneDir
  OnDisk = {here}
  Unreadable = {}
  Settings <- OnlyUncached
  MaxSession = 1
  MaxJob = 1
  Paths = {"a", "b"}
  Payloads = {"f", "g"}
  Users = {"u", "v"}
  Nil = Nil
  Weak = "ftp"
  Listed = {"f", "g"}
  MaxId = 4
  RaceSettings <- Races
  Depth = 1
  MaxBusy = 2
INVARIANTS AvailableIsIndexed CreditKept WindowCovers
PROPERTY StartupCompletes
CHECK_DEADLOCK FALSE
