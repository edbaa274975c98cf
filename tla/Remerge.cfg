SPECIFICATION SlavesSpec
CONSTANTS
  here = here
  other = other
  Files = {here, other}
  Dirs = {a}
  DirOf <- OneDir
  OnDisk = {here}
  Unreadable = {}
  Settings <- Deployments
  MaxSession = 1
  MaxJob = 2
  s1 = s1
  s2 = s2
  archive = archive
  Slave = {s1, s2, archive}
  None = None
  Nobody = Nobody
  Tree <- RoutePaths
  DirPath <- RouteDirs
  Client = {c1, c2}
  MaxTasks = 3
  RouteSettings <- Routes
INVARIANTS IndexComplete WellPlaced
PROPERTY GhostsPurged
CHECK_DEADLOCK FALSE
