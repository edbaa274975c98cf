SPECIFICATION StaffSpec
CONSTANTS
  Name = {"ann", "bob"}
  Group = {"NoGroup", "iND"}
  Ip = {"ip"}
  None = None
  MaxInt = 30
  NewUser <- MCNewUser
  a1 = a1
  k1 = k1
  k2 = k2
  s1 = s1
  r1 = r1
  Session = {s1}
  Admin = {a1}
  Staff = {k1, k2}
  Release = {r1}
  Bytes <- MCBytes
  Multiplier = {1, 2}
  MaxCommands = 3
  MaxFaults = 1
  MaxTransfers = 1
  MaxNukes = 5
  Settings <- MCSettings
  o1 = o1
  o2 = o2
  member = member
  other = other
  SiteAdmin = {o1, o2}
  Reader = {member, other}
  Access <- Who
  PredirsOf <- Predirs
  Sorted <- Order
  AffilSettings <- AffilCases
  SiteOp <- SiteOps
INVARIANTS AccountsAgree NukesBalance HistoryAgrees
PROPERTIES TrafficKept AclHolds
SYMMETRY Staffs
CHECK_DEADLOCK FALSE
