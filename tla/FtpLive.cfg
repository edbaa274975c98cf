SPECIFICATION LiveSpec
CONSTANTS
  Sessions = {s1, s2}
  Paths = {p1}
  Stored = {p1}
  LoginSlots = 0
  UploadSlots = 0
  DownloadSlots = 0
  MaxSim = 0
  Settings <- Connecting
  WeekDays = 2
  TrialDays = 1
  TrialQuota = 1
  WeekQuota = 1
  MaxDay = 3
  MaxUp = 1
  MaxFaults = 1
  MaxSaves = 1
  QuotaSettings <- QuotaCases
  Unknown = Unknown
PROPERTIES CommandsReturn QuotaHolds
CHECK_DEADLOCK FALSE
