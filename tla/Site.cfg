SPECIFICATION SiteSpec
CONSTANTS
  s1 = s1
  s2 = s2
  a = a
  b = b
  Slave = {s1, s2}
  None = None
  Path <- MCPath
  DirPath <- MCDirPath
  Keeper = "keeper"
  Job = {"job", "another"}
  Session = {"first", "second"}
  Presser = {"third", "fourth"}
  Caller = {"keeper", "job", "another", "first", "second", "third", "fourth"}
  Request = {a, b}
  ReqDir <- MCReqDir
  FilledDir <- MCFilledDir
  PreDir <- MCPreDir
  PreTo <- MCPreTo
  MaxRequests = 2
  Settings <- MCSettings
  Nobody = Nobody
  Emitter = {"hook", "rescan"}
  Release = {"r"}
  MaxPipe = 2
  MaxChan = 1
  BotSettings <- MCBotSettings
INVARIANTS StoredIsReachable AcceptedIsListed RewardedOnce TakenOnce Announced
PROPERTY BotDrains
CHECK_DEADLOCK FALSE
