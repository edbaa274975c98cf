SPECIFICATION ChannelSpec
CONSTANTS
  Uploads = {u1, u2}
  Downloads = {d1}
  MaxAborts = 1
  Old = Old
  Nil = Nil
  Settings <- SafetySettings
  SetupSettings <- Setups
  MaxSetups = 1
  Root <- Roots
  Tree <- Virtual
  FilePath <- Files
  Small <- Written
  Job = {j1, j2}
  MaxJobs = 4
  DiskSettings <- DiskPlans
INVARIANTS KickEndsOneSession
CHECK_DEADLOCK FALSE
