SPECIFICATION ChannelSpec
CONSTANTS
  Uploads = {u1, u2}
  Downloads = {d1}
  MaxAborts = 1
  Old = Old
  Nil = Nil
  Settings <- SafetySettings
  SetupSettings <- Setups
  MaxSetups = 3
  Root <- Roots
  Tree <- Virtual
  FilePath <- Files
  Small <- Written
  Job = {j1, j2}
  MaxJobs = 4
  DiskSettings <- DiskPlans
SYMMETRY Symmetric
INVARIANTS StoredStays LastSetupIsUsed NothingForgotten RootsAreOneDisk
PROPERTIES FollowsLiveUpload
CHECK_DEADLOCK FALSE
