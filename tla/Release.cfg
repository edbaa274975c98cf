SPECIFICATION Spec
CONSTANTS
  Jobs = {j1, j2, j3, j4}
  Buffer = 1
  None = None
  Payload = {f1}
  Sfv = Sfv
  Settings <- Widest
SYMMETRY Symmetric
INVARIANTS CompleteIsAnnounced BadIsGone
PROPERTIES CompleteIsTrue HooksRun
CHECK_DEADLOCK FALSE
