SPECIFICATION EndSpec
CONSTANTS
  Uploads = {u1}
  Downloads = {d1}
  MaxAborts = 1
  Old = Old
  Nil = Nil
  Settings <- LiveSettings
  Transfers = {t1, t2}
  None = None
PROPERTIES TransfersEnd Promised
CHECK_DEADLOCK FALSE
