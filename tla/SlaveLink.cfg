SPECIFICATION FairSpec
CONSTANTS
  Callers = {merger}
  Remergers = {merger}
  MaxSession = 2
  MaxIndex = 2
  MaxCommands = 2
  None = None
  Closed = Closed
INVARIANTS AnswerNotLost AnswerIsOwn
PROPERTIES CallsReturn OfflineWakesWaiters
CHECK_DEADLOCK FALSE
