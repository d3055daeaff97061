CONSTANTS
  Threads = {main}
  Owner = main
  Tasks = {t1, t2, t3}
  Handlers = {h1, h2}
  Wakeup = wakeupHandler
SPECIFICATION FairThreadSpec
INVARIANT ThreadTypeOK
INVARIANT LoopOutlivesItsUse
INVARIANT NoMissedLoop
PROPERTY StartLoopReturns
PROPERTY DestructorReturns
CHECK_DEADLOCK FALSE
