CONSTANTS
  Threads = {f1}
  MaxAddr = 2
  MaxSeq = 1
  MaxTime = 4
  Delays = {0, 2}
  Intervals = {0, 1}
  MaxPending = 1
  MaxSteps = 0
SPECIFICATION Spec
INVARIANT AddTimerIsThreadSafe
CHECK_DEADLOCK FALSE
