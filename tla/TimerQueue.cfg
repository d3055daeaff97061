CONSTANTS
  Threads = {f1}
  MaxAddr = 2
  MaxSeq = 3
  MaxTime = 3
  Delays = {0, 1}
  Intervals = {0, 1}
  MaxPending = 1
  MaxSteps = 1
SPECIFICATION Spec
INVARIANT TypeOK
INVARIANT QueuesAgree
INVARIANT OwnedOnce
INVARIANT AlarmArmed
PROPERTY RefinesTimers
CHECK_DEADLOCK FALSE
