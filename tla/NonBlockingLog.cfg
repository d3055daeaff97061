CONSTANTS
  Appenders = {a1, a2}
  MsgCount = 3
  Capacity = 2
SPECIFICATION FairSpec
INVARIANT TypeOK
INVARIANT InOrder
INVARIANT FullBufferSignalled
INVARIANT CompleteWhenStopped
 
 
CHECK_DEADLOCK FALSE
