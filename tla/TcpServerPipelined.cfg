CONSTANTS
  MaxConns = 1
  ThreadNum = 1
  MaxMsgs = 2
  CallingCallbacks = {"message"}
  UserCalls = {"send", "forceClose"}
  MaxCalls = 4
  MaxQueue = 2
  CallsAfterClose = TRUE
  IdleShutdown = FALSE
  HasWriteCallback = FALSE
SPECIFICATION Spec
INVARIANT RemovedOnce
CHECK_DEADLOCK FALSE
