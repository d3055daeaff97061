CONSTANTS
  MaxConns = 2
  ThreadNum = 2
  MaxMsgs = 1
  CallingCallbacks = {"message"}
  UserCalls = {"send", "forceClose"}
  MaxCalls = 2
  MaxQueue = 3
  CallsAfterClose = FALSE
  IdleShutdown = FALSE
  HasWriteCallback = FALSE
SPECIFICATION Spec
INVARIANT NeverFails
INVARIANT RemovedBeforeDestroyed
CHECK_DEADLOCK FALSE
