CONSTANTS
  MaxConns = 1
  ThreadNum = 1
  MaxMsgs = 1
  CallingCallbacks = {"message"}
  UserCalls = {"send"}
  MaxCalls = 1
  MaxQueue = 2
  CallsAfterClose = FALSE
  IdleShutdown = TRUE
  HasWriteCallback = FALSE
SPECIFICATION Spec
INVARIANT HandleCloseWhenConnected
CHECK_DEADLOCK FALSE
