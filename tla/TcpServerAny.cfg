CONSTANTS
  MaxConns = 1
  ThreadNum = 1
  MaxMsgs = 2
  CallingCallbacks = {"connection", "message", "write"}
  UserCalls = {"send", "shutdown", "forceClose"}
  MaxCalls = 3
  MaxQueue = 2
  CallsAfterClose = TRUE
  IdleShutdown = TRUE
  HasWriteCallback = TRUE
SPECIFICATION FairSpec
INVARIANT TypeOK
INVARIANT EndsAreExplained
INVARIANT NoDanglingHandler
INVARIANT RegistrationConsistent
PROPERTY RefinesConnection
PROPERTY FinAfterOutput
 
PROPERTY ClosedIsDestroyed
CHECK_DEADLOCK FALSE
