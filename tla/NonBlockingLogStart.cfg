CONSTANTS
  Appenders = {a1}
  MsgCount = 1
  Capacity = 2
SPECIFICATION Spec
INVARIANT AppendHasBuffer
CHECK_DEADLOCK FALSE
