CONSTANTS
  Conns = {c1, c2}
  ExpiredSec = 2
  MaxLines = 4
  Quiet = {c2}
  MaxCloses = 2
SPECIFICATION FairSpec
INVARIANT TypeOK
INVARIANT IdleIsShutDown
 
PROPERTY ActiveIsKept
 
CHECK_DEADLOCK FALSE
