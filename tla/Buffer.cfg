CONSTANTS
  k_cheap_prepend = 1
  k_init_size = 2
  ExtraBuf = 2
  Byte = {0, 1}
  Zero = 0
  MaxChunk = 3
  MaxReadable = 4
SPECIFICATION Spec
INVARIANT TypeOK
INVARIANT SpaceIsMade
PROPERTY GrowsOnlyWhenFull
PROPERTY RefinesByteQueue
CHECK_DEADLOCK FALSE
