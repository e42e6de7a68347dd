SPECIFICATION MCSpec
CONSTANTS
  MaxSize = 3
  Byte = {0, 1}
  Zero = 0
  Absent = Absent
  BUFFERSZ = 2
  Calls = 4
INVARIANTS BufferFits WriteReturns
PROPERTY KeepsPromise
CHECK_DEADLOCK FALSE
