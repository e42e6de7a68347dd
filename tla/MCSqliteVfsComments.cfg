SPECIFICATION CSpec
CONSTANTS
  MaxSize = 3
  Byte = {0}
  Zero = 0
  Absent = Absent
  BUFFERSZ = 2
  Calls = 6
INVARIANT SomeSentenceHolds
CHECK_DEADLOCK FALSE
