SPECIFICATION MCSpec
CONSTANTS
  NSec = 2
  MaxCount = 2
  Data = {a, b}
  Junk = Junk
  QUEUE_SIZE = 2
  InitOutcomes = {"ok", "absent", "early", "late"}
  W = 16
  SD_TIMEOUT = 5
INVARIANTS TypeOK PostFindsRoom BufferReleased OwnMessage
           FastReadSound SlowReadSound FastWriteSound
           SinceExact DeadlineNotEarly
PROPERTIES NoStrayWrite EveryCallReturns
CHECK_DEADLOCK FALSE
