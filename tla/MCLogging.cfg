SPECIFICATION Spec
CONSTANTS
  Task = {t1, t2}
  Buffer = {b1, b2, b3, b4, b5}
  QueueLength = 2
  MaxMessages = 2
  None = None
INVARIANTS BufferHasOneOwner NumbersInOrder
PROPERTY KeepsLog
CHECK_DEADLOCK FALSE
