SPECIFICATION Spec
CONSTANTS
  NSec = 2
  MaxCount = 2
  Data = {a, b}
  Junk = Junk
  QUEUE_SIZE = 10
  InitOutcomes = {"ok"}
INVARIANT SlowWriteWritesBuffer
