SPECIFICATION Spec
CONSTANTS
  Task = {t1, t2}
  Fd = {d1, d2}
  File = {f, g}
  SubDir = {d}
  FS_LOCK = 2
  MaxReaders = 2
  None = None
INVARIANTS LocksHeld LocksReleased DescriptorsAccounted
PROPERTY KeepsSharing
SYMMETRY Symmetry
CHECK_DEADLOCK FALSE
