SPECIFICATION MCSpec
CONSTANTS
  p1 = p1
  p2 = p2
  Procs = {p1, p2}
  InitProc = p1
  NFd = 3
  BufSize = 1
  MaxTyped = 0
  MaxWant = 1
  MaxOpen = 3
  MaxInodeCount = 9
  MaxLost = 1
  KeyBufSize = 2
  KeyMaxTyped = 3
  KeyMaxWant = 2
  NoFiles = NoFiles
  NoRead = NoRead
INVARIANTS
  CountsExact
  NoAssertionFails
  TypedOnce
CHECK_DEADLOCK FALSE
