SPECIFICATION Spec
CONSTANTS
  Procs = {p1}
  InitProc = p1
  NFd = 3
  BufSize = 1
  MaxTyped = 0
  MaxWant = 1
  MaxOpen = 1
  MaxInodeCount = 6
  MaxLost = 6
  NoFiles = NoFiles
  NoRead = NoRead
INVARIANT
  CountsBounded
CHECK_DEADLOCK FALSE
