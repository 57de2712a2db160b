SPECIFICATION Spec
CONSTANTS
  f1 = f1
  f2 = f2
  d1 = d1
  d2 = d2
  FileIds = {f1, f2}
  Fds = {d1, d2}
  Values = {1}
  BlkSize = 3
  NEntry = 1
  Lengths = {2}
  NDirect = 1
  MaxSize = 7
  NBlocks = 3
  Offsets = {0, 4}
  NoFd = NoFd
  NoInode = NoInode
SYMMETRY Symmetry
VIEW View
INVARIANTS
  BlocksExact
  OnlyKnownPanics
  TailIsZero
PROPERTY KeepsBytes
CHECK_DEADLOCK FALSE
