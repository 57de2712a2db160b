SPECIFICATION Spec
CONSTANTS
  p1 = p1
  p2 = p2
  Procs = {p1, p2}
  NPages = 3
  NFrames = 5
  Values = {1}
  Layouts <- MCLayouts
  StackSize = 2
  StackNow = 1
  Program = 0
  NoVma = NoVma
  NoPte = NoPte
  Undef = Undef
  Leftover = 0
SYMMETRY Symmetry
CHECK_DEADLOCK FALSE
INVARIANTS
  RefCountsExact
  NoWritableShare
  VmasBound
  MemCheckExact
PROPERTY
  OwnMemory
