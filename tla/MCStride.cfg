CONSTANTS
  Procs = {initproc, p1, p2}
  initproc = initproc
  NULL = NULL
  BIG_STRIDE = 3
  MaxPriority = 2
SPECIFICATION StrideSpec
INVARIANTS
  HeapExact
  PicksMinimum
  WindowKept
PROPERTY
  NobodyOvertakenForever
