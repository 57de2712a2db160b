CONSTANTS
  Slots = {p1, p2}
  idleproc = idleproc
  initproc = initproc
  NULL = NULL
  MaxSleep = 2
  MaxRead = 2
  MaxBuf = 1
SPECIFICATION FairSpec
INVARIANTS
  RunPoolExact
  NoDanglingNode
  WaitStateMatches
  NoLostWakeup
  ParentAlive
  PanicOnlyAtEnd
PROPERTIES
  ZombieFinal
  IdleYields
  SleepEnds
