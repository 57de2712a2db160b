CONSTANTS
  Slots = {p1, p2}
  idleproc = idleproc
  initproc = initproc
  NULL = NULL
  MaxSleep = 1
  MaxRead = 1
  MaxBuf = 1
SPECIFICATION PoolFairSpec
PROPERTY
  RunnableRuns
