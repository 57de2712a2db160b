CONSTANTS
  MAX_PID = 6
  MAX_PROCESS = 5
  N = 3
  TIMES = 2
  Threads = {0, 1, 2}
  Sems = {0, 1, 2, 3}
  Sleepers = {p1, p2, p3}
  MaxSleep = 4
SPECIFICATION SchedSpec
INVARIANTS
  UniquePids
  SafeInterval
  MutexConserved
  ForksExclusive
  NoAssertionFails
PROPERTIES
  GetPidReturns
  ImplementsTimers
  HungryEats
