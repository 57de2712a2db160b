CONSTANTS
  NPages = 6
  MaxBroken = 1
  max_order = 4
  Base = 1
  HeapPages = 4
  PAGE_SIZE = 8
  SLOB_UNIT = 2
  BigblockSize = 3
  Sizes = {1, 3, 4, 8, 17}
SPECIFICATION MCSpec
VIEW Seen
INVARIANTS
  FreeListExact
  BuddyDisjoint
  SlobExact
PROPERTY
  ImplementsPool
