CONSTANTS
  NPages = 5
  MaxBroken = 1
SPECIFICATION Spec
INVARIANT HeldOnce
