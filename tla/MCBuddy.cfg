CONSTANTS
  max_order = 3
  Base = 1
SPECIFICATION Spec
INVARIANT
  HeldDisjoint
