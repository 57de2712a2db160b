SPECIFICATION Spec
CONSTANTS
  NPages = 5
  NFrames = 3
  SwapSlots = 7
  Values = {1}
  NoPte = NoPte
  Undef = Undef
  Leftover = 0
INVARIANT
  ListExact
PROPERTIES
  OldestGoes
  SurvivesSwap
