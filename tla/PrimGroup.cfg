CONSTANTS
  N = 4
  Infinity = 9
  Distances <- MCDistances
SPECIFICATION Spec
INVARIANTS
  IInv
PROPERTIES
  MinimumTree
CHECK_DEADLOCK FALSE
