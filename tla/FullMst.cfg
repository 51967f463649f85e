CONSTANTS
  N = 4
  Cores = 3
  Infinity = 9
  Distances <- MCDistances
SPECIFICATION Spec
INVARIANTS
  IInv
PROPERTIES
  MinimumTree
  ImplementsPrim
CHECK_DEADLOCK FALSE
