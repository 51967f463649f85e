CONSTANTS
  Nodes = {0, 1, 2, 3}
  L = 2
  Inputs <- MCInputs
SPECIFICATION Spec
INVARIANTS
  IInv
  PoolClosed
  StartKept
PROPERTIES
  Terminates
CHECK_DEADLOCK FALSE
