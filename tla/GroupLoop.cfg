CONSTANTS
  N = 4
  B = 3
SPECIFICATION Spec
INVARIANTS
  IInv
PROPERTIES
  EdgesStayInGroup
  ReturnsForest
CHECK_DEADLOCK FALSE
