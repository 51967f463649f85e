CONSTANTS
  N = 4
  NaN = NaN
  Graphs <- MCGraphs
SPECIFICATION Spec
INVARIANTS
  IInv
  MinimumForest
PROPERTIES
  Completes
  ImplementsTrajectory
CHECK_DEADLOCK FALSE
