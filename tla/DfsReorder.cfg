CONSTANTS
  N = 4
  Inputs <- MCInputs
SPECIFICATION Spec
INVARIANTS
  AcceptsForests
  DepthFirst
  IInv
PROPERTIES
  Terminates
  ImplementsTrajectory
CHECK_DEADLOCK FALSE
