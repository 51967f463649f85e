CONSTANTS
  N = 6
  M = 2
  Ef = 2
  Top = 2
  Metrics <- MCMetrics
SPECIFICATION Spec
INVARIANTS
  IInv
PROPERTIES
  NeverFarther
  Terminates
CHECK_DEADLOCK FALSE
