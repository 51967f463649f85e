CONSTANTS
  Nodes = {0, 1, 2, 3}
  Ef = 3
  K = 2
  MaxDist = 9
  Inputs <- MCStarts
SPECIFICATION Spec
INVARIANTS
  IInv
  BeamClosed
  ExactIfWide
  NoWorseThanStart
PROPERTIES
  Terminates
CHECK_DEADLOCK FALSE
