CONSTANTS
  N = 3
  M = 3
  Entry = 1
  Places <- MCPlaces
  Trajectories <- MCTrajectories
SPECIFICATION RecallSpec
INVARIANTS
  RecallInv
  NoWorseThanParent
  DriftBounded
CHECK_DEADLOCK FALSE
