CONSTANTS
  Size = 4
  Threads = {t1, t2}
  Chunk = 1
  R = 1
  Slack = 2
  LBuild = 2
  LSearch = 2
  MaxC = 2
  Alphas <- MCAlphas
  Worlds <- MCWorlds
SPECIFICATION Spec
PROPERTY
  PrunedListNotEmpty
CHECK_DEADLOCK FALSE
