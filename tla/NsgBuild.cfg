CONSTANTS
  Size = 5
  Threads = {t1, t2}
  Chunk = 1
  S = 2
  RN = 1
  LN = 3
  K = 2
  Iter = 2
  NL = 2
  NR = 3
  C = 5
  Starts <- MCStarts
  Worlds <- MCWorlds
SPECIFICATION Spec
INVARIANTS
  IInv
  JoinExact
  AllReachable
PROPERTIES
  Terminates
CHECK_DEADLOCK FALSE
