SPECIFICATION FairProgram
CONSTANTS
  a = a
  b = b
  c = c
  d = d
  NoTask = NoTask
  Tasks <- Four
  Parent <- PoolParent
  Priority <- PoolPriority
  Workers = {w1, w2}
  Callers = {p}
  Owner = p
  Stable = TRUE
  Capacity = 2
  Few <- Three
  FewParent <- ThreeParent
  Clients = {p, q}
  MaxGiven = 2
  MaxInFlight = 3
INVARIANTS
  NoThreadLost
  NoLostWakeup
  PoolInv
  NoneUsedAfterDestruction
PROPERTIES
  WaitsEnd
  AllImplementContract
CHECK_DEADLOCK FALSE
