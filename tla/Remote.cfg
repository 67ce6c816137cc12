SPECIFICATION FairSpec
CONSTANTS
  NoRequest = NoRequest
  Requests = {r1, r2, r3}
  Limit = 1
  Capacities = {0, 2}
  Cancellable = {r1}
  Unfit = {r3}
  HasStrategy = TRUE
  Runners = {w1}
  Fragile = {r2}
  Endless = {r1}
  LongOutput = {r2}
INVARIANTS
  OneHolder
  CancelFollowsRequest
  SlotComesBack
  NotUsedAfterDestruction
PROPERTIES
  EveryRequestEnds
  ShutdownEnds
CHECK_DEADLOCK FALSE
