SPECIFICATION FairSpec
CONSTANTS
  a = a
  b = b
  c = c
  d = d
  e = e
  NoJob = NoJob
  Jobs = {a, b, c, d, e}
  Edges <- Join
  Optional = {a}
  OnDemand = {d}
  Deferred = {a}
  Timed = {a}
  BodyResults = {"ok", "kJobFailed"}
  Cancellable = {a}
  MayReject = TRUE
INVARIANTS
  FullInv
  InFlightExact
  ReturnsQuiescent
PROPERTIES
  RunReturns
