SPECIFICATION Spec
CONSTANTS
  a = a
  b = b
  c = c
  d = d
  e = e
  NoJob = NoJob
  Jobs = {a, b, c}
  Edges <- Chain
  Optional = {}
  OnDemand = {}
  Deferred = {a, b}
  Timed = {}
  BodyResults = {"ok"}
  Cancellable = {}
  MayReject = FALSE
INVARIANT
  ReturnsQuiescent
