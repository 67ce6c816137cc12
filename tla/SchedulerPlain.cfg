SPECIFICATION Spec
CONSTANTS
  a = a
  b = b
  c = c
  d = d
  e = e
  NoJob = NoJob
  Jobs = {a, b, c, d, e}
  Edges <- Web
  Optional = {a}
  OnDemand = {}
  Deferred = {}
  Timed = {}
  BodyResults = {"ok", "kJobFailed"}
  Cancellable = {b}
  MayReject = TRUE
INVARIANTS
  TypeOK
  DependencyOrder
  SkippedOnlyAfterFailure
  FailureAttributed
  ProgressExact
  ReturnsSettled
PROPERTY
  FinalStatusStable
