SPECIFICATION MCSpec
CONSTANTS
  d1 = d1
  d2 = d2
  Deadlines = {d1, d2}
  NoDeadline = NoDeadline
  Delays = {0, 1, 9}
  Never = 3
  MaxArms = 2
  HasTimeout = TRUE
  InlineOn = {"canceller", "completer"}
  MaxRuns = 2
  t = t
  a = a
  b = b
  k = k
  Jobs = {t}
  Timed = {t}
  Callers = {a, b}
  Cancellers = {k}
  MaxCalls = 3
INVARIANTS
  AlarmsExact
  NoStaleParty
  QuietAfterRun
  NeverWaitsForItself
  StopStaysInItsEpoch
  NoBodyOutlivesItsOwner
PROPERTY WaitsEnd
CHECK_DEADLOCK FALSE
