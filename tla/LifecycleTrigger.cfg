SPECIFICATION Spec
CONSTANTS
  Jobs = {t}
  Timed = {t}
  Callers = {a, b}
  Cancellers = {k}
  MaxCalls = 3
INVARIANT OneBody
CHECK_DEADLOCK FALSE
