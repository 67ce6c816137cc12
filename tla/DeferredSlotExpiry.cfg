SPECIFICATION Spec
CONSTANTS
  Timed = TRUE
  InlineOn = {"timer"}
  MaxRuns = 2
INVARIANT NeverWaitsForItself
CHECK_DEADLOCK FALSE
