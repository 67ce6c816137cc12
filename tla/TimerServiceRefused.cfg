SPECIFICATION Spec
CONSTANTS
  Deadlines = {d1, d2}
  NoDeadline = NoDeadline
  Delays = {0, 1, 9}
  Never = 3
  MaxArms = 2
  IndexMayThrow = TRUE
INVARIANT RefusedNotRegistered
CHECK_DEADLOCK FALSE
