SPECIFICATION Spec
CONSTANTS
  A = A
  B = B
  Senders = {s1}
  Long = {}
  Capacity = 1
  FrameBytes = 2
  Answers = 1
PROPERTY CloseReturns
CHECK_DEADLOCK FALSE
