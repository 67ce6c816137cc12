SPECIFICATION MCSpec
CONSTANTS
  Factories <- Strategies
  Kinds <- TwoVersions
  MaxKinds = 2
  C = C
  W = W
  r1 = r1
  r2 = r2
  pay1 = pay1
  pay2 = pay2
  A = A
  B = B
  s1 = s1
  s2 = s2
SYMMETRY Symmetry
INVARIANTS
  StorageExact
  ShapeExact
  WiringExact
  HeapSound
  PayloadKept
  NothingLeaked
  PayloadIntact
  WireExact
  Agreement
  NamesRemoved
CHECK_DEADLOCK FALSE
