\* A clock that is late, early and stepped.
SPECIFICATION Spec
CONSTANTS
  RingSize = 15
  Decimation = 5
  Grain = 3
  Lengths <- TwoLengths
  MaxLate = 2
  MaxBack = 1
  MaxCallbacks = 6
INVARIANTS
  TypeOK
  Aligned
  FrameInOrder
