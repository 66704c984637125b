\* Every failure, kills and restarts.
SPECIFICATION Spec
CONSTANTS
  Size <- UnequalSizes
  Limit = 4
  Faults <- EveryFailure
INVARIANTS
  TypeOK
  BatchAtomic
  NothingSkipped
  NewestFirst
PROPERTIES
  PromiseUntilLost
\* Every batch has been handed over and the program is left alone.
CHECK_DEADLOCK FALSE
