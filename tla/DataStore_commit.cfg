\* The unchecked COMMIT.
SPECIFICATION Spec
CONSTANTS
  Size <- UnequalSizes
  Limit = 4
  Faults <- ExternalReader
INVARIANTS
  AckDurable
\* Every batch has been handed over and the program is left alone.
CHECK_DEADLOCK FALSE
