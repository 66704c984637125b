\* All interleavings of the five threads, three captured frames, two readings of
\* the clock in any order, one dashboard.
SPECIFICATION FairSpec
CONSTANTS
  Results <- PlainResults
  MaxFrames = 3
  MaxTime = 1
  MaxStreams = 1
INVARIANTS
  TypeOK
  DbOpenWhileUsed
  LogInTimeOrder
PROPERTIES
  PromiseSpec
  EveryFrameSettled
  SigintEndsWhenClientsLeave
\* The program ends.
CHECK_DEADLOCK FALSE
