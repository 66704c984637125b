\* Two web threads, failures.
SPECIFICATION FairSpec
CONSTANTS
  Handlers = {h1, h2}
  Main = mainThread
  NumPresets = 2
  MaxPosts = 3
  MayFail = TRUE
INVARIANTS
  TypeOK
  DeviceOpenWhileUsed
  SoloRetuneAgrees
PROPERTIES
  CancelEndsWorker
\* The program ends.
CHECK_DEADLOCK FALSE
