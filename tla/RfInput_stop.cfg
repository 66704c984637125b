\* SIGINT right after start.
SPECIFICATION FairSpec
CONSTANTS
  Handlers = {h1}
  Main = mainThread
  NumPresets = 2
  MaxPosts = 1
  MayFail = FALSE
PROPERTIES
  StopReturns
\* The program ends.
CHECK_DEADLOCK FALSE
