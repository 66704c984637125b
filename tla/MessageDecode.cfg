\* The real code: every size is the program's own.
SPECIFICATION Spec
CONSTANTS
  NumTones = 79
  Sync <- CostasTones
  Rows <- Checks
  MaxIters = 50
  Messages <- AllMessages
  Garbled = {7, 35, 43, 71}
  Misheard = {2, 5}
  Cuts = {0, 43, 78, 79}
  Beliefs <- SomeBeliefs
INVARIANTS
  TypeOK
  AcceptedIsValid
  ErrorsIsLeast
  SurvivorsAreRight
  HeardIsKept
  TablesAgree
  CrcSeesTwoFlips
\* decode returns.
CHECK_DEADLOCK FALSE
