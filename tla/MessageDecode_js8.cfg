\* A word is accepted in the first turn.
SPECIFICATION Spec
CONSTANTS
  NumTones = 79
  Sync <- CostasTones
  Rows <- Checks
  MaxIters = 1
  Messages <- AllMessages
  Garbled = {7, 35, 43, 71}
  Misheard = {2, 5}
  Cuts = {0, 43, 78, 79}
  Beliefs <- SomeBeliefs
INVARIANTS
  Js8IsReported
\* decode returns.
CHECK_DEADLOCK FALSE
