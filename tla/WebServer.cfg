\* Two clients and one worker, from the constructor to the destructor.
SPECIFICATION FairSpec
CONSTANTS
  Clients = {c1,c2}
  Workers = 1
  Paths <- SomePaths
  MaxRequests = 4
  MaxFrames = 2
INVARIANTS
  TypeOK
  HandlerAliveWhileUsed
  StatusOfNeighbours
PROPERTIES
  TakenUpUnlessPoolTaken
  DestructorEnds
\* The server ends, and the bounds end the rest.
CHECK_DEADLOCK FALSE
