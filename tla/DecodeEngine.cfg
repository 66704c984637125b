\* Two candidates, JS8 switched meanwhile.
SPECIFICATION FairSpec
CONSTANTS
  MaxCandidates = 2
  MaxFrames = 1
  MaxToggles = 1
  SymbolLen = 1920
  FrameLen = 180000
  Places <- SomePlaces
  OneShort <- FloatShort
INVARIANTS
  TypeOK
  FrameOutlivesTasks
  SignalIsWhole
  ResultsMatchCandidates
PROPERTIES
  ProcessEnds
\* The bound on the frames ends the behaviour.
CHECK_DEADLOCK FALSE
