CONSTANTS
  HeadLen = 2
  BuffLen = 5
  MaxBody = 5
  BodyLens = {1, 3, 6}
  MaxFrames = 2
SPECIFICATION FairSpec
INVARIANTS TypeOK BuffersInBounds EchoIsExact NeverStalls
PROPERTY EveryFrameReturns
CHECK_DEADLOCK FALSE
