CONSTANTS
  HeadLen = 2
  BuffLen = 5
  MaxBody = 5
  BodyLens = {4}
  MaxFrames = 2
SPECIFICATION Spec
INVARIANT AdmittedNeverStalls
CHECK_DEADLOCK FALSE
