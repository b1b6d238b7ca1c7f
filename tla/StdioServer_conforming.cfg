SPECIFICATION Spec
CONSTANTS
  Frames <- ConformingFrames
  MaxFrames = 2
INVARIANTS
  ConformingClientAnswered
