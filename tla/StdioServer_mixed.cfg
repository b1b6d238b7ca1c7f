SPECIFICATION Spec
CONSTANTS
  Frames <- MixedFrames
  MaxFrames = 3
INVARIANTS
  TypeOK
  RepliesAreToRequests
  FramedRequestsAnswered
  
  
PROPERTIES
  ServerEnds
