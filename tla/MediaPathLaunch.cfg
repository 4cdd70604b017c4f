CONSTANTS
  MaxPlays = 1
  FileLen = 2
  DgramLen = 1
  QueueCap = 1
  MaxClock = 2
  RefPts <- PtsFewer
  PtsSpan = 4
  Offset = 2
  Kinds <- KindsAll
SPECIFICATION FairSpec
INVARIANT TypeOK
INVARIANT PtsFollowsReference
PROPERTY WrittenIsSent
CONSTRAINT Promising
CHECK_DEADLOCK FALSE
