CONSTANTS
  MaxPlays = 2
  FileLen = 2
  DgramLen = 2
  QueueCap = 1
  MaxClock = 0
  RefPts <- PtsFewer
  PtsSpan = 4
  Offset = 2
  Kinds <- KindsFlow
SPECIFICATION Spec
INVARIANT OutputIsFilePrefix
PROPERTY DeliversInOrder
CONSTRAINT Promising
CHECK_DEADLOCK FALSE
