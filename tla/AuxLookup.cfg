CONSTANTS
  MaxEntries = 5
  Stcs <- SmallStcs
  Offsets <- SmallOffsets
SPECIFICATION Spec
INVARIANT TypeOK
INVARIANT SeekFindsChunk
INVARIANT ProbesInside
PROPERTY SearchEnds
CHECK_DEADLOCK FALSE
