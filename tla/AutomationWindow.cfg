CONSTANTS
  Messages <- MessagesDef
  Littered <- LitteredDef
  Wilds <- WildsDef
  Tails <- TailsDef
  Files <- FilesDef
  MaxLang = 2
SPECIFICATION Spec
INVARIANT DurationPlayed
CHECK_DEADLOCK FALSE
