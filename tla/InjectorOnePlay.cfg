CONSTANTS
  NLang = 1
  MaxPlays = 1
  FileLen = 3
  InboxCap = 1
  Windows <- WindowsSeek
  Media <- MediaAny
  Kinds <- KindsAll
SPECIFICATION FairSpec
INVARIANT TypeOK
INVARIANT WindowPlayed
INVARIANT StopOverrun
PROPERTY MulticatEnds
CHECK_DEADLOCK FALSE
