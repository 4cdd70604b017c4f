CONSTANTS
  NLang = 1
  MaxPlays = 1
  FileLen = 1
  InboxCap = 1
  Windows <- WindowsShort
  Media <- MediaOk
  Kinds <- KindsAll
SPECIFICATION FairSpec
PROPERTY StopStopsThreads
CHECK_DEADLOCK FALSE
