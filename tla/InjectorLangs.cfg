CONSTANTS
  NLang = 2
  MaxPlays = 1
  FileLen = 1
  InboxCap = 1
  Windows <- WindowsShort
  Media <- MediaOk
  Kinds <- KindsPollers
SPECIFICATION FairSpec
INVARIANT IdleIsQuiet
PROPERTY PollersStop
PROPERTY DieEndsMulticats
CHECK_DEADLOCK FALSE
