CONSTANTS
  NLang = 1
  MaxPlays = 2
  FileLen = 1
  InboxCap = 1
  Windows <- WindowsShort
  Media <- MediaOk
  Kinds <- KindsTail
SPECIFICATION Spec
INVARIANT StopOverrun
CHECK_DEADLOCK FALSE
