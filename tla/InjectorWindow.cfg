CONSTANTS
  NLang = 1
  MaxPlays = 2
  FileLen = 4
  InboxCap = 1
  Windows <- WindowsApart
  Media <- MediaOk
  Kinds <- KindsMulticat
SPECIFICATION Spec
INVARIANT WindowPlayed
CHECK_DEADLOCK FALSE
