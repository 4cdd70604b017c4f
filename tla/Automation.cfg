CONSTANTS
  Messages <- MessagesDef
  Littered <- LitteredDef
  Wilds <- WildsDef
  Tails <- TailsDef
  Files <- FilesDef
  MaxLang = 2
SPECIFICATION Spec
INVARIANT TypeOK
INVARIANT GoodLinesStand
INVARIANT LaunchAsSent
INVARIANT InterruptLaunchesNothing
INVARIANT LaunchAsConfigured
INVARIANT DiesOnlyOfShortCommand
PROPERTY CommandsObeyed
CHECK_DEADLOCK FALSE
