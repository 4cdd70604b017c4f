CONSTANTS
  Pids <- PidsDef
  Menus <- MenusDef
SPECIFICATION Spec
INVARIANT TypeOK
INVARIANT SyncLossReal
INVARIANT CcReportsFounded
INVARIANT MissingPidReal
INVARIANT DiesOnlyOfBadClock
INVARIANT PcrPidsFollowPat
INVARIANT PtsGapReal
CHECK_DEADLOCK FALSE
