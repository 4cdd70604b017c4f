CONSTANTS
    Setups <- SetupsDef
    MaxYoung = 1
SPECIFICATION FairSpec
INVARIANT TypeOK
INVARIANT AlarmMeansEpisode
INVARIANT AlarmIsLogged
PROPERTY AlarmRaised
PROPERTY AlarmCleared
CHECK_DEADLOCK FALSE
