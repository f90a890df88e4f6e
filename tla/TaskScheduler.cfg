SPECIFICATION FairSpec
CONSTANTS
    Tasks = {t1}
    Puts = {1, 2}
    Configs <- MCConfigs
    Patches <- MCPatches
    Period = 2
    CronPeriod = 3
    MissedAfter = 1
    Window = 2
    MaxNow = 5
    MaxRuns = 2
    MaxFaults = 1
INVARIANTS FireExecutedOnce RatesHeld SkipNeverOverlaps
PROPERTIES DueIsHandled
CHECK_DEADLOCK FALSE
