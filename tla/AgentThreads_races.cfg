SPECIFICATION FairSpec
CONSTANTS
    DayLength = 4
    MaxTickGap = 2
    PersistInterval = 2
    Warnings = {1}
    DefaultWakeTime = 1
    InitialDaily <- MCInitialDaily
    BedTimes = {0}
    WakeTimes = {2}
    Allowances = {1}
    Extensions = {1}
    MaxNow = 2
    MaxRequests = 1
    MaxKills = 1
INVARIANTS UsageNeverExceedsTime
PROPERTY SettingsReachTheDisk
CHECK_DEADLOCK FALSE
