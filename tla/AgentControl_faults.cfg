SPECIFICATION FairSpec
CONSTANTS
    DayLength = 4
    MaxTickGap = 2
    PersistInterval = 2
    Warnings = {}
    Monitored = TRUE
    DefaultWakeTime = 1
    BedTimes = {3}
    WakeTimes = {}
    Allowances = {}
    Extensions = {}
    StartAt = 4
    MaxNow = 7
    MaxRequests = 1
    MaxFaults = 1
    MaxCrashes = 0
    MaxSetBacks = 1
    SetBackTo = {6}
INVARIANT
    TypeOK
PROPERTIES
    LockIsEnforced
    RequestsAreAnswered
    LoadFailureHeals
