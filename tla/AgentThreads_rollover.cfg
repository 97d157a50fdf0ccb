SPECIFICATION Spec
CONSTANTS
    DayLength = 4
    MaxTickGap = 2
    PersistInterval = 2
    Warnings = {}
    DefaultWakeTime = 1
    InitialDaily <- MCNoLimits
    BedTimes = {}
    WakeTimes = {}
    Allowances = {}
    Extensions = {}
    MaxNow = 5
    MaxRequests = 0
    MaxKills = 0
INVARIANT RolloverResetsUsage
CHECK_DEADLOCK FALSE
