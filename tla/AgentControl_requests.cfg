SPECIFICATION Spec
CONSTANTS
    DayLength = 4
    MaxTickGap = 2
    PersistInterval = 2
    Warnings = {1, 2}
    Monitored = TRUE
    DefaultWakeTime = 1
    BedTimes = {}
    WakeTimes = {0, 1}
    Allowances = {2}
    Extensions = {1}
    StartAt = 6
    MaxNow = 10
    MaxRequests = 2
    MaxFaults = 0
    MaxCrashes = 1
    MaxSetBacks = 0
    SetBackTo = {3}
INVARIANTS
    CrashLosesLittleUsage
    UsageNeverExceedsTime
    SettingsAsTold
    WarningsDescend
PROPERTIES
    ResetOnlyAtRollover
    RestartKeepsTheCounters
