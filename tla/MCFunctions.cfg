SPECIFICATION FSpec
CONSTANTS
    DayLength = 5
    Horizon = 11
    MaxAllowance = 3
    BedEqualsWake = FALSE
    SecondLength = 2
    MinuteLength = 4
    DefaultWake = 2
    MaxWhole = 5000
    Me = "me"
    Letters = {"a", "e", "f", "l", "n", "p", "r", "s", "t", "u"}
    MaxIntDigits = 3
    MaxDepth = 2
    MaxFrameBytes = 8
    Texts = {0, 1, 2, 3, 4}
    LogLength = 6
    ChunkBytes = 7
    Bytes <- StreamBytes
    Numerals <- Digits
    Prefix <- Decimal
    PrefixValue <- Number
    MinSecretLength = 3
    MinPasswordLength = 3
    Block = 2
    MinuteSeconds = 2
    MaxDailyLimit = 2
INVARIANTS
    CurfewIsBedToWake
    CountdownIsFirstLock
    WhatIsSavedIsLoaded
    NothingForeignIsTaken
    SignedTextIsReadBack
    FramesSurviveChunking
    PageTellsWhatIsInForce
    LogTailIsTheEnd
    AgentFindsTheSecret
    PasswordIsKept
PROPERTY
    CurfewEndsWithThePeriod
CHECK_DEADLOCK FALSE
