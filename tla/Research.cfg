SPECIFICATION Spec
CONSTANTS
    Levels <- MCLevels
    LevelValue <- MCLevelValue
    Vwaps = {"vwap", "rth_vwap"}
    MinSep = 2
    MaxBars = 4
    Fallback <- MCFallback
    Bars <- MCBars
    SessionLen = 4
    RthFrom = 1
    RthTo = 3
    OrLen = 1
    Atr <- MCAtr
    LastMinute = 4
    WarmLen = 2
    QCap = 1
    FlushEvery = 2
    MaxBuffer = 3
    MaxPending = 5
    MaxEvents = 2
CHECK_DEADLOCK FALSE
INVARIANTS EpisodesAreSound RowsAreAccounted
