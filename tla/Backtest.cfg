SPECIFICATION BacktestSpec
CONSTANTS
    RegOpen = 2
    OrbEnd = 4
    EarlyEnd = 12
    MidEnd = 20
    CloseStart = 22
    RegClose = 24
    MaintClose = 26
    IsFutures = TRUE
    DayTypeMinBars = 3
    ConfirmationWidth = 2
    MaxBarsWatching = 3
    MaxBarsBuilding = 5
    CooldownBars = 3
    FormingLimit <- MCForming
    Shapes <- MCShapes
    Openings <- MCOpenings
    Histories <- MCHistories
    MaxOvertaking = 3
    FirstPrice = 10000
    Gap = 30
    DateRoll = 1
    MaxSessions = 2
    MinGrade = "B"
    MaxHoldBars = 2
CHECK_DEADLOCK FALSE
INVARIANTS FeaturesMatchTape SetupsAreConsistent TradesAddUp
PROPERTIES LifecycleForward EntersWithTheEngine
