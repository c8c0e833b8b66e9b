SPECIFICATION BSpec
CONSTANTS
    Lookback = 1
    SessionLen = 3
    BucketLen = 2
    DayLen = 4
    Now0 = 4
    MaxNow = 5
    MaxLag = 1
    WarmLen = 2
    DetectAt = {1}
    MaxLaunches = 2
    MaxCrashes = 1
    LiveMinutes = {1, 4}
    Ends = {2, 5}
    BarLens = {2, 5}
    TickLen = 3
    MaxBackfills = 3
CHECK_DEADLOCK FALSE
INVARIANTS WarmupJoinsLive BackfillHealsTheStore
PROPERTIES CapturedRowsSurvive RunsComeToAnEnd
