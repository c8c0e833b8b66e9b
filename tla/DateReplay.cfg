\* Sunday and Monday share Friday as warm-up day.
SPECIFICATION ReplaySpec
CONSTANTS
    Dates = {0, 1, 2, 3, 4}
    Trading = {0, 1, 4}
    Tape <- MCTape
    Imports = {0}
    Requested = {3, 4}
    WarmupDays = 1
    MaxPosts = 2
    MaxRestarts = 1
CHECK_DEADLOCK FALSE
INVARIANTS ReplaysAreOrderly ReplayStoresItsDay
PROPERTIES JobsEnd
