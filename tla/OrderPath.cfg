SPECIFICATION Spec
CONSTANTS
    Orders = {o1, o2}
    Start = start
    Cancels = {cancel}
    MaxAttempts = 2
    MaxPolls = 1
    MaxSessions = 2
    MaxReports = 2
CHECK_DEADLOCK FALSE
INVARIANTS EngineFollowsBroker
PROPERTIES CallsEnd
