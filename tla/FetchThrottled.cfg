SPECIFICATION Spec
CONSTANTS
    Unit = 8
    TickRate = 4
    HalfRate = 4
    RampAfter = 2
    N = 1
    Movies = {"a", "b"}
    Schedule <- MCSchedule1
    Other <- MCSchedule1
    Query = "a"
    FlagSets <- MCFlagSets
    SourceRate = 16
    AutoRate = 16
    UserRates = {0}
    MaxRetries = 1
    Asked = {0}
    Budgets <- MCBudgets
    Lags = {0}
    MaxNow = 0
    LastMinute = 2
INVARIANTS ThrottleNeverReadAsNoData
CHECK_DEADLOCK FALSE
