SPECIFICATION LiveSpec
CONSTANTS
    Unit = 8
    TickRate = 4
    HalfRate = 4
    RampAfter = 2
    N = 2
    Movies = {"a", "b"}
    Schedule <- MCSchedule
    Other <- MCOther
    Query = "a"
    FlagSets <- MCFlagSets
    SourceRate = 16
    AutoRate = 16
    UserRates <- MCUserRates
    MaxRetries = 2
    Asked = {0, 1}
    Budgets <- MCBudgets
    Lags = {0, 3}
    MaxNow = 3
    LastMinute = 2
INVARIANTS TypeOK PacedBelowCeiling SlotsSpaced NoTheaterDropped AgreeingSourcesNeverMismatch
PROPERTIES CommandEnds
CHECK_DEADLOCK FALSE
