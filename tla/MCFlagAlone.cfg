SPECIFICATION ModestSpec
CONSTANTS
    Procs = {p1}
    Kinds = {"fail", "fixed", "recall"}
    Sessions = {s1, s2}
    Families = {f1, f2}
    None = None
    Window = 1
    DayLength = 1
    MaxSize = 3
    MaxAge = 1
    MaxClock = 3
    MaxEntries = 4
    MaxFaults = 1
    PassTime = 0
    Midnight = FALSE
INVARIANTS AnchorSound LosesOnlyTheTorn
PROPERTIES EveryCorrectionCounted
CHECK_DEADLOCK FALSE
