SPECIFICATION Spec
CONSTANTS
    Procs = {p1, p2}
    Kinds = {"fail", "fixed"}
    Sessions = {s1}
    Families = {}
    None = None
    Window = 1
    DayLength = 2
    MaxSize = 9
    MaxAge = 9
    MaxClock = 2
    MaxEntries = 2
    MaxFaults = 0
    PassTime = 0
    Midnight = FALSE
INVARIANTS CountedOnce
CHECK_DEADLOCK FALSE
