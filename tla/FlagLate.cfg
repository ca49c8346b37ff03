SPECIFICATION Spec
CONSTANTS
    Procs = {p1, p2}
    Kinds = {"fail", "fixed"}
    Sessions = {s1}
    Families = {}
    None = None
    Window = 1
    DayLength = 4
    MaxSize = 9
    MaxAge = 9
    MaxClock = 3
    MaxEntries = 2
    MaxFaults = 0
    PassTime = 1
    Midnight = FALSE
INVARIANTS NoneComesTooLate
CHECK_DEADLOCK FALSE
