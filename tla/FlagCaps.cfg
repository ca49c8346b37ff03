SPECIFICATION Spec
CONSTANTS
    Procs = {p1, p2}
    Kinds = {"fail", "fixed"}
    Sessions = {s1}
    Families = {}
    None = None
    Window = 0
    DayLength = 1
    MaxSize = 1
    MaxAge = 9
    MaxClock = 1
    MaxEntries = 3
    MaxFaults = 0
    PassTime = 0
    Midnight = TRUE
PROPERTIES CapsNeverRaceAppender
CHECK_DEADLOCK FALSE
