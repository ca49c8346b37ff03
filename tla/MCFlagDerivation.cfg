SPECIFICATION Spec
CONSTANTS
    Procs = {p1, p2}
    Kinds = {"fail", "fixed"}
    Sessions = {s1}
    Families = {}
    None = None
    Window = 1
    DayLength = 1
    MaxSize = 2
    MaxAge = 1
    MaxClock = 3
    MaxEntries = 3
    MaxFaults = 1
    PassTime = 1
    Midnight = FALSE
SYMMETRY MCSymmetry
VIEW MCView
INVARIANTS TypeOK NothingSkipped PairSound OffsetWithinSegment
CHECK_DEADLOCK FALSE
