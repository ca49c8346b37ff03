SPECIFICATION Spec
CONSTANTS
    Procs = {p1, p2}
    FlagSigs = {flag}
    Families = {fam}
    None = None
    Taught = Taught
    MaxId = 2
    MaxSteps = 1
    MaxSightings = 2
    ConcurrentPurge = FALSE
    Terminals = {TRUE}
    EpisodeNotes = {TRUE}
    ScanLimits = {1, 2}
    SurfaceCap = 1
SYMMETRY MCSymmetry
INVARIANT ConfirmedNoteLives
CHECK_DEADLOCK FALSE
