SPECIFICATION Spec
CONSTANTS
    Procs = {p1, p2}
    FlagSigs = {flag1, flag2}
    Families = {fam}
    None = None
    Taught = Taught
    MaxId = 2
    MaxSteps = 1
    MaxSightings = 1
    ConcurrentPurge = TRUE
    Terminals = {TRUE}
    EpisodeNotes = {FALSE}
    ScanLimits = {1, 2}
    SurfaceCap = 1
SYMMETRY MCSymmetry
PROPERTY ConfirmBlessesWhatItShows
CHECK_DEADLOCK FALSE
