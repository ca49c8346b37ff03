SPECIFICATION Spec
CONSTANTS
    Procs = {p1, p2}
    FlagSigs = {flag}
    Families = {fam}
    None = None
    Taught = Taught
    MaxId = 2
    MaxSteps = 1
    MaxSightings = 2
    ConcurrentPurge = FALSE
    Terminals = {TRUE, FALSE}
    EpisodeNotes = {FALSE}
    ScanLimits = {1, 2}
    SurfaceCap = 1
SYMMETRY MCSymmetry
PROPERTY PrintedBeforeWritten
CHECK_DEADLOCK FALSE
