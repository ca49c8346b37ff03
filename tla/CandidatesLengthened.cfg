SPECIFICATION Spec
CONSTANTS
    Procs = {p1, p2}
    FlagSigs = {flag}
    Families = {fam}
    None = None
    Taught = Taught
    MaxId = 2
    MaxSteps = 3
    MaxSightings = 3
    ConcurrentPurge = FALSE
    Terminals = {FALSE}
    EpisodeNotes = {FALSE}
    ScanLimits = {1, 2}
    SurfaceCap = 1
SYMMETRY MCSymmetry
PROPERTY NeverLengthened
CHECK_DEADLOCK FALSE
