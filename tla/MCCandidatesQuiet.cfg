SPECIFICATION Spec
CONSTANTS
    Procs = {p1, p2}
    FlagSigs = {flag}
    Families = {fam}
    None = None
    Taught = Taught
    MaxId = 2
    MaxSteps = 2
    MaxSightings = 2
    ConcurrentPurge = FALSE
    Terminals = {FALSE}
    EpisodeNotes = {FALSE}
    ScanLimits = {1, 2}
    SurfaceCap = 1
SYMMETRY MCSymmetry
INVARIANTS HeldIsCurrent PayloadOwned ConfirmedHasPlaybook
PROPERTIES SettledPayloadFrozen ConfirmedFlagHasNote CallerReadWhatIsBlessed
CHECK_DEADLOCK FALSE
