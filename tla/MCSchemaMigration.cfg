SPECIFICATION LiveSpec
CONSTANTS
    p1 = p1
    p2 = p2
    p3 = p3
    Procs <- MCProcs
    Target <- MCTarget
    NoProc = NoProc
INVARIANTS TypeOK StampTellsTheTruth OpenStoreIsWhole
PROPERTIES NeverDowngraded OpeningEnds
CHECK_DEADLOCK FALSE
