SPECIFICATION Spec
CONSTANTS
    Words <- MCWords
    ReadFold <- MCReadFold
    Tokens <- MCTokens
    ReadStop = {}
    WriteStop = {"odds"}
    Within <- MCWithin
    Kinds <- MCKinds
    Computed <- MCComputed
    Limit = 5
    WrapperKeys <- MCWrapperKeys
    NestedKeys <- MCNestedKeys
    MetadataKeys <- MCMetadataKeys
    IdKeys <- MCIdKeys
    Procs = {p1, p2}
    Commands <- MCOnlyTwice
    MaxCommands = 2
    Resources <- MCResources
    Id <- MCId
    Seeds <- MCSeeds
    Replies <- MCReplies
    Faults <- MCFaults
    Hashes = {h}
    NoHash = NoHash
    RowIds = {0, 1}
    Spelled <- MCSpelled
SYMMETRY MCSymmetry
INVARIANT TaughtIsRecalled
CHECK_DEADLOCK FALSE
