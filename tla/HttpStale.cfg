SPECIFICATION Spec
SYMMETRY MCSymmetry
CONSTANTS
    Calls = {c1, c2}
    Kinds = {"get", "post"}
    MaxRetries = 0
    MaxVersion = 1
    Crashes = FALSE
    None = None
    Torn = Torn
    MaxBytes = 14
    MaxItems = 3
    PreviewBytes = 10
    HeadBytes = 5
    NoteBytes = 3
    Names = {"args", "home", "limit", "slug"}
    RootOnly = {"home"}
INVARIANTS FreshAfterMutation
CHECK_DEADLOCK FALSE
