SPECIFICATION LiveSpec
CONSTANTS
    Calls = {c1}
    Kinds = {"get", "poll", "post", "query"}
    MaxRetries = 2
    MaxVersion = 3
    Crashes = TRUE
    None = None
    Torn = Torn
    MaxBytes = 14
    MaxItems = 3
    PreviewBytes = 10
    HeadBytes = 5
    NoteBytes = 3
    Names = {"args", "home", "limit", "slug"}
    RootOnly = {"home"}
INVARIANTS TypeOK NoDoubleWrite FreshAfterMutation NeverBackward
PROPERTIES CallsEnd
CHECK_DEADLOCK FALSE
