SPECIFICATION Spec
CONSTANTS
    Entries <- PPFGEntry
    MaxVersions = 2
    MaxCalls = 1
    MaxPosts = 1
INVARIANT WrongKindRefused
CHECK_DEADLOCK FALSE
