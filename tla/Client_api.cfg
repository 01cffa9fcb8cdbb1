SPECIFICATION Spec
CONSTANTS
    Entries <- AllEntries
    MaxVersions = 2
    MaxCalls = 3
    MaxPosts = 1
INVARIANTS TypeOK AckedKept RetriesDuplicate
PROPERTIES RoundTrip VersionsListed CallReturns
CHECK_DEADLOCK FALSE
