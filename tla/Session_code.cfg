SPECIFICATION FairSpec
CONSTANTS
    Requests = {r1, r2}
    Offered = {"commit", "abandon", "chunk", "delete"}
    Timeout = 1
    MaxTime = 2
    MaxTries = 2
INVARIANTS TypeOK CodeInv CommitPublishes AckedChunksPublished
PROPERTIES DeletedIsFinal UpdateMatrix BusySessionReleased EveryRequestEnds
CHECK_DEADLOCK FALSE
