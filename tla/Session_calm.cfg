SPECIFICATION CalmSpec
CONSTANTS
    Requests = {r1, r2, r3}
    Offered = {"commit", "abandon", "chunk", "delete"}
    Timeout = 1
    MaxTime = 1
    MaxTries = 2
SYMMETRY RequestSymmetry
INVARIANTS CalmInv ExclusiveCompletion SingleVersion
PROPERTIES ClosedIsFinal ImplementsLifecycle
CHECK_DEADLOCK FALSE
