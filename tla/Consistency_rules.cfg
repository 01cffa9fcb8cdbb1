\* Two concurrent requests on a record of each type.
SPECIFICATION Spec
CONSTANTS
    Requests = {r1, r2}
    Entities = {"welllog", "trajectory", "ppfg", "pressure"}
    Ids = {"A", "B"}
    None = None
    NaN = NaN
    Records <- MCRecords
    Bulks <- MCBulks
SYMMETRY Symmetry
INVARIANTS
    TypeOK
    PostedRecordsFollowRules
    BulkAgreesWithItsVersion
    RefusedForCause
\* Requests are served once: the system stops when all are answered.
CHECK_DEADLOCK FALSE
