SPECIFICATION Spec
CONSTANTS
    Records = {"a"}
    Requests = {r1, r2, r3, r4}
    MaxBatch = 2
    MaxNo = 3
SYMMETRY RequestSymmetry
INVARIANTS TypeOK AckMeansAll
PROPERTIES NoRollback ReadNotStale
CHECK_DEADLOCK FALSE
