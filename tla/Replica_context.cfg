SPECIFICATION Spec
CONSTANTS
    Requests = {r1, r2}
    Partitions = {p1, p2}
    Kinds <- MCKinds
    WellKnown = {"well", "core"}
    Packaged = {"well"}
    MaxRev = 1
    MaxRecords = 2
    None = none
SYMMETRY ReplicaSymmetry
INVARIANTS TypeOK CallsCarryCaller OwnSchema
CHECK_DEADLOCK FALSE
