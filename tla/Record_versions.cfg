SPECIFICATION Spec
CONSTANTS
    Requests = {r1, r2, r3}
    Offered = {"data", "commit", "post", "bare", "read", "delete", "purge"}
    Foreign = foreign
    Nobody = nobody
    MaxTries = 2
SYMMETRY RequestSymmetry
INVARIANTS RecordInv TypeOK UnwrittenCameUnchecked LossesAreRaces UpdateKeepsRows
CHECK_DEADLOCK FALSE
