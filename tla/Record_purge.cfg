SPECIFICATION Spec
CONSTANTS
    Requests = {r1, r2}
    Offered = {"data", "commit", "post", "bare", "read", "delete", "purge"}
    Foreign = foreign
    Nobody = nobody
    MaxTries = 1
SYMMETRY RequestSymmetry
INVARIANT PurgeStartsDeletions
CHECK_DEADLOCK FALSE
