SPECIFICATION Spec
CONSTANTS
    Requests = {r1, r2}
    Offered = {"commit", "abandon"}
    Timeout = 1
    MaxTime = 1
    MaxTries = 1
SYMMETRY RequestSymmetry
PROPERTY EtagGuardsContent
CHECK_DEADLOCK FALSE
