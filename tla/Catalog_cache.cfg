SPECIFICATION Spec
CONSTANTS
    Requests = {r1, r2}
    Lifetime = 2
    Day = 9
    MaxFetch = 1
    MaxTime = 6
    MaxUploads = 2
    NotFound = notfound
SYMMETRY RequestSymmetry
INVARIANTS TypeOK CacheInv UploadVisible
CHECK_DEADLOCK FALSE
