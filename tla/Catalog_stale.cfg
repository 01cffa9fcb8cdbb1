SPECIFICATION Spec
CONSTANTS
    Requests = {r1}
    Lifetime = 1
    Day = 3
    MaxFetch = 0
    MaxTime = 3
    MaxUploads = 1
    NotFound = notfound
INVARIANT UploadVisibleInFiveMinutes
CHECK_DEADLOCK FALSE
