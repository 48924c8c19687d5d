SPECIFICATION Spec
CONSTANTS
    Requests <- SomeRequests
    FirstCnt = 65534
    MaxRspSize = 1000
    PlErrs = {"DATA", "DEV_LOCKED"}
    MaxCalls = 3
    MaxResets = 1
INVARIANTS TypeOK SuccessIsOwn SuccessIsComplete FirstErrorWins MergedRight
PROPERTIES OwnNotRefused NoStrayCopy
CHECK_DEADLOCK FALSE
