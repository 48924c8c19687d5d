SPECIFICATION Spec
CONSTANTS
    Requests <- ShortRequests
    FirstCnt = 65534
    MaxRspSize = 1000
    PlErrs = {"DATA", "DEV_LOCKED"}
    MaxCalls = 1
    MaxResets = 1
INVARIANT SuccessMeansExecuted
CHECK_DEADLOCK FALSE
