SPECIFICATION Spec
CONSTANTS
    Calls = {"server_connect", "session_start", "target_ping", "execute_trans"}
    MaxNumBytesRsp = 65536
    NumTargetMax = 3
    NumTargetClientMax = 3
    TargetPage = 2
    ClientPage = 2
    TargetLens = {0, 3}
    ClientLens = {2}
    ConInfos <- GoodInfos
    ErrorAnswers <- PingErrors
    Accesses = {"small", "block", "bad"}
    Ranges <- SomeRanges
    RwErrors = {"RW_READ", "DEV_ACCESS"}
    MaxResets = 0
    MaxCalls = 6
    MaxFaults = 1
INVARIANT NoRunaway
CHECK_DEADLOCK FALSE
