SPECIFICATION Spec
CONSTANTS
    Calls = {"server_connect", "session_start", "target_ping", "device_connect",
             "device_reset_occurred", "get_target_clients", "server_unlock", "device_unlock_get_challenge",
             "execute_trans", "read", "fill32", "fill64"}
    MaxNumBytesRsp = 65536
    NumTargetMax = 3
    NumTargetClientMax = 3
    TargetPage = 2
    ClientPage = 2
    TargetLens = {0, 3}
    ClientLens = {2}
    ConInfos <- Infos
    ErrorAnswers <- Errors
    Accesses = {"small", "block", "bad"}
    Ranges <- SomeRanges
    RwErrors = {"RW_READ", "DEV_ACCESS"}
    MaxResets = 1
    MaxCalls = 6
    MaxFaults = 1
INVARIANTS TypeOK ClientsOfOnePage SessionAgreed
    SuccessIsExecuted FillsExactly LimitsUsable
PROPERTIES ResetsTold
CHECK_DEADLOCK FALSE
