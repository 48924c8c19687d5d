SPECIFICATION Spec
CONSTANTS
    Calls = {"server_connect", "session_start", "subscribe", "send_msg"}
    MaxNumBytesRsp = 1024
    NumTargetMax = 3
    NumTargetClientMax = 3
    TargetPage = 2
    ClientPage = 2
    TargetLens = {3}
    ClientLens = {2}
    ConInfos <- Infos
    ErrorAnswers <- Errors
    Chls = {0, 32}
    MsgWords = {1, 256}
    MsgLengths = {8, 1024, 65532}
    Inits = {TRUE, FALSE}
    MaxQueue = 1
    MaxResets = 0
    MaxCalls = 5
    MaxFaults = 0
INVARIANT MsgsFit
CHECK_DEADLOCK FALSE
