SPECIFICATION FairSpec
CONSTANTS
    Calls = {"server_connect", "session_start", "target_ping", "device_connect", "device_reset_occurred",
             "subscribe", "unsubscribe", "send_msg", "rcv_msg", "get_targets",
             "device_unlock_set_key"}
    MaxNumBytesRsp = 1024
    NumTargetMax = 4
    NumTargetClientMax = 3
    TargetPage = 2
    ClientPage = 2
    TargetLens = {5}
    ClientLens = {2}
    ConInfos <- Infos
    ErrorAnswers <- Errors
    Chls = {0, 32}
    MsgWords = {1, 256}
    MsgLengths = {8, 1100, 65532}
    Inits = {TRUE, FALSE}
    MaxQueue = 1
    MaxResets = 1
    MaxCalls = 6
    MaxFaults = 1
INVARIANTS TypeOK TargetsOfOneSample OwnResponse BuffersHold SubscriptionAgreed NoStrayMsg RequestsFit
PROPERTIES ResetsTold CallReturns
CHECK_DEADLOCK FALSE
