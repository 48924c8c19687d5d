SPECIFICATION FairSpec
CONSTANTS
    RspSizes = {2, 3}
    UnaskedSizes = {2}
    MaxRsp = 5
    BodyValues = {0, 1, 3}
    MaxPkts = 2
    MaxCalls = 3
    MaxEvents = 2
INVARIANTS TypeOK AtBoundary OwnAnswers
PROPERTIES ChannelSpec CallReturns
CHECK_DEADLOCK FALSE
