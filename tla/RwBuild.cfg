CONSTANTS
    Addrs = {3, 65532, 131072}
    Sizes = {0, 4, 7, 1104}
    AccModes = {0, 1}
    AddrMaps = {0, 1, 132}
    MaxRqSize = 65472
    MaxRspSize = 65472
    MaxPl2Rq = 128
    MaxPl2Rsp = 1060
    Pl0MaxNumRw = 4
    NumTransMax = 16
    Pl1Cnts = {65534}
    AddrWindow = 65536
    Addr4G = 131072
    TwoTo32 = 2147483647
    MaxRwTrans = 2
    MaxStarts = 1
SPECIFICATION Spec
INVARIANTS TypeOK AccessesTile ServerSeesTransactions AddrMapsExclusive AddrMapsAnnounced PktLimits
PROPERTIES BlockLoopProgress
CHECK_DEADLOCK FALSE
