CONSTANTS
    Addrs = {3, 131072}
    Sizes = {0, 130}
    AccModes = {0}
    AddrMaps = {0, 15}
    MaxRqSize = 4032
    MaxRspSize = 4032
    MaxPl2Rq = 128
    MaxPl2Rsp = 128
    Pl0MaxNumRw = 20
    NumTransMax = 20
    Pl1Cnts = {65534}
    AddrWindow = 65536
    Addr4G = 131072
    TwoTo32 = 2147483647
    MaxRwTrans = 2
    MaxStarts = 3
SPECIFICATION FairSpec
INVARIANTS CountsConsecutive IInv
PROPERTIES AddReturns
CHECK_DEADLOCK FALSE
