CONSTANTS
    Addrs = {0}
    Sizes = {1, 8}
    AccModes = {0}
    AddrMaps = {0}
    MaxRqSize = 65472
    MaxRspSize = 65472
    MaxPl2Rq = 128
    MaxPl2Rsp = 128
    Pl0MaxNumRw = 2
    NumTransMax = 2
    Pl1Cnts = {65472}
    AddrWindow = 65536
    Addr4G = 131072
    TwoTo32 = 2147483647
    MaxRwTrans = 3
    MaxStarts = 1
SPECIFICATION Spec
INVARIANTS NumTransWithinMax
CHECK_DEADLOCK FALSE
