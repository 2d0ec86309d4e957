SPECIFICATION MCSpec
CONSTANTS
    d1 = d1
    b1 = b1
    u1 = u1
    Hb = hb
    Acc = acceptor
    Data <- OneData
    Beats <- OneBeat
    Bad <- OneData
    User <- OneUser
    NeedHB = TRUE
    Kinds = {"tcp", "udp", "kcp"}
    MaxStarts = 2
    MaxSends = 2
    MaxFromServer = 1
    MaxFaults = 1
INVARIANTS
    
    SentBeforeClose
PROPERTIES
    Implements
    ClosesComplete
CHECK_DEADLOCK FALSE
