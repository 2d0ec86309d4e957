CONSTANTS
    TryTimes = 2
    MaxSockets = 2
    MaxStale = 2
    Links <- MCLinks
    SnMod = 16
    FirstSn = 15
    BodySizes <- MCBodySizes
    Unknown = {3}
    HeadSize = 2
    Space = 5
    SockSize = 3
    ReadSize = 4
    MaxBodySize = 6
    TsMod = 11
    Asked = 2
    MinInterval = 1
    MaxInterval = 3
    MaxSlap = 3
    MinRto = 1
    MaxRto = 3
    Rtts = {2, 3}
    MaxSegs = 1
    MaxLag = 2
    Settings <- MCSettings
SPECIFICATION Spec
INVARIANTS ConnectedMeansServed DataIntact
PROPERTIES HandshakeEnds KcpImplements AllArrive
CHECK_DEADLOCK FALSE
