SPECIFICATION Spec
CONSTANTS
    c1 = c1
    c2 = c2
    k1 = k1
    k2 = k2
    k3 = k3
    None = None
    Caller <- TwoCallers
    Conn <- ThreeConns
    Kind <- FourCalls
    ConnectNum = 1
INVARIANTS
    ClientSound
PROPERTIES
    OneWayDoneOnce
CHECK_DEADLOCK FALSE
