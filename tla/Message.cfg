CONSTANTS
    MaxSerial = 3
    MaxMsgNum = 2
    MaxFaults = 1
    MaxRequests = 1
    MaxConns = 5
    MaxBans = 1
    RegisterInfo <- MCRegisterInfo
SPECIFICATION MessageFairSpec
INVARIANTS  Retained 
 
CHECK_DEADLOCK FALSE
