CONSTANTS
    c1 = c1  c2 = c2  w1 = w1  w2 = w2  None = None
    Caller <- TwoCallers
    Worker <- Workers
    Timeout = {0, 1}
    OneWay = TRUE
    MaxCalls <- FirstCallsTwice
    MaxTime = 2
    SleepTimed = FALSE
SPECIFICATION FairSpec
INVARIANTS CallsSound
PROPERTIES ResultStable CallReturns
CHECK_DEADLOCK FALSE
