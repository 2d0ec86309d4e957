CONSTANTS
    c1 = c1  c2 = c2  w1 = w1  w2 = w2  None = None
    Caller <- TwoCallers
    Worker <- Workers
    Timeout = {1}
    OneWay = FALSE
    MaxCalls <- FirstCallsTwice
    MaxTime = 2
    SleepTimed = TRUE
SPECIFICATION Spec
INVARIANTS WokenByUnlock
CHECK_DEADLOCK FALSE
