CONSTANTS
    Co = {c1, c2, c3}
    Third = c3
    Stacks = 2
    Size = 2
    Timeouts = {1, 3}
    Fds = {1}
    MaxTime = 4
    MaxBack = 1
    MaxOps = 3
    NoCo = NoCo
    Main = Main
    Stale = Stale
    Ids = {1, 2, 3, 4}
    Expiries = {1, 2, 3}
    MaxLevel = 2
    Slots = 32
    Word = 4
    Byte = 2
    Second = 17
    Callers = {h1, h2}
    WriteSize = 2
    Programs = {m, e1}
    MainCo = m
    Names = {1, 2}
    Values = {1, 2}
    Lists <- TwoLists
    Lookers = {d1, d2, d3}
    Need <- TwoHosts
    PolledFds = {1, 2}
    MaxPairs = 2
    TimerIds = {t1, t2}
    Delays = {0, 2}
    LastTick = 4
SPECIFICATION Spec
INVARIANTS StackIntact WaitsAreLinked 
PROPERTIES EndsForAReason WaitsEnd
CHECK_DEADLOCK FALSE
