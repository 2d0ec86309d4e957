CONSTANTS
    co1 = co1  co2 = co2  co3 = co3  t1 = t1  t2 = t2
    None = None
    Co <- Coroutines
    Thread <- Threads
    ThreadOf <- Shared
    SpinMax = 1
    Rounds <- FirstTwice
SPECIFICATION FairSpec
INVARIANTS MutualExclusion NoAbort OneWakeup WakeupOwed WaitersCounted
PROPERTIES LockReturns
CHECK_DEADLOCK FALSE
