SPECIFICATION Spec
CONSTANTS
    w1 = w1
    w2 = w2
    k1 = k1
    NULL = NULL
    Worker <- TwoWorkers
    Key <- OneKey
    Option <- OnlyEvery
    Serves <- ServeAll
    Skew <- InSync
    Lag <- AtOnceOrLate
    Concurrency <- OneSlot
    MaxRuntime = 1
    DefaultLock = 3
    StartDelay = 0
    MaxCalls = 1
    MaxTime = 4
    MaxFaults = 0
INVARIANT NoOverlap
