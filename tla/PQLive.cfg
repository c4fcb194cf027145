SPECIFICATION LiveSpec
CONSTANTS
    w1 = w1
    w2 = w2
    k1 = k1
    NULL = NULL
    Worker <- TwoWorkers
    Key <- OneKey
    Option <- LeasedOrNot
    Serves <- ServeAll
    Skew <- InSync
    Lag <- AtOnceOrLate
    Concurrency <- OneSlot
    MaxRuntime = 2
    DefaultLock = 3
    StartDelay = 0
    MaxCalls = 2
    MaxTime = 3
    MaxFaults = 1
INVARIANT OverlapNeedsOverrun
PROPERTIES
    DueFires
    KeepsTime
