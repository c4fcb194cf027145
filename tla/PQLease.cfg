SPECIFICATION Spec
CONSTANTS
    w1 = w1
    w2 = w2
    k1 = k1
    NULL = NULL
    Worker <- TwoWorkers
    Key <- OneKey
    Option <- EveryOrCron
    Serves <- ServeAll
    Skew <- Ahead
    Lag <- AtOnceOrLate
    Concurrency <- OneOrTwo
    MaxRuntime = 1
    DefaultLock = 3
    StartDelay = 1
    MaxCalls = 2
    MaxTime = 4
    MaxFaults = 0
INVARIANTS
    TypeOK
    OverlapNeedsOverrun
    TicksSkipped
