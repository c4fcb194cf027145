SPECIFICATION Spec
CONSTANTS
    w1 = w1
    w2 = w2
    c1 = c1
    NULL = NULL
    Worker <- TwoWorkers
    ClientId <- OneClient
    Option <- PlainOnly
    Serves <- ServeAll
    Skew <- InSync
    Concurrency = 1
    MaxRuntime = 0
    StaleTimeout = 1
    StartDelay = 0
    MaxTasks = 2
    MaxVersions = 2
    MaxFaults = 0
INVARIANT NoClientOverlap
