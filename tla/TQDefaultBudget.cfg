SPECIFICATION Spec
CONSTANTS
    w1 = w1
    w2 = w2
    c1 = c1
    NULL = NULL
    Worker <- OneWorker
    ClientId <- OneClient
    Option <- PlainOnly
    Serves <- ServeAll
    Skew <- InSync
    Concurrency = 2
    MaxRuntime = 2
    StaleTimeout = 1
    StartDelay = 0
    MaxTasks = 1
    MaxVersions = 1
    MaxFaults = 0
INVARIANT ReapsOnlyDead
