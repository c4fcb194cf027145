SPECIFICATION Spec
CONSTANTS
    w1 = w1
    w2 = w2
    c1 = c1
    NULL = NULL
    Worker <- TwoWorkers
    ClientId <- OneClient
    Option <- PlainOrLong
    Serves <- ServeAll
    Skew <- Drifting
    Concurrency = 1
    MaxRuntime = 0
    StaleTimeout = 1
    StartDelay = 1
    MaxTasks = 1
    MaxVersions = 2
    MaxFaults = 1
INVARIANTS
    RecordsOwnRun
    RunsInOrder
