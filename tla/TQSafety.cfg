SPECIFICATION Spec
CONSTANTS
    w1 = w1
    w2 = w2
    c1 = c1
    NULL = NULL
    Worker <- TwoWorkers
    ClientId <- OneClient
    Option <- CappedOnly
    Serves <- ServeAll
    Skew <- InSync
    Concurrency = 1
    MaxRuntime = 0
    StaleTimeout = 1
    StartDelay = 0
    MaxTasks = 1
    MaxVersions = 3
    MaxFaults = 1
SYMMETRY Workers
INVARIANTS
    TypeOK
    RowShape
    RunsInOrder
    RecordsOwnRun
    HonestVerdict
    ReapsOnlyDead
    NoOverlap
