SPECIFICATION Spec
CONSTANTS
    worker = worker
    child1 = child1
    child2 = child2
    i1 = i1
    i2 = i2
    c1 = c1
    c2 = c2
    c3 = c3
    NULL = NULL
    Proc <- Processes
    Main = worker
    Instance <- TwoInstances
    Conn <- Connections
SYMMETRY Interchangeable
INVARIANTS
    TypeOK
    NoSharedSession
    SessionsSurvive
    CleanExit
CHECK_DEADLOCK FALSE
