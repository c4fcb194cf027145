SPECIFICATION LiveSpec
CONSTANTS
    a = a
    p = p
    NULL = NULL
    OneOff <- OneTask
    Periodic <- OneSchedule
    Forks <- OneForks
    Setting <- BothLoops
    Horizon = 3
INVARIANTS
    TypeOK
    Collected
    HonestVerdict
    OneLateFork
    KilledInTime
PROPERTIES
    Stops
    Reaped
    Supervises
CHECK_DEADLOCK FALSE
