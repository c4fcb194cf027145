SPECIFICATION LiveSpec
CONSTANTS
    b1 = b1
    b2 = b2
    reaper = reaper
    cleanup = cleanup
    NULL = NULL
    Key <- TwoKeys
    Batch <- TwoBatches
    Items <- Overlapping
    Reaper <- OneReaper
    Cleanup <- OneCleanup
INVARIANTS
    TypeOK
    NoBatchDeadlock
PROPERTIES
    ImplementsAtomicBatches
    BatchEnds
