CONSTANTS
    Starter = {a, b}
    Busy = {a}
    Stopper = {s}
    Nobody = Nobody
    MaxCrashes = 1
SPECIFICATION FairSpec
INVARIANTS OneDaemon ServingIsRecorded NoOrphan
PROPERTIES StartEnds ShutdownCompletes NothingStartsAfterStop
CHECK_DEADLOCK FALSE
