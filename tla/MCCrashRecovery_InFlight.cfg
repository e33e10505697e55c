SPECIFICATION Spec
CONSTANTS
    Pages = {p1}
    MaxXid = 2
    MaxLsn = 8
    MaxCrashes = 1
    Flushers = {f1}
    TornWrites = FALSE
    Checkpointer = ckpt
    Torn = torn
INVARIANT PreBeginDurable
CHECK_DEADLOCK FALSE
