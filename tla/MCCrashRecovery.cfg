SPECIFICATION Spec
CONSTANTS
    Pages = {p1}
    MaxXid = 2
    MaxLsn = 7
    MaxCrashes = 2
    Flushers = {f1}
    TornWrites = TRUE
    Checkpointer = ckpt
    Torn = torn
INVARIANTS PagesRecoverable OutcomesRecovered CommitAtomic
CHECK_DEADLOCK FALSE
