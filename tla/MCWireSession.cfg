SPECIFICATION Spec
CONSTANTS
    Conns = {c1, c2}
    c1 = c1
    c2 = c2
    Scripts <- MCScripts
    MaxLen = 12
    MaxXid = 4
    MaxAhead = 6
    WalMayDie = TRUE
INVARIANTS
    NothingLeaks
    RepliesAreTrue
    RunsWhatWasSent
PROPERTIES
    Served
