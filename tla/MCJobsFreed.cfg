SPECIFICATION JobQueueFairSpec
CONSTANTS
    Job = {j1, j2}
    Request = {q1}
    None = None
    Lane = Lane
    Kinds = {"merge", "land", "discard", "rebase"}
    MaxCas = 3
    MaxStale = 1
    MaxForce = 1
    MaxCrash = 0
    MaxFault = 1
CHECK_DEADLOCK FALSE
INVARIANTS
    NoLockLeftBehind
PROPERTIES
    SessionIsFreed
