SPECIFICATION JobQueueSpec
CONSTANTS
    Job = {j1, j2, j3, j4}
    Request = {q1}
    None = None
    Lane = Lane
    Kinds = {"merge", "land", "discard"}
    MaxCas = 1
    MaxStale = 0
    MaxForce = 0
    MaxCrash = 0
    MaxFault = 0
CHECK_DEADLOCK FALSE
PROPERTIES
    DiscardedNeverLands
