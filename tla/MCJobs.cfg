SPECIFICATION JobQueueSpec
CONSTANTS
    Job = {j1, j2, j3}
    Request = {q1, q2}
    None = None
    Lane = Lane
    Kinds = {"merge", "land", "discard"}
    MaxCas = 2
    MaxStale = 2
    MaxForce = 0
    MaxCrash = 1
    MaxFault = 0
CHECK_DEADLOCK FALSE
SYMMETRY MCSymmetry
INVARIANTS
    JobQueueTypeOK
    LiveMachineHoldsLock
    CompletedHasLanded
    LandedIsNotOffered
    OfferHasRef
PROPERTIES
    VerdictIsFinal
    KeepsOfferPromise
