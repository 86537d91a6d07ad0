CONSTANTS
    m1 = m1
    m2 = m2
    a1 = a1
    a2 = a2
    a3 = a3
    Attempt = {a1, a2, a3}
    NoAttempt = NoAttempt
    NoItem = NoItem
    Direct = {}
    Model = {m1, m2}
    Offer <- AllKinds
    MaxRows = 2
    MaxAttempts = 2
    MaxSent = 2
    MaxDrains = 1
    MaxCrashes = 1
    MaxFaults = 0
    MaxRetries = 1
    MaxLeases = 0
SPECIFICATION FairSpec
PROPERTIES
    EveryMessageServed
    KeepsDeliveryPromise
CHECK_DEADLOCK FALSE
