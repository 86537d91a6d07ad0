CONSTANTS
    m1 = m1
    m2 = m2
    a1 = a1
    a2 = a2
    a3 = a3
    d1 = d1
    Attempt = {a1, a2, a3}
    NoAttempt = NoAttempt
    NoItem = NoItem
    Direct = {d1}
    Model = {m1}
    Offer <- Texts
    MaxRows = 3
    MaxAttempts = 2
    MaxSent = 2
    MaxDrains = 1
    MaxCrashes = 1
    MaxFaults = 1
    MaxRetries = 0
    MaxLeases = 1
SPECIFICATION Spec
CONSTRAINT TwoTroubles
INVARIANTS
    DeliveryInv
    OfferedIsUnsent
    ClaimHasOwner
    NoForgottenRow
PROPERTIES
    KeepsDeliveryPromise
    DirectsAnswered
CHECK_DEADLOCK FALSE
