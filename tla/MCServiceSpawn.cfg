SPECIFICATION ServiceSpec
CONSTANTS
    Run = {r1, r2, r3}
    Costs <- MCCosts
    Limits <- MCLimits
    Agent = {}
    Key = {}
    KeyOf <- NoKeys
    NoKey = NoKey
    NoRun = NoRun
    Sweeper = {}
    Undead = {}
    Stops = FALSE
    MaxCrashes = 0
    MaxFaults = 0
SYMMETRY Symmetry
CHECK_DEADLOCK FALSE
INVARIANTS
    Fifo
    BudgetBounded
    ReservationHeld
    NoOrphanReservation
    NoIdleQueue
PROPERTIES
    ParkedNeverStarts
