SPECIFICATION ServiceSpec
CONSTANTS
    Run = {r1, r2}
    Costs <- MCCosts
    Limits <- MCLowered
    Agent = {}
    Key = {}
    KeyOf <- NoKeys
    NoKey = NoKey
    NoRun = NoRun
    Sweeper = {}
    Undead = {r1}
    Stops = TRUE
    MaxCrashes = 2
    MaxFaults = 1
CHECK_DEADLOCK FALSE
INVARIANTS
    ServiceTypeOK
    ServiceInv
    MachineWithinLimit
    CleanShutdown
PROPERTIES
    FenceAdmitsNothing
    ForeignRowsKept
    KeepsPromise
