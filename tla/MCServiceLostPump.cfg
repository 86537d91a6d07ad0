SPECIFICATION TimedServiceSpec
CONSTANTS
    Run = {r1, r2}
    Costs <- MCCosts
    Limits <- MCLimits
    Agent = {}
    Key = {}
    KeyOf <- NoKeys
    NoKey = NoKey
    NoRun = NoRun
    Sweeper = {}
    Undead = {}
    Stops = FALSE
    MaxCrashes = 0
    MaxFaults = 1
CHECK_DEADLOCK FALSE
PROPERTIES
    EveryRunSettles
