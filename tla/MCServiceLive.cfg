SPECIFICATION FairServiceSpec
CONSTANTS
    Run = {r1, r2}
    Costs <- MCHeavy
    Limits <- MCLowered
    Agent = {r1}
    Key = {k}
    KeyOf <- AgentsKey
    NoKey = NoKey
    NoRun = NoRun
    Sweeper = {w1, w2}
    Undead = {}
    Stops = FALSE
    MaxCrashes = 0
    MaxFaults = 0
CHECK_DEADLOCK FALSE
INVARIANTS
    ResultsMatchLedger
PROPERTIES
    SweepSparesRenewed
    VerdictIsFinal
    TimedRunsSettle
    ExpiredRunsReaped
