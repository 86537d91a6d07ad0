SPECIFICATION FairMergeSpec
CONSTANTS
    MaxFixAttempts = 2
    MaxCasAttempts = 2
    MaxRuns = 2
    MaxHands = 2
    MaxCrashes = 1
INVARIANTS MergeTypeOK ValidatedLands ConflictsDoNotLand
PROPERTIES MergesAreNotThrownAway RunsEnd
CHECK_DEADLOCK FALSE
