SPECIFICATION MergeSpec
CONSTANTS
    MaxFixAttempts = 2
    MaxCasAttempts = 2
    MaxRuns = 3
    MaxHands = 2
    MaxCrashes = 1
INVARIANT RetryKeepsSession
CHECK_DEADLOCK FALSE
