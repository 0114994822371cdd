SPECIFICATION FairSpec
CONSTANTS
    Docs = {d1}
    Workers = {w1}
    Dispatchers = {reconciler}
    NoClaim = NoClaim
    MaxAttempts = 2
    MaxResets = 0
    MaxFaults = 1
    MaxMishaps = 0
PROPERTIES
    FailedAttemptsAreRetried
CHECK_DEADLOCK FALSE
