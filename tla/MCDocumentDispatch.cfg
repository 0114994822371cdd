SPECIFICATION FairSpec
CONSTANTS
    Docs = {d1}
    Workers = {w1, w2}
    Dispatchers = {api, reconciler}
    NoClaim = NoClaim
    MaxAttempts = 2
    MaxResets = 1
    MaxFaults = 1
    MaxMishaps = 1
INVARIANTS
    NoStrandedDocument
    SingleTicketHolder
    OnlyOutdatedDeadLettered
PROPERTIES
    QueuedDocumentsSettle
CHECK_DEADLOCK FALSE
