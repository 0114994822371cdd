SPECIFICATION FairSpec
CONSTANTS
    Runs = {r1}
    Workers = {w1, w2}
    Dispatchers = {reconciler}
    NoWork = NoWork
    MaxAttempts = 2
    Inline = {}
    MaxRounds = 1
    MaxFaults = 1
    MaxCopies = 1
    DatabaseErrors = TRUE
INVARIANTS
    OneReportOwner
    AnsweredRunIsTried
    NoStrandedRun
    CancelledNotRedispatched
PROPERTIES
    ReportSpec
    ActiveRunsSettle
    TerminalIsFinal
CHECK_DEADLOCK FALSE
