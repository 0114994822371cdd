SPECIFICATION Spec
CONSTANTS
    Runs = {r1}
    Workers = {w1, w2}
    NoWork = NoWork
    MaxAttempts = 2
    Inline = {r1}
    MaxRounds = 1
    MaxFaults = 1
    Fields = {f1}
    Required = {f1}
    Requests = {u1}
    MaxCalls = 1
INVARIANTS
    PublishedReportConsistent
    DraftOfThisAttempt
    WaitingRunHasQuestion
    DeletedLeavesNothing
PROPERTIES
    PublishesOwnReport
SYMMETRY Symmetry
CHECK_DEADLOCK FALSE
