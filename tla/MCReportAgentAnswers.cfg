SPECIFICATION Spec
CONSTANTS
    Runs = {r1}
    Workers = {w1}
    NoWork = NoWork
    MaxAttempts = 1
    Inline = {r1}
    MaxRounds = 1
    MaxFaults = 0
    Fields = {f1, f2}
    Required = {f1, f2}
    Requests = {u1, u2}
    MaxCalls = 1
INVARIANTS
    WaitingRunCanResume
CHECK_DEADLOCK FALSE
