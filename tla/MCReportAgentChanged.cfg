SPECIFICATION Spec
CONSTANTS
    Runs = {r1}
    Workers = {w1}
    NoWork = NoWork
    MaxAttempts = 1
    Inline = {}
    MaxRounds = 0
    MaxFaults = 0
    Fields = {f1}
    Required = {f1}
    Requests = {}
    MaxCalls = 1
PROPERTIES
    OldReportNotPublished
CHECK_DEADLOCK FALSE
