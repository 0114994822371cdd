SPECIFICATION IngestSpec
CONSTANTS
    Docs = {d1}
    Workers = {w1}
    NoClaim = NoClaim
    MaxAttempts = 2
    MaxResets = 1
    MaxFaults = 1
    Scenarios = {{"CANCEL"}}
INVARIANTS
    ParsedTextKept
CHECK_DEADLOCK FALSE
