SPECIFICATION IngestSpec
CONSTANTS
    Docs = {d1}
    Workers = {w1, w2}
    NoClaim = NoClaim
    MaxAttempts = 2
    MaxResets = 1
    MaxFaults = 1
    Scenarios = {{"STALL"}}
INVARIANTS
    ReadySearchable
CHECK_DEADLOCK FALSE
