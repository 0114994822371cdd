SPECIFICATION IngestSpec
CONSTANTS
    Docs = {d1}
    Workers = {w1, w2}
    NoClaim = NoClaim
    MaxAttempts = 2
    MaxResets = 1
    MaxFaults = 1
    Scenarios <- DisruptionScenarios
INVARIANTS
    SearchableUnlessStalled
    ReadyPointsIntact
    PublishedArtifactKept
    PointsAccounted
    NoBm25AfterDelete
SYMMETRY WorkerSymmetry
CHECK_DEADLOCK FALSE
