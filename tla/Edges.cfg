SPECIFICATION EdgesSpec
CONSTANTS
    Timeout = 3
    Grace = 1
    Threshold = 1
    MaxPieces = 2
    MaxAttempts = 3
    Captures = {c1, c2}
    Onsets = {i1}
    BURST_BUDGET = 3
    BURST_STEP_TIMEOUT = 2
    MAX_CONCURRENT_BURSTS = 1
INVARIANTS
    VerdictTrue
    InTime
    ArrivalTrue
    BurstBounded
    LayerObserved
PROPERTIES
    Ends
    SnapshotStays
CHECK_DEADLOCK FALSE
