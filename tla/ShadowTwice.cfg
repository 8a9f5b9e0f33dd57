SPECIFICATION Moving
CONSTANTS
    Parts = {"import"}
    Run = {r1, r2}
    Record = {"a", "b"}
    Fleet <- MCFleet
    Listings <- MCListings
    MaxBridges = 1
    MaxSlug = 2
    MaxUpsets = 1
    Take = {k1, k2}
    Kumas <- MCKumas
    MAX_PAGE_MONITORS = 1
    Poller = {p1, p2}
    Incident = {i1}
    Overlap = 1
    GraceHours = 0
    FailureWindow = 1
    MinHours = 1
    MaxFailures = 1
    RefetchCap = 1
    MaxHour = 3
    MaxAtOnce = 2
    MaxLapses = 1
SYMMETRY Symmetry
INVARIANT AllShadowed
CHECK_DEADLOCK FALSE
