SPECIFICATION RecordsSpec
CONSTANTS
    Parts = {"leases"}
    Row = {r1, r2}
    Drain = {p1, p2}
    ch = ch
    Channel = {ch}
    ChannelOf <- OneChannel
    NoChannel = NoChannel
    NoOutcome = NoOutcome
    MaxAttempts = 1
    Horizon = 4
    LeaseTime = 1
    BackoffCeiling = 1
    RetryAfterCap = 0
    DeferDelay = 1
    ChannelLimit = 1
    BatchLimit = 2
    StaleClaimAge = 1
    Retention = 9
    LastEnqueue = 0
    LastMoment = 2
    MaxDeaths = 0
    w1 = w1
    w2 = w2
    Nobody = Nobody
    Worker = {w1, w2}
    Shard = {s1}
    Skew <- MCSkew
    Lag = 2
    Renewal = {n1}
    TTL = 2
    MaxUpsets = 1
    Incident = {i1, i2}
    NoIncident = NoIncident
    Never = Never
    Checker = {p1, p2}
    Outcomes <- Docker
    Windows = {0, 1}
    OperatorStatus = {"identified", "resolved"}
    CanHold = TRUE
    MaxTime = 0
    MaxEdits = 1
    MaxCrashes = 1
INVARIANT
    OneOwner
CHECK_DEADLOCK FALSE
