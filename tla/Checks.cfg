SPECIFICATION Checks
CONSTANTS
    NoMonitor = NoMonitor
    Never = Never
    Monitor = {m1}
    TenantOf <- OneTenant
    Ticker = {t1, t2}
    Worker = {w1}
    Delays = {1, 2}
    TickPeriod = 1
    TickGrace = 1
    Lease = 2
    Expiry = 1
    Deferral = 2
    Batch = 1
    Capable = {TRUE}
    Overdue = 0
    MaxEdits = 2
    MaxFailures = 1
    Row = {r1}
    ch = ch
    Channel = {ch}
    ChannelOf <- OneChannel
    MaxAttempts = 2
    Horizon = 2
    LeaseTime = 2
    BackoffCeiling = 1
    RetryAfterCap = 2
    DeferDelay = 1
    ChannelLimit = 1
    BatchLimit = 2
    StaleClaimAge = 2
    Retention = 5
    LastEnqueue = 0
    LastMoment = 5
    MaxDeaths = 1
    Drain = {d1, d2}
    NoChannel = NoChannel
    NoOutcome = NoOutcome
INVARIANTS
    OneDispatch
    LeaseExclusive
    OutcomeEvidenced
PROPERTIES
    PostponedOnlyIfFast
    NeverSilent
    NeverRevived
    EventuallySettled
