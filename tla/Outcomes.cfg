SPECIFICATION OutcomesSpec
CONSTANTS
    Never = Never
    NoIncident = NoIncident
    Checker = {w1, w2}
    Incident = {i1}
    Outcomes <- Flapping
    Windows = {0}
    OperatorStatus = {"resolved"}
    CanHold = FALSE
    MaxTime = 1
    MaxEdits = 2
    MaxCrashes = 1
    Writer = {t1, t2}
    CounterBase = 2
    CoverageHorizon = 2
    MaxClock = 2
    MaxFacts = 3
INVARIANTS
    DownEarned
    ChainValid
    UptimeSound
PROPERTIES
    EventuallyPaged
    EventuallyClosed
CHECK_DEADLOCK FALSE
