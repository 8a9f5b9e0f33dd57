SPECIFICATION Kinds
CONSTANTS
    NoJob = NoJob
    Cause = {c1}
    Channel = {x1}
    Member = {x2}
    Subscriber = {x3}
    Sweeper = {w1, w2, w3}
    MaxExpansionAttempts = 2
    MaxThrows = 3
    MaxCrashes = 2
    Scheduled = {"a"}
    Manual = {"m"}
    Group = {"g", "h"}
    Walker = {p1, p2}
    Never = Never
    Nowhere = Nowhere
    Window = 1
    Tree <- MCTree
    MaxAge = 1
    MaxEvents = 2
INVARIANTS
    FanOutSound
PROPERTIES
    KeepsPromise
    GroupsSettle
