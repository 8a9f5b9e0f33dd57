SPECIFICATION Kinds
CONSTANTS
    NoJob = NoJob
    Cause = {c1}
    Channel = {x1}
    Member = {x2}
    Subscriber = {x3}
    Sweeper = {w1}
    MaxExpansionAttempts = 2
    MaxThrows = 0
    MaxCrashes = 0
    Scheduled = {"a"}
    Manual = {"m"}
    Group = {"g", "h"}
    Walker = {p1, p2}
    Never = Never
    Nowhere = Nowhere
    Window = 1
    Tree <- MCTree
    MaxAge = 1
    MaxEvents = 1
PROPERTIES
    DeclaredDown
