CONSTANTS
    Monitor = {m1}
    Target = {k1, k2}
    Object = {1, 2}
    OrgQuota = 1
    WorkerCap = 1
    OrgCap = 2
    TargetCap = 2
    Batch = 2
    HighWater = 3
    MaxEdits = 1
    MaxUpsets = 2
SPECIFICATION SlotSpec
INVARIANTS OrgFair
PROPERTIES ChangeSeen
CHECK_DEADLOCK FALSE
