SPECIFICATION Spec
CONSTANTS
    Broadcast = 5
    Service = {2}
    Vif = {v1, v2}
    Manual = TRUE
    MaxRanges = 2
    MaxDeleted = 3
    None = None
INVARIANTS SearchIsNextUsable NoAddressTwice NothingBlocked
CHECK_DEADLOCK FALSE
