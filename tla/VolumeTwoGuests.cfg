SPECIFICATION Spec
CONSTANTS
    Inst = {i1, i2}
    Halted = {}
    MaxRequests = 3
    MaxCrossed = 3
    MaxFaults = 0
    None = None
INVARIANT OneGuest
CHECK_DEADLOCK FALSE
