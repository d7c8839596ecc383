SPECIFICATION FairSpec
CONSTANTS
    Inst = {i1, i2, i3}
    Halted = {i3}
    MaxRequests = 7
    MaxCrossed = 3
    MaxFaults = 1
    None = None
INVARIANTS NoTwoGuests NoDiskPulled RowTellsTruth
PROPERTY Settles
CHECK_DEADLOCK FALSE
