SPECIFICATION BackupSpec
CONSTANTS
    Vol = {v1, v2, v3}
    Boot = v1
    Stores = {"local", "shared"}
    All = {TRUE, FALSE}
    Api = {p1}
    MaxPower = 2
    MaxFailures = 2
INVARIANTS DiskIsStill BootImageHasItsData
PROPERTIES BackupSettles
CHECK_DEADLOCK FALSE
