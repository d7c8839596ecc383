SPECIFICATION Spec
CONSTANTS
    NoVol = NoVol
    Vol = {v1, v2}
    Local = {v1, v2}
    Boot = v1
    LsThread = {"ls1", "ls2"}
    Requests = {"delete", "reboot", "stop", "start", "poweroff", "soft_poweroff", "poweron"}
    MaxRequests = 3
    MaxFaults = 1
    MaxQueue = 2
INVARIANTS NoSpontaneousDeath NothingLeaks RunningIsComplete RowsTellTheTruth NoDomainWithoutDisk
CHECK_DEADLOCK FALSE
