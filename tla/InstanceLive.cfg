SPECIFICATION FairSpec
CONSTANTS
    NoVol = NoVol
    Vol = {v1}
    Local = {}
    Boot = v1
    LsThread = {"ls1"}
    Requests = {"delete", "reboot", "stop", "start", "poweroff", "soft_poweroff", "poweron"}
    MaxRequests = 2
    MaxFaults = 1
    MaxQueue = 2
PROPERTIES TransientEnds DeadGuestIsNoticed DeadShutdownRecovers
CHECK_DEADLOCK FALSE
