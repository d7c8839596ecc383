SPECIFICATION Spec
CONSTANTS
    Panels = {"image", "load_balancer", "security_group", "keypair", "user", "group"}
    Id = {1, 2, 3}
    Row = 2
    MaxPage = 2
    MaxClicks = 4
    MaxRequests = 3
INVARIANTS TargetIsTheDialogs DetailIsOfSelected OwnWritesAreSeen
CHECK_DEADLOCK FALSE
