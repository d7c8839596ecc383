SPECIFICATION Spec
CONSTANTS
    Forms = {"launch", "edit", "load_balancer", "register", "volume", "network", "name_create", "name_edit", "network_edit", "attach"}
    OnceForms = {"launch", "load_balancer"}
    Group = {g1}
    Monitor = {1, 2, 3}
    InitStored = {{1}}
    InitMails = {"valid"}
    InitOn = {TRUE}
    MaxOpens = 2
    MaxLeft = 1
    MaxSteps = 2
    MaxOnceSteps = 5
INVARIANTS ButtonTellsTheTruth NoMonitorLost MonitorsDistinct
CHECK_DEADLOCK FALSE
