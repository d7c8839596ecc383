SPECIFICATION Spec
CONSTANTS
    Panels = {"instance", "volume", "backup", "network", "host_node", "storage_node"}
    Id = {1, 2, 3}
    Row = 2
    MaxPage = 2
    MaxRequests = 3
    MaxChanges = 1
    InitRows = {{2, 3}, {1, 2, 3}}
    MaxClicks = 4
INVARIANTS DetailsMatchChecked PageIsCurrent BoxesMatchList NoEmptyAction
CHECK_DEADLOCK FALSE
