SPECIFICATION Spec
CONSTANTS
    Kinds = {"edit_hn", "delete_sn", "edit_is", "delete_wmi", "drives", "create_hn", "create_sn", "create_is", "create_wmi", "create_user", "create_group"}
    Account = {1, 2, 3}
    NoItems = {3}
    MaxOpens = 2
    MaxSteps = 3
    MaxRequests = 3
INVARIANTS ActsOnWhatIsShown UpdateKeepsAccount FetchedIsOfField
CHECK_DEADLOCK FALSE
