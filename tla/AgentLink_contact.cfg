SPECIFICATION FairSpec
CONSTANTS
    Window = 2
    Addresses = {"a1", "a2"}
    OddHosts = {"odd"}
    Environment = "a1"
    NoAddress = "nowhere"
    Requests = {"r1", "r2"}
    Connections = {1, 2}
    NoConnection = 0
    Skew = 1
    MaxNow = 2
    MaxFaults = 2
INVARIANT NothingOvertakes
PROPERTIES ImplementsErrands PanelIsFoundAgain
CHECK_DEADLOCK FALSE
