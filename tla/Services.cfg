CONSTANTS
    None = None
    Reachable = {"home"}
    TooLong = "long"
    ControlDepth = 2
    Stored <- MCStored
    Other <- MCOther
    Long <- MCLong
    Scenarios <- MCScenarios
SPECIFICATION Spec
PROPERTY EspNowRunsAgain
PROPERTY StationFollows
PROPERTY ClientFollows
CHECK_DEADLOCK FALSE
