CONSTANTS
    None = None
    Absent = Absent
    Torn = Torn
    d1 = d1
    d2 = d2
    d3 = d3
    Data = {d1, d2, d3}
    Modes = {TRUE, FALSE}
    Removing = TRUE
    Failing = TRUE
    Bad = Bad
    Keys = {"name", "zone", "record", "ssid", "password", "level"}
    MaxEntries = 5
    Faults = {"write", "power"}
    Names = {"esp", "ac"}
    DefaultName = "esp"
    Zones = {"UTC0", "CET"}
    DefaultZone = "UTC0"
    Configs = {"level"}
    Values = {"v0", "v1"}
    FirmwareDefault = "v0"
    MaxConfigs = 1
    MaxGraphAssemblies = 4
    MaxGraphEndpoints = 6
    MaxGraphEdges = 3
    MaxJobs = 4
    Periods = {0, 15, 30}
    ValidPeriods = {15, 30}
    DefaultPeriod = 15
    LaterFields <- Later
SPECIFICATION DeviceSpec
INVARIANT NextStartKnows
INVARIANT JobsFollowSettings
INVARIANT DecodingIsSound
INVARIANT AcceptsWellFormed
INVARIANT NetsAreComponents
PROPERTY LiveDataStays
PROPERTY CleanedUp
PROPERTY WritesAreStable
CHECK_DEADLOCK FALSE
