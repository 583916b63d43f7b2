CONSTANTS
    Flows <- FastFlows
    MaxDrives = 2
    Faults = FALSE
    MaxProfiles = 1
    MaxCrashes = 0
SPECIFICATION HostSpec
PROPERTIES
    CancelledStays
CHECK_DEADLOCK FALSE
