CONSTANTS
    Flows <- FastFlows
    MaxDrives = 2
    Faults = TRUE
    MaxProfiles = 1
    MaxCrashes = 0
SPECIFICATION HostSpec
PROPERTIES
    TicketSettles
    CallReturns
CHECK_DEADLOCK FALSE
