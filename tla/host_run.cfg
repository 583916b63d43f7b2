CONSTANTS
    Flows <- CriticalFlows
    MaxDrives = 2
    Faults = FALSE
    MaxProfiles = 2
    MaxCrashes = 1
SPECIFICATION HostSpec
INVARIANTS
    NothingAbandoned
    TestedAsConfigured
    DecisionsRecorded
PROPERTIES
    RestartEndsRuns
CHECK_DEADLOCK FALSE
