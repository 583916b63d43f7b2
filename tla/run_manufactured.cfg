CONSTANTS
    Flows <- ShortFlows
    MaxDrives = 1
    Faults = TRUE
SPECIFICATION Spec
INVARIANTS
    NothingManufactured
