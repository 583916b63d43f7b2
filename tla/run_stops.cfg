CONSTANTS
    Flows <- MainFlows
    MaxDrives = 2
    Faults = TRUE
SPECIFICATION Spec
INVARIANTS
    EvidenceInOrder
    ReworksBounded
    StopHonoured
    NoOrphan
    DeliveredOnlyCompleted
PROPERTIES
    NoBlindRepeat
