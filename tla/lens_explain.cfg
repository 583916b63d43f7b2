CONSTANTS
    Starts <- SomeStarts
    Contents <- SomeContents
    Used = "Model"
    Core = "Core"
    Game = "Game"
    Definition = 9
    Declares <- SomeCode
    Area <- SomeAreas
    Words <- SomeWords
    Limit <- Bounds
    Absent = Absent
    None = None
SPECIFICATION ExplainSpec
CHECK_DEADLOCK FALSE
INVARIANTS
    NothingHidden
    ChainsDisclosed
    ArrowsAreRelations
    TestsNeverDisplace
    PartialIsSaid
    FreshStandsAlone
    AttestedIsCompiled
    BundleAgrees
