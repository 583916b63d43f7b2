CONSTANTS
    Sources = {1, 2}
    Contents = {"a", "b", "ab", "a1", "a2"}
    Declares <- Code
    Baselines <- SomeBaselines
    LiveProjects <- SomeLive
    Starts <- SomeStarts
    HintLists <- SomeHints
    MaxEdits = 2
    Baseline = Baseline
    Live = Live
    Absent = Absent
    None = None
SPECIFICATION LensSpec
INVARIANTS
    ReportIsOneInstant
    PartialSourcesStood
    PairsAreExclusive
    ContextUntouched
    FreshInventsNothing
