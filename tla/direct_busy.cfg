CONSTANTS
    Clients = {c1}
    Tasks = {t1}
    CriticalTasks = {}
    DocTasks = {}
    RunIds = {r1}
    Refs = {h1}
    Inside = {x}
    Outside = {x}
    Profiles = {p1}
    ObserverOnly = TRUE
    MaxRevision = 6
    None = None
SPECIFICATION Spec
INVARIANTS
    IdleProjectIsNotBusy
