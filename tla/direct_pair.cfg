CONSTANTS
    Clients = {c1}
    Tasks = {t1, t2}
    CriticalTasks = {}
    DocTasks = {}
    RunIds = {r1, r2}
    Refs = {h1}
    Inside = {x}
    Outside = {x}
    Profiles = {p1}
    ObserverOnly = FALSE
    MaxRevision = 5
    None = None
SPECIFICATION Spec
SYMMETRY Interchangeable
INVARIANTS
    SingleWriter
    CommandUndisturbed
    ActiveRunRecoverable
