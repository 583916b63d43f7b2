CONSTANTS
    Clients = {c1}
    Tasks = {t1}
    CriticalTasks = {}
    DocTasks = {t1}
    RunIds = {r1, r2}
    Refs = {h1, h2}
    Inside = {i1, i2}
    Outside = {o1}
    Profiles = {p1}
    ObserverOnly = TRUE
    MaxRevision = 9
    None = None
SPECIFICATION Spec
SYMMETRY ValuesInterchangeable
INVARIANTS
    TypeOK
    AcceptedIsVerified
    NoStaleEvidence
PROPERTIES
    ImplementsContract
