CONSTANTS
    Clients = {c1, c2}
    Tasks = {t1}
    CriticalTasks = {t1}
    DocTasks = {t1}
    RunIds = {r1}
    Refs = {h1}
    Inside = {x}
    Outside = {x, y}
    Profiles = {p1, p2}
    ObserverOnly = FALSE
    MaxRevision = 6
    None = None
SPECIFICATION FairSpec
INVARIANTS
    AgreementHolds
    CriticalApproved
PROPERTIES
    VerificationSettles
