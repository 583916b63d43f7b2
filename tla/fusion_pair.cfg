CONSTANTS
    t1 = t1
    t2 = t2
    Tasks = {t1, t2}
    Profiles = {p1, p2}
    Stamps = {h1, h2}
    Sessions = {s1, s2}
    MaxVersions <- Versions
    MaxRuns = 2
    MaxUpsets = 1
    MaxQueue <- Waits
    None = None
SPECIFICATION Spec
SYMMETRY Interchangeable
INVARIANTS
    OneAtATime
    AwaitingIsDelivered
    DiscussionAttended
    ExecutesAsAgreed
PROPERTIES
    OneSession
CHECK_DEADLOCK FALSE
