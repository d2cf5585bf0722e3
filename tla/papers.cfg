SPECIFICATION Spec
CONSTANTS
    Calls = {c1, c2}
    None = None
    Things = {x1}
    d1 = d1
    r1 = r1
    Documents = {d1, d2, d3}
    Sections = {s1, s2}
    Items = {r1, r2, r3}
    Issues = {i1}
    Users = {u1}
    NoOne = NoOne
    Keys = {k1}
    RetryLimit = 5
    Clients = {b1, b2, b3}
    Files = {f1, f2}
    Notices = {m1}
    Demo = TRUE
    Retention = 1
    MaxTime = 2
    FileLimit = 2
    LinkLimit = 1
    RemarkLimit = 1
    Lent = {w1, w2}
    Visitors = {v1}
    MAX_UNFINISHED = 1
    MAX_STARTS = 2
    MAX_UPLOADS = 1
    MAX_DUE = 2
SYMMETRY Symmetry
INVARIANTS
    TypeOK
    RequirementsAreTold
    
PROPERTIES
    DecidedOnWhatStands
CHECK_DEADLOCK FALSE
