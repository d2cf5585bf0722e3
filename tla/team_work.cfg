SPECIFICATION Spec
CONSTANTS
    Parts = {"tasks", "design", "members"}
    Calls = {c1, c2}
    t1 = t1
    t2 = t2
    Tasks = {t1, t2, t3}
    Users = {u1}
    Comments = {m1, m2}
    NoOne = NoOne
    Kinds <- AllKinds
    RetryLimit = 5
    Keys = {k1}
    Files = {f1, f2}
    NoSource = NoSource
    MAX_FILES_PER_EXECUTION = 1
    MaxVersion = 3
    People = {p1, p2}
    Projects = {j1}
    MaxSeen = 2
SYMMETRY Symmetry
INVARIANTS
    TypeOK
    DesignIsHonest
PROPERTIES
    
    SeenIsWhatCounts
    MemberSteps
CHECK_DEADLOCK FALSE
