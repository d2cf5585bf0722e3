SPECIFICATION Spec
CONSTANTS
    Parts = {"tasks"}
    Calls = {c1, c2}
    t1 = t1
    t2 = t2
    Tasks = {t1, t2, t3}
    Users = {u1}
    Comments = {m1, m2}
    NoOne = NoOne
    Kinds = {"depend"}
    RetryLimit = 5
    Keys = {k1}
    Files = {f1, f2}
    NoSource = NoSource
    MAX_FILES_PER_EXECUTION = 1
    People = {p1, p2}
    Projects = {j1}
    MaxSeen = 2
    MaxVersion = 3
SYMMETRY Symmetry
INVARIANTS
    NoDependencyCycle
CHECK_DEADLOCK FALSE
