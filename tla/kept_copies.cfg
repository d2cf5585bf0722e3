SPECIFICATION SpecPart
CONSTANTS
    Calls = {c1, c2}
    Keys = {k1, k2, k3}
    NSlots = 2
    None = None
    Files = {f1, f2}
    MaxUnfinished = 1
    MaxSource = 2
    Requests = {r1, r2}
    Sessions = {s1, s2}
    MaxVersion = 2
    MaxRuns = 2
SYMMETRY Symmetry
INVARIANTS
    AllTypeOK
    AdoptedCopyIsKept
    ReadyMeansComplete
    LeftoverIsCollectable
    OneStoredCopy
PROPERTIES
    DecidedAsPlanned
    JudgedOnItsGround
CHECK_DEADLOCK FALSE
