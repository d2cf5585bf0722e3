SPECIFICATION Spec
CONSTANTS
    u1 = u1
    e1 = e1
    Users = {u1}
    Fresh = {u1}
    Emails = {e1, e2}
    Address <- OneAddress
    Calls = {c1, c2}
    Sessions = {s1}
    Links = {l1, l2}
    NoOne = NoOne
    MaxEdits = 2
SYMMETRY Tokens
INVARIANTS
    NothingOutlivesTheLogin
PROPERTIES
    LoginSteps
CHECK_DEADLOCK FALSE
