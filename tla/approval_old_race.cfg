SPECIFICATION ScopedSpec
CONSTANTS
    Calls = {c1, c2}
    Approvals = {a1, a2}
    Users = {u1, u2}
    Guests = {g1}
    Ids = {i1, i2}
    text = s1
    leaf = r1
    doc = d1
    Nodes <- LeafAndDoc
    Subject <- SubjectOfLeaf
    Members <- MembersOfDoc
    Legacy = {l1}
    Fits <- LeafFits
    NoOne = NoOne
    MaxGrants = 2
    Scopes = {"switches"}
SYMMETRY People
INVARIANTS
    LegacyDecidedOnce
CHECK_DEADLOCK FALSE
