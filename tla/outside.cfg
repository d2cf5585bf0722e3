SPECIFICATION SpecPart
CONSTANTS
    Calls = {c1, c2}
    Keys = {k1, k2}
    None = None
    Sources = {s1}
    Guests = {g1}
    Staff = Staff
    Invitations = {i1, i2}
    MaxToken = 2
    Concerns <- ConnectionConcerns
    Asks = {q1}
    Tokens = {t1, t2, t3}
    MaxChange = 1
    MaxVersion = 2
SYMMETRY Symmetry
INVARIANTS
    AllTypeOK
    SharingIsBacked
PROPERTIES
    AddressFollowsEntitlement
    InvitationsAreTrue
    ToolsActOnce
CHECK_DEADLOCK FALSE
