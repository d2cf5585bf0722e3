SPECIFICATION Spec
CONSTANTS
    Users = {u1}
    Calls = {c1, c2}
    Flows = {f1, f2, f3}
    Sessions = {s1, s2}
    Factors = {p1, p2}
    Recoveries = {r1, r2}
    Slots = {k1}
    NoOne = NoOne
    MaxAttempts = 1
    MaxFactors = 2
    MaxChanges = 2
    MaxSheets = 2
    MaxTime = 2
SYMMETRY Tokens
INVARIANTS
    FactorsStandBehindSessions
PROPERTIES
    FactorSteps
CHECK_DEADLOCK FALSE
