SPECIFICATION Spec
CONSTANTS
    Workers = {w1, w2}
    Notifications = {n1}
    user = u1
    Recipients <- OneRecipient
    To <- ToUser
    Addresses = {a1, a2}
    NoOne = NoOne
    MaxTokens = 2
    MaxPrefVersion = 2
    MaxFaults = 2
INVARIANTS
    TypeOK
    AtMostOneAcceptance
    VerdictIsTrue
    AuditExplainsLedger
PROPERTIES
    KeepsPromise
    StopNotOvertaken
