SPECIFICATION FairSpec
CONSTANTS
    Workers = {w1}
    Notifications = {n1}
    user = u1
    Recipients <- OneRecipient
    To <- ToUser
    Addresses = {a1}
    NoOne = NoOne
    MaxTokens = 5
    MaxPrefVersion = 1
    MaxFaults = 1
PROPERTIES
    SettlesWithinLimit
