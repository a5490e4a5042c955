SPECIFICATION FairSpec
CONSTANTS
    Tokens = {t1, t2}
    Requests = {q1}
    Logouts = {l1, l2}
    NoToken = NoToken
    AccessExpiry = 2
    RefreshExpiry = 3
    MaxTime = 4
PROPERTIES
    RevokedDenied
    EntriesReaped
    Implements
CHECK_DEADLOCK FALSE
