SPECIFICATION FairSpec
CONSTANTS
    Senders = {s1}
    Subs = {c1}
    Stoppers = {}
    NoTurn = NoTurn
    DisableIdleTimeout = FALSE
    SinkCap = 1
    SubCap = 1
    MaxLines = 0
INVARIANTS
    NoPanic
    ExitedMeansReaped
PROPERTIES
    StopReturns
    IdleAgentReaped
    DispatchDrains
CHECK_DEADLOCK FALSE
