SPECIFICATION ReadingClients
CONSTANTS
    Senders = {}
    Subs = {c1}
    Stoppers = {d1}
    NoTurn = NoTurn
    DisableIdleTimeout = TRUE
    SinkCap = 1
    SubCap = 1
    MaxLines = 0
PROPERTIES
    StreamEnds
CHECK_DEADLOCK FALSE
