SPECIFICATION Spec
CONSTANTS
    Senders = {s1, s2}
    Subs = {c1}
    Stoppers = {}
    NoTurn = NoTurn
    DisableIdleTimeout = TRUE
    SinkCap = 2
    SubCap = 2
    MaxLines = 2
INVARIANTS
    OutputCarriesItsTurn
    OneTurnInFlight
    TurnEndIsLast
PROPERTIES
    KeepsPromise
SYMMETRY Symmetry
CHECK_DEADLOCK FALSE
