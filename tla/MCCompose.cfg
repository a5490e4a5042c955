SPECIFICATION FairSpec
CONSTANTS
    r1 = r1
    r2 = r2
    Runs = {r1, r2}
    Service <- MCService
    Destroyers = {d1}
    NoStack = NoStack
INVARIANTS
    NoLeak
    VisibleIsUsable
PROPERTIES
    UpReturns
    OldStackGoes
CHECK_DEADLOCK FALSE
