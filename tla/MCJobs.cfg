SPECIFICATION FairSpec
CONSTANTS
    Jobs = {j1, j2}
    Hooked = {j1}
    TTL = 1
INVARIANTS
    NoResultDropped
PROPERTIES
    VerdictSticks
    NoResurrection
    JobsCollected
CHECK_DEADLOCK FALSE
