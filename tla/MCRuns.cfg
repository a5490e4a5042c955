SPECIFICATION Spec
CONSTANTS
    Runs = {r1, r2, r3}
    Hooked = {r1, r2}
    Destroyers = {d1}
    NoRun = NoRun
    MaxCrashes = 1
INVARIANTS
    MarkerMeansPrepared
    NoUseBeforeInit
    HooksNotRepeated
    LockReleased
SYMMETRY Symmetry
CHECK_DEADLOCK FALSE
