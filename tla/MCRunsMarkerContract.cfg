SPECIFICATION Spec
CONSTANTS
    Runs = {r1, r2}
    Hooked = {r1, r2}
    Destroyers = {d1}
    NoRun = NoRun
    MaxCrashes = 1
INVARIANTS
    MarkerContract
CHECK_DEADLOCK FALSE
