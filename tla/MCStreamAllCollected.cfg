SPECIFICATION Spec
CONSTANTS
    Pipes = {stdout, stderr}
    MaxLines = 1
    OutputCap = 1
    PipeCap = 1
    Torn = Torn
INVARIANTS
    AllCollected
CHECK_DEADLOCK FALSE
