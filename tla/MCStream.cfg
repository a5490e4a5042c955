SPECIFICATION FairSpec
CONSTANTS
    Pipes = {stdout, stderr}
    MaxLines = 2
    OutputCap = 1
    PipeCap = 1
    Torn = Torn
INVARIANTS
    NoPanic
    CompletedIsWhole
PROPERTIES
    InOrder
    RunReturns
    AnswerArrives
CHECK_DEADLOCK FALSE
