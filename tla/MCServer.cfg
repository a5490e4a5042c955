SPECIFICATION Spec
CONSTANTS
    Callers = {r1, r2}
    Boot = Boot
    Nobody = Nobody
    NoConfig = NoConfig
    MaxEdits = 3
    Agents = {a1}
    MaxBoots = 2
    Configs <- MCConfigs
INVARIANTS
    NoTickerPanic
    NoOrphansServed
    CollectedAgentsStopped
    FreshCredentials
    UpdatesDoNotClash
SYMMETRY Symmetry
CHECK_DEADLOCK FALSE
