SPECIFICATION Spec
CONSTANTS
    p1 = p1
    v1 = v1
    v2 = v2
    settings = settings
    agents = agents
    NoRun = NoRun
    Proc <- OneProc
    Path <- Paths
    Version <- Versions
    Ships <- ShipsMore
    MaxInstalls = 3
    MaxFaults = 2
INVARIANTS
    SnapshotExact
PROPERTIES
    
    StatusHonest
