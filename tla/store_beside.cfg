SPECIFICATION Spec
CONSTANTS
    p1 = p1
    p2 = p2
    p3 = p3
    NoLock = NoLock
    Proc <- ThreeProcs
    MaxEvents = 3
    RecoverMode = "single"
    CrashAt <- Everywhere
    IOErrorAt <- FailingWrites
INVARIANTS
    MutualExclusion
    EventChain

    
SYMMETRY Symmetry
