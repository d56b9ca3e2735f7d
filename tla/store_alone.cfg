SPECIFICATION FairSpec
CONSTANTS
    p1 = p1
    p2 = p2
    p3 = p3
    NoLock = NoLock
    Proc <- ThreeProcs
    MaxEvents = 3
    RecoverMode = "exclusive"
    CrashAt <- Recoverable
    IOErrorAt <- Nowhere
INVARIANTS
    NoSilentDamage
PROPERTIES
    CaseHeals
    RefinesHistory
