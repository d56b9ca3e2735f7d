SPECIFICATION FairSpec
CONSTANTS
    r1 = r1
    r2 = r2
    NoState = NoState
    NoResource = NoResource
    Resource <- Two
    MaxFaults = 4
INVARIANTS
    DeclaredFirst
    VerdictsClean
PROPERTY
    CleanedUp
