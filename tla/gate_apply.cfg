SPECIFICATION FairSpec
CONSTANTS
    p1 = p1
    NoJob = NoJob
    NoPlan = NoPlan
    Proc <- OneProc
    MaxPush = 2
    MaxFaults = 1
    MaxEdits = 1
INVARIANTS
    
    AutoMergeGuarded
PROPERTY
    RollsForward
