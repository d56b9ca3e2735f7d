SPECIFICATION FairSpec
CONSTANTS
    p1 = p1
    p2 = p2
    a1 = a1
    a2 = a2
    child1 = child1
    child2 = child2
    parent = parent
    NoTxn = NoTxn
    Proc <- OneProc
    Approval <- TwoApprovals
    Tickets <- TwoChildren
    ClaimGate <- ChildReady
    LateWrites = FALSE
    MaxFaults = 1
    MaxEdits = 1
INVARIANTS
    OneComment

    
