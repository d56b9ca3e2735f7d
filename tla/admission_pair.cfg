SPECIFICATION Spec
CONSTANTS
    p1 = p1
    p2 = p2
    a1 = a1
    a2 = a2
    child1 = child1
    child2 = child2
    parent = parent
    NoTxn = NoTxn
    Proc <- TwoProcs
    Approval <- OneApproval
    Tickets <- OneChild
    ClaimGate <- ParentReady
    LateWrites = TRUE
    MaxFaults = 2
    MaxEdits = 0
INVARIANTS
    ActivationLast
    TransactionTrue

    
SYMMETRY Symmetry
