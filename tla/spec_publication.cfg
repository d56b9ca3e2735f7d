SPECIFICATION FairSpec
CONSTANTS
  Procs = {p1, p2}
  NoBinding = NoBinding
  ApprovalLife = 0
  MaxTime = 1
  MaxApprovals = 2
  MaxIssues = 3
  MaxFaults = 1
INVARIANTS
    OneParent
    InOrder
PROPERTY
    Heals
