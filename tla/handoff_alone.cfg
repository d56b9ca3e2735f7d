SPECIFICATION FairSpec
CONSTANTS
    p1 = p1
    a1 = a1
    a2 = a2
    d1 = d1
    d2 = d2
    release = release
    goal = goal
    NoRun = NoRun
    Proc <- OneProc
    Channel <- Channels
    Approval <- TwoApprovals
    Dir <- Dirs
    Moves <- Forward
    MaxFaults = 1
    MaxEdits = 1

    
    
PROPERTIES
    NeverBack
    Resumable
