SPECIFICATION LiveSpec
CONSTANTS
    Cases = {"frame"}
    Repeat = 2
    RetryFailures = 1
    Turns = 2
    Paths = {"draft"}
    Observed <- MCObserved
    Allowed <- MCObserved
    Needed <- MCObserved
INVARIANTS
    OwnAnswer
    TurnJudged
    ReportsHonest
    ProcessesKept

    
