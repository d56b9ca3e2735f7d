SPECIFICATION RoadmapSpec
CONSTANTS
    N = 3
    Scenario <- Two
    Smallest <- Two
    Entry <- Follows
    External = 0
    NoGraph = NoGraph
    MaxEdits = 1
    Reviewed <- Line
    Runners = {r1, r2}
    None = None
    MaxPlans = 2
    MaxHandoffs = 1
    MaxResults = 1
    MaxMoves = 1
INVARIANTS
    CycleFound
    SkeletonTrue
    ReadWhole
    Chained
PROPERTY
    ReleaseRuns
CHECK_DEADLOCK FALSE
