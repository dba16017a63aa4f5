\* Two secondary harts, three calls: a hart is started, found busy and started
\* again while the other one is at any point of its loop.
CONSTANTS
    N = 3
    MaxCalls = 3
    ClearsBss = TRUE
    LateBoot = FALSE
SPECIFICATION FairSpec
INVARIANTS
    JobIsIntact
    JobRunsOnce
    ClearMeansDone
    ExecuteAllReachesAll
