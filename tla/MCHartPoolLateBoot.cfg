\* A secondary hart may reach bm_park_hart() after main() has started a job.
CONSTANTS
    N = 3
    MaxCalls = 1
    ClearsBss = TRUE
    LateBoot = TRUE
SPECIFICATION FairSpec
INVARIANT ExecuteAllReachesAll
