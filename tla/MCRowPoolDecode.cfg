SPECIFICATION FairSpec
CONSTANTS
    c1 = c1
    c2 = c2
    Callers = {c1, c2}
    NoCaller = NoCaller
    NumThreads = 3
    ActiveBarrier = FALSE
    StealChunksPerWorker = 4
    WeightFull = 2
    Weight <- MCWeight
    RowCounts = {2}
    MinRows = {1}
    MinChunks = {1}
    ActiveCaps = {2}
    Reenters = TRUE
    MaxCalls = 2
PROPERTY CallEnds
PROPERTY DropEnds
