SPECIFICATION Spec
CONSTANTS
    c1 = c1
    c2 = c2
    Callers = {c1, c2}
    NoCaller = NoCaller
    NumThreads = 3
    ActiveBarrier = TRUE
    StealChunksPerWorker = 1
    WeightFull = 2
    Weight <- MCWeight
    RowCounts = {3}
    MinRows = {1}
    MinChunks = {1}
    ActiveCaps = {2, 3}
    Reenters = TRUE
    MaxCalls = 2
INVARIANT NoUseAfterReturn
INVARIANT BarrierCountsDebtors
INVARIANT NoSleepingDebtor
INVARIANT RaisesOwnPayload
PROPERTY ImplementsDispatch
SYMMETRY CallerSymmetry
