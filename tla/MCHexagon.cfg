SPECIFICATION FairSpec
CONSTANTS
    MaxInflight = 2
    MaxStale = 1
    Staging = 2
    Layers = 4
    Models <- MCModels
    Budget = 2
    MaxPasses <- MCPasses
INVARIANT OutstandingExact
INVARIANT AwaitedIsOwed
INVARIANT RegionsKept
INVARIANT MappedWhileRead
INVARIANT WindowIsMapped
INVARIANT BeliefsHold
PROPERTY OkIsAsked
PROPERTY CallReturns
CHECK_DEADLOCK FALSE
