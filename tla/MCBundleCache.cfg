SPECIFICATION FairSpec
CONSTANTS
    r1 = r1
    r2 = r2
    Resolvers = {r1, r2}
    Versions <- MCVersions
    Size <- MCSize
    PinSets <- MCPinSets
    LinkedEtag = TRUE
    MaxAttempts = 2
    MaxFaults = 3
    CanCrash = TRUE
    CanLoseSidecar = TRUE
    Nothing = Nothing
INVARIANT InstallIsVerified
INVARIANT ServedIsWanted
INVARIANT DestIsWhole
PROPERTY Recovers
PROPERTY ResolveEnds
