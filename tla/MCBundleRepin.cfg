SPECIFICATION Spec
CONSTANTS
    r1 = r1
    r2 = r2
    Resolvers = {r1}
    Versions <- MCVersions
    Size <- MCEqualSize
    PinSets <- MCBothPinned
    LinkedEtag = FALSE
    MaxAttempts = 2
    MaxFaults = 1
    CanCrash = TRUE
    CanLoseSidecar = FALSE
    Nothing = Nothing
INVARIANT ServedIsPinned
