SPECIFICATION Spec
CONSTANTS
    Builds <- MCBuilds
    Window = 2
    Stride = 1
    Pad = 1
    MinSilence = 2
    Hop = 2
    Ring = 4
    Cooldown = 5
    PreRoll = 3
    WakePreRollCap = 3
    MaxUtterance = 5
    Chunks = {1, 3}
    MaxStream = 11
    None = None
INVARIANT BuffersAreSpans
INVARIANT VadClockAgrees
INVARIANT DiarizerClockAgrees
PROPERTY OnsetIsPlaced
PROPERTY WakesApart
