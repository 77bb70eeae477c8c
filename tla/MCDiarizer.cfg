SPECIFICATION Spec
CONSTANTS
    Frame = 2
    History = 2
    MaxPendings = {0, 1, 2}
    Chunks = {1, 3}
    MaxTime = 5
    Times <- MCTimes
    MaxUtterances = 2
    None = None
INVARIANT EveryGrantIsHeld
INVARIANT WholeSpanIsWeighed
