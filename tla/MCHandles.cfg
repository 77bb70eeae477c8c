CONSTANTS
    Handles = {h1, h2}
    Cores = {k1, k2}
    Calls = {c1, c2}
    Ops <- Everything
    Budget = 4
    MaxTokens = 2
    None = None
SPECIFICATION Spec
SYMMETRY Symmetry
INVARIANTS MovedIsEmpty GateGuardsModel SinkHearsTheEnd CancelStopsDecode
INVARIANT HolderNeverWaits
PROPERTY CancelIsSpent
CHECK_DEADLOCK FALSE
