CONSTANTS
    Handles = {h1}
    Cores = {k1}
    Calls = {c1, c2}
    Ops <- Dropping
    Budget = 4
    MaxTokens = 2
    None = None
SPECIFICATION Spec
SYMMETRY Symmetry
PROPERTY OnlyTheCallUnderWay
CHECK_DEADLOCK FALSE
