SPECIFICATION Spec
CONSTANTS
    Backends = {"cpu", "hexagon"}
    Taps = 1
    Window = 2
    Junk = Junk
    Tokens = {"a", "b"}
    Prompts <- MCPrompts
    Messages <- MCMessages
    MaxSeqLen = 4
    NKeep = 1
    Ubatch = 1
    MaxNew = 2
    MaxDraft = 2
    None = None
INVARIANTS
    FrontierAgrees
    SeedMatchesContext
PROPERTIES
    RestoredIsExact
    CancelledIsResumable
