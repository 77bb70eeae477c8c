SPECIFICATION Spec
CONSTANTS
    Backends = {"cpu"}
    Taps = 1
    Window = 2
    Junk = Junk
    Tokens = {"a", "b"}
    Prompts <- MCPrompts
    Messages <- MCMessages
    MaxSeqLen = 4
    NKeep = 1
    Ubatch = 1
    MaxNew = 3
    MaxDraft = 2
    None = None
INVARIANTS
    GeneratedIsResident
