SPECIFICATION ChatSpec
CONSTANTS
    Backends = {"cpu", "hexagon", "default"}
    Taps = 1
    Window = 2
    Junk = Junk
    Tokens = {"a"}
    Prompts <- MCPrompts
    Messages <- MCMessages
    MaxSeqLen = 8
    NKeep = 0
    Ubatch = 2
    MaxNew = 2
    MaxDraft = 2
    None = None
    Turns <- MCTurns
    Eos = "eos"
    Newline = "nl"
INVARIANT PhaseIsTrue
INVARIANT TurnsAreClosed
PROPERTY ImplementsTranscript
