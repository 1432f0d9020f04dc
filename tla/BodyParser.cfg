CONSTANTS
    Lexemes = {"id", "num", "=", "{", "}", "err", "lost"}
    MaxTokens = 4
    MaxLines = 3
    Documents <- SmallDocuments
    MaxFaults = 1
SPECIFICATION Spec
INVARIANTS
    SameVerdict
    NothingLost
    BlocksClosed
    DiagsCollected
    AcceptsGrammar
PROPERTIES
    Terminates
