CONSTANTS
    Lexemes = {"id", "num", "=", "{", "}", "err"}
    MaxTokens = 3
    MaxLines = 3
    Documents <- SmallDocuments
    MaxFaults = 0
SPECIFICATION Spec
INVARIANTS
    AllErrorsCollected
